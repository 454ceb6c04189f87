SPECIFICATION Spec
CONSTANTS
  Phases = {"escalation-repair"}
  Sha = {s0, s1, s2}
  Base = s0
  NoSha = NoSha
  Projection = Projection
  Claim = {c1}
  Lease = {l1, l2}
  NoLease = NoLease
  Timely = TRUE
  Attended = TRUE
  OwnerPushes = TRUE
  EarlyRelease = TRUE
  QuietPublication = TRUE
SYMMETRY Interchangeable
PROPERTIES OnlyDeclaredHeads
CHECK_DEADLOCK FALSE
