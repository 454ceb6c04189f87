SPECIFICATION Spec
CONSTANTS
  Phases = {"prototype", "implementation", "escalation-repair", "qa"}
  Sha = {s0, s1}
  Base = s0
  NoSha = NoSha
  Projection = Projection
  Claim = {c1}
  Lease = {l1, l2, l3}
  NoLease = NoLease
  Timely = TRUE
  Attended = TRUE
  OwnerPushes = FALSE
  EarlyRelease = FALSE
  QuietPublication = TRUE
SYMMETRY Interchangeable
INVARIANTS RunningIsRecoverable AdvancedOnEvidence
CHECK_DEADLOCK FALSE
