SPECIFICATION FairSpec
CONSTANTS
  Phases = {"code-review"}
  Sha = {s0}
  Base = s0
  NoSha = NoSha
  Projection = Projection
  Claim = {c1}
  Lease = {l1, l2, l3}
  NoLease = NoLease
  Timely = TRUE
  Attended = TRUE
  OwnerPushes = FALSE
  EarlyRelease = FALSE
  QuietPublication = FALSE
PROPERTIES RunningEnds
CHECK_DEADLOCK FALSE
