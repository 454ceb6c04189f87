SPECIFICATION Spec
CONSTANTS
  Phases = {"code-review"}
  Sha = {s0}
  Base = s0
  NoSha = NoSha
  Projection = Projection
  Claim = {c1, c2}
  Lease = {l1, l2, l3}
  NoLease = NoLease
  Timely = TRUE
  Attended = TRUE
  OwnerPushes = FALSE
  EarlyRelease = FALSE
  QuietPublication = FALSE
SYMMETRY Interchangeable
INVARIANTS RunningIsRecoverable UndisturbedWorker
PROPERTIES PhaseEndsOnce CompletedWorkIsKept
CHECK_DEADLOCK FALSE
