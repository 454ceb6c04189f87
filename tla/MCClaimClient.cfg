SPECIFICATION FairSpec
CONSTANTS
  Uuid = {u1, u2, u3, u4, u5, u6}
  Nobody = Nobody
  Others = Others
  Attempts = 2
  LeaseTime = 7
  Margin = 2
  Cap = 4
  Interval = 2
  Timeout = 1
  Cooldown = 4
  MaxMoves = 4
INVARIANTS WorkFitsLease RetryBudget
PROPERTIES WorkGetsDone
CHECK_DEADLOCK FALSE
