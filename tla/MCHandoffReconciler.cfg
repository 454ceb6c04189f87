SPECIFICATION FairSpec
CONSTANTS
  Sha = {s0, s1}
  Base = s0
  Final = s1
  Starts <- MCStarts
  Posted <- MCPosted
  Gaps = {0, 1}
  MaxMoves = 2
  MaxFails = 1
INVARIANT ReviewedByHistory
PROPERTIES QAOnlyReviewed OwnerWaitEarned HumanDecisionsStay ReviewIsFollowed QAIsDispatched JobsSettle
CHECK_DEADLOCK FALSE
