SPECIFICATION FairSpec
CONSTANTS
  Pass = {loop}
  Scanner = loop
  Good = {1, 3}
  MaxEvidence = 3
  MaxRows = 5
  MaxMoves = 2
  MaxFails = 1
INVARIANT RecoveredIsQueued
PROPERTIES UndisturbedWorker RowsEnd BlockerClears RecoveredIsTaken
CHECK_DEADLOCK FALSE
