SPECIFICATION Spec
CONSTANTS
  Pass = {loop, tick}
  Scanner = loop
  Good = {1}
  MaxEvidence = 1
  MaxRows = 2
  MaxMoves = 0
  MaxFails = 0
INVARIANT RecoveredIsQueued
CHECK_DEADLOCK FALSE
