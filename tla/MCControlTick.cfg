SPECIFICATION FairSpec
CONSTANTS
  Handler = {h1, h2}
  Delivery = {d1, d2}
  Steps = 1
  k1 = k1
  k2 = k2
  Key = {k1, k2}
  Place <- MCPlace
  Broken = {k1}
  Cooldown = 2
  MaxWakes = 2
  MaxMoves = 1
  MaxCrashes = 1
INVARIANT DuplicatesBounded
PROPERTIES LatestTickSteps ReceiptsStand NobodyStarves
CHECK_DEADLOCK FALSE
