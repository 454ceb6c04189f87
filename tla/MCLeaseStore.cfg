SPECIFICATION Spec
CONSTANTS
  Native = {n1}
  External = {x1, x2}
  Key = {k1, k2}
  Lease = {l1, l2, l3}
  NoLease = NoLease
  NoClaim = NoClaim
  NoKey = NoKey
  Checkpoint = {none, saved}
  NoCheckpoint = none
  LeaseTime = 2
  RetryDelay <- MCRetryDelay
  MaxClock = 3
  MaxAttempts = 2
SYMMETRY Interchangeable
CHECK_DEADLOCK FALSE
INVARIANTS
  TypeOK
  WorkingClaimOwnsItsKey
  ExternalNeverQueued
PROPERTIES
  ImplementsOwnership
