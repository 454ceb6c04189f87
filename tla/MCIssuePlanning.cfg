SPECIFICATION FairSpec
CONSTANTS
  Revision = {r1, r2}
  Ready = {r1}
  Closed = closed
  Planner = {p1, p2}
  Nobody = nobody
  Service = service
  Pull = {n1, n2}
  NoPull = NoPull
  MaxEvents = 1
INVARIANT NeverReplanned
PROPERTIES CompletedByOwner ReadyIsReserved AbandonedIsConfirmed
CHECK_DEADLOCK FALSE
