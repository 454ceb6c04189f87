SPECIFICATION Spec
CONSTANTS
  Phases = {"qa"}
  Event = {e1, e2}
  Lease = {l1, l2, l3}
  NoLease = NoLease
  Source = source
  Other = other
  MaxRetries = 2
  Faults = {"request", "process", "push", "evidence"}
SYMMETRY Interchangeable
INVARIANTS TypeOK HandedOff UndisturbedRun
PROPERTIES NoRecordTwice ResultIsKept
CHECK_DEADLOCK FALSE
