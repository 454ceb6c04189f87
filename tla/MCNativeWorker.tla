--------------------------- MODULE MCNativeWorker ---------------------------
(* Events and leases are interchangeable: none is named by a definition.     *)
EXTENDS NativeWorker, TLC

Interchangeable == Permutations(Event) \cup Permutations(Lease)
=============================================================================
