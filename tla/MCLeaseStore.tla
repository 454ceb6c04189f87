---------------------------- MODULE MCLeaseStore ----------------------------
(* LeaseStore on a small instance for TLC. *)
EXTENDS LeaseStore, TLC

MCRetryDelay == <<0, 1>>

Interchangeable == Permutations(Lease) \cup Permutations(Key) \cup Permutations(External)
=============================================================================
