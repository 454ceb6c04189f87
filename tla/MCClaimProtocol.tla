---------------------------- MODULE MCClaimProtocol ----------------------------
(* Claims and leases are interchangeable: none is named by a definition.      *)
EXTENDS ClaimProtocol, TLC

Interchangeable == Permutations(Claim) \cup Permutations(Lease)
================================================================================
