------------------------------ MODULE Ownership ------------------------------
(***************************************************************************)
(* What the claim store promises, with no table, clock or delivery in it:  *)
(* every operation key has at most one owner, an owner is a lease that is  *)
(* in force, a key changes hands only through a state in which nobody owns *)
(* it, and a lease that ended is never in force again.  This is the claim  *)
(* of the docstrings of claim_operation and of StateStore ("a second       *)
(* process ... must never reclaim a live worker").  LeaseStore implements  *)
(* it.                                                                     *)
(***************************************************************************)
CONSTANTS Key, Lease, NoLease

VARIABLES owner,      \* the lease in force that owns each key, or NoLease
          inForce,    \* leases that are in force
          ended       \* leases that were in force once and never will be again

vars == <<owner, inForce, ended>>

Init == /\ owner = [k \in Key |-> NoLease]
        /\ inForce = {}
        /\ ended = {}

\* A new lease comes into force and may take one key nobody owns with it.
Issue(l) == /\ l \in Lease \ (inForce \cup ended)
            /\ inForce' = inForce \cup {l}
            /\ \/ owner' = owner
               \/ \E k \in Key : /\ owner[k] = NoLease
                                 /\ owner' = [owner EXCEPT ![k] = l]
            /\ UNCHANGED ended

\* A lease in force takes a key nobody owns.
Take(k, l) == /\ l \in inForce
              /\ owner[k] = NoLease
              /\ owner' = [owner EXCEPT ![k] = l]
              /\ UNCHANGED <<inForce, ended>>

\* Leases end, released by their holders or run out, and free what they own.
End(L) == /\ L # {}
          /\ L \subseteq inForce
          /\ inForce' = inForce \ L
          /\ ended' = ended \cup L
          /\ owner' = [k \in Key |-> IF owner[k] \in L THEN NoLease ELSE owner[k]]

Next == \/ \E l \in Lease : Issue(l)
        \/ \E k \in Key, l \in Lease : Take(k, l)
        \/ \E L \in SUBSET Lease : End(L)

Spec == Init /\ [][Next]_vars
=============================================================================
