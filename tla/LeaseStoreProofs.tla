-------------------------- MODULE LeaseStoreProofs --------------------------
(***************************************************************************)
(* Theorems about LeaseStore, for every set of deliveries, keys and leases *)
(* and every lease time.                                                   *)
(***************************************************************************)
EXTENDS LeaseStore, TLAPS

USE DEF Delivery

-----------------------------------------------------------------------------
(* The inductive invariant.                                                *)

\* A row has a lease exactly while it is running.
LeaseIffRunning == \A d \in Delivery : lease[d] # NoLease <=> Running(d)

\* No lease appears in a row before the store has generated it.
LeasesAreIssued == /\ \A d \in Delivery : lease[d] # NoLease => lease[d] \in issued
                   /\ \A k \in Key : claims[k] # NoClaim => claims[k].lease \in issued

\* No two rows share a lease.
LeasesAreDistinct == \A d, e \in Delivery :
                        lease[d] # NoLease /\ lease[d] = lease[e] => d = e

\* The row of an external claim names a key, from the day it is inserted.
ClaimsAreBound == \A d \in External : /\ status[d] # "absent" => bound[d] \in Key
                                      /\ d \in reconciling => status[d] # "absent"

IInv == /\ TypeOK
        /\ LeaseIffRunning
        /\ LeasesAreIssued
        /\ LeasesAreDistinct
        /\ ClaimsAreBound
        /\ ExternalNeverQueued
        /\ WorkingClaimOwnsItsKey

-----------------------------------------------------------------------------
(* Type correctness.                                                       *)

\* A retry delay is a number, whatever the count of attempts.
LEMMA DelayType == \A n \in Nat : Delay(n) \in Nat
BY TimeAssumption DEF Delay

\* The initial state has the right types.
LEMMA TypeInit == Init => TypeOK
BY NullAssumption, TimeAssumption DEF Init, TypeOK, Status, Terminal

\* Every step keeps the types.
LEMMA TypeStep == TypeOK /\ [Next]_vars => TypeOK'
<1> SUFFICES ASSUME TypeOK, [Next]_vars PROVE TypeOK'
  OBVIOUS
<1> USE TimeAssumption, NullAssumption DEF TypeOK, Status, Terminal
<1>1. CASE Tick
  BY <1>1 DEF Tick
<1>2. ASSUME NEW d \in Delivery, Enqueue(d) PROVE TypeOK'
  BY <1>2 DEF Enqueue
<1>3. ASSUME NEW d \in Delivery, NEW l \in Lease, ClaimNext(d, l) PROVE TypeOK'
  BY <1>3 DEF ClaimNext, Fresh
<1>4. ASSUME NEW d \in Delivery, NEW l \in Lease, Heartbeat(d, l) PROVE TypeOK'
  BY <1>4 DEF Heartbeat
<1>5. ASSUME NEW k \in Key, NEW d \in Delivery, NEW l \in Lease, ClaimOperation(k, d, l)
      PROVE  TypeOK'
  BY <1>5 DEF ClaimOperation
<1>6. ASSUME NEW k \in Key, NEW d \in Delivery, NEW l \in Lease, ClaimExternal(k, d, l)
      PROVE  TypeOK'
  BY <1>6 DEF ClaimExternal, Fresh
<1>7. ASSUME NEW d \in Delivery, NEW l \in Lease, NEW c \in Checkpoint,
             SaveCheckpoint(d, l, c)
      PROVE  TypeOK'
  BY <1>7 DEF SaveCheckpoint
<1>8. ASSUME NEW d \in Delivery, NEW l \in Lease, NEW s \in Status, Finish(d, l, s)
      PROVE  TypeOK'
  <2>1. Delay(attempts[d]) \in Nat
    BY DelayType
  <2>2. retryAt' \in [Delivery -> Nat]
    BY <1>8, <2>1 DEF Finish
  <2>3. status' \in [Delivery -> Status]
    BY <1>8 DEF Finish
  <2>4. /\ lease' \in [Delivery -> Lease \cup {NoLease}]
        /\ expires' \in [Delivery -> Nat]
    BY <1>8 DEF Finish
  <2>5. QED
    BY <1>8, <2>2, <2>3, <2>4 DEF Finish
<1>9. ASSUME NEW k \in Key, NEW d \in Delivery, NEW l \in Lease, NEW c \in Checkpoint,
             MoveExternalHead(k, d, l, c)
      PROVE  TypeOK'
  BY <1>9 DEF MoveExternalHead
<1>10. ASSUME NEW d \in Delivery, NEW old \in Lease, NEW l \in Lease,
              ReclaimExternal(d, old, l)
       PROVE  TypeOK'
  BY <1>10 DEF ReclaimExternal, Fresh
<1>11. CASE UNCHANGED vars
  BY <1>11 DEF vars
<1>12. QED
  BY <1>1, <1>2, <1>3, <1>4, <1>5, <1>6, <1>7, <1>8, <1>9, <1>10, <1>11 DEF Next

\* Every variable of the store keeps its type: the row, lease and claim
\* columns of state_store.py hold only the values its schema intends.
THEOREM TypeCorrect == Spec => []TypeOK
BY TypeInit, TypeStep, PTL DEF Spec

-----------------------------------------------------------------------------
(* The invariant is inductive.                                             *)

\* The initial state satisfies the invariant.
LEMMA InvInit == Init => IInv
<1> SUFFICES ASSUME Init PROVE IInv
  OBVIOUS
<1>1. TypeOK
  BY TypeInit
<1>2. QED
  BY <1>1 DEF Init, IInv, LeaseIffRunning, LeasesAreIssued, LeasesAreDistinct,
              ClaimsAreBound, ExternalNeverQueued, WorkingClaimOwnsItsKey, Running, Live

\* Every step keeps the invariant.
LEMMA InvStep == IInv /\ [Next]_vars => IInv'
<1> SUFFICES ASSUME IInv, [Next]_vars PROVE IInv'
  OBVIOUS
<1>t. TypeOK'
  BY TypeStep DEF IInv
<1> USE <1>t, KindsAssumption, NullAssumption, TimeAssumption
    DEF TypeOK, IInv, LeaseIffRunning, LeasesAreIssued, LeasesAreDistinct,
        ClaimsAreBound, ExternalNeverQueued, WorkingClaimOwnsItsKey,
        OwnsOperation, HoldsLease, Active, Live, Expired, Running, Status, Terminal
<1>1. CASE Tick
  BY <1>1 DEF Tick
<1>2. ASSUME NEW d \in Delivery, Enqueue(d) PROVE IInv'
  <2>1. LeaseIffRunning'
    BY <1>2 DEF Enqueue
  <2>2. LeasesAreIssued'
    BY <1>2 DEF Enqueue
  <2>3. LeasesAreDistinct'
    BY <1>2 DEF Enqueue
  <2>4. ClaimsAreBound'
    BY <1>2 DEF Enqueue
  <2>5. ExternalNeverQueued'
    BY <1>2 DEF Enqueue
  <2>6. WorkingClaimOwnsItsKey'
    BY <1>2 DEF Enqueue
  <2>7. QED
    BY <2>1, <2>2, <2>3, <2>4, <2>5, <2>6
<1>3. ASSUME NEW d \in Delivery, NEW l \in Lease, ClaimNext(d, l) PROVE IInv'
  <2>1. LeaseIffRunning'
    BY <1>3 DEF ClaimNext, Fresh, Due, Lapsed
  <2>2. LeasesAreIssued'
    BY <1>3 DEF ClaimNext, Fresh, Due, Lapsed
  <2>3. LeasesAreDistinct'
    BY <1>3 DEF ClaimNext, Fresh, Due, Lapsed
  <2>4. ClaimsAreBound'
    BY <1>3 DEF ClaimNext, Fresh, Due, Lapsed
  <2>5. ExternalNeverQueued'
    BY <1>3 DEF ClaimNext, Fresh, Due, Lapsed
  <2>6. WorkingClaimOwnsItsKey'
    BY <1>3 DEF ClaimNext, Fresh, Due, Lapsed
  <2>7. QED
    BY <2>1, <2>2, <2>3, <2>4, <2>5, <2>6
<1>4. ASSUME NEW d \in Delivery, NEW l \in Lease, Heartbeat(d, l) PROVE IInv'
  BY <1>4 DEF Heartbeat
<1>5. ASSUME NEW k \in Key, NEW d \in Delivery, NEW l \in Lease, ClaimOperation(k, d, l)
      PROVE  IInv'
  <2>1. LeaseIffRunning'
    BY <1>5 DEF ClaimOperation
  <2>2. LeasesAreIssued'
    BY <1>5 DEF ClaimOperation
  <2>3. LeasesAreDistinct'
    BY <1>5 DEF ClaimOperation
  <2>4. ClaimsAreBound'
    BY <1>5 DEF ClaimOperation
  <2>5. ExternalNeverQueued'
    BY <1>5 DEF ClaimOperation
  <2>6. WorkingClaimOwnsItsKey'
    BY <1>5 DEF ClaimOperation
  <2>7. QED
    BY <2>1, <2>2, <2>3, <2>4, <2>5, <2>6
<1>6. ASSUME NEW k \in Key, NEW d \in Delivery, NEW l \in Lease, ClaimExternal(k, d, l)
      PROVE  IInv'
  <2>1. LeaseIffRunning'
    BY <1>6 DEF ClaimExternal, Fresh
  <2>2. LeasesAreIssued'
    BY <1>6 DEF ClaimExternal, Fresh
  <2>3. LeasesAreDistinct'
    BY <1>6, SMTT(30) DEF ClaimExternal, Fresh
  <2>4. ClaimsAreBound'
    BY <1>6 DEF ClaimExternal, Fresh
  <2>5. ExternalNeverQueued'
    BY <1>6 DEF ClaimExternal, Fresh
  <2>6. ASSUME NEW e \in External \ reconciling, Live(e)'
        PROVE  OwnsOperation(bound[e], e, lease[e])'
    <3>1. CASE e = d
      BY <1>6, <2>6, <3>1 DEF ClaimExternal, Fresh
    <3>2. CASE e # d
      <4>1. Live(e) /\ OwnsOperation(bound[e], e, lease[e])
        BY <1>6, <2>6, <3>2 DEF ClaimExternal
      <4>2. bound[e] # k
        BY <1>6, <4>1 DEF ClaimExternal, Active
      <4> QED BY <1>6, <3>2, <4>1, <4>2 DEF ClaimExternal
    <3> QED BY <3>1, <3>2
  <2>7. WorkingClaimOwnsItsKey'
    BY <1>6, <2>6 DEF ClaimExternal
  <2>8. QED
    BY <2>1, <2>2, <2>3, <2>4, <2>5, <2>7
<1>7. ASSUME NEW d \in Delivery, NEW l \in Lease, NEW c \in Checkpoint,
             SaveCheckpoint(d, l, c)
      PROVE  IInv'
  BY <1>7 DEF SaveCheckpoint
<1>8. ASSUME NEW d \in Delivery, NEW l \in Lease, NEW s \in Status, Finish(d, l, s)
      PROVE  IInv'
  BY <1>8 DEF Finish, Outcome
<1>9. ASSUME NEW k \in Key, NEW d \in Delivery, NEW l \in Lease, NEW c \in Checkpoint,
             MoveExternalHead(k, d, l, c)
      PROVE  IInv'
  <2>1. LeaseIffRunning'
    BY <1>9 DEF MoveExternalHead
  <2>2. LeasesAreIssued'
    BY <1>9 DEF MoveExternalHead
  <2>3. LeasesAreDistinct'
    BY <1>9 DEF MoveExternalHead
  <2>4. ClaimsAreBound'
    BY <1>9 DEF MoveExternalHead
  <2>5. ExternalNeverQueued'
    BY <1>9 DEF MoveExternalHead
  <2>6. WorkingClaimOwnsItsKey'
    BY <1>9 DEF MoveExternalHead
  <2>7. QED
    BY <2>1, <2>2, <2>3, <2>4, <2>5, <2>6
<1>10. ASSUME NEW d \in Delivery, NEW old \in Lease, NEW l \in Lease,
              ReclaimExternal(d, old, l)
       PROVE  IInv'
  BY <1>10 DEF ReclaimExternal, Fresh
<1>11. CASE UNCHANGED vars
  BY <1>11 DEF vars
<1>12. QED
  BY <1>1, <1>2, <1>3, <1>4, <1>5, <1>6, <1>7, <1>8, <1>9, <1>10, <1>11 DEF Next

\* The inductive invariant holds in every reachable state.
THEOREM Invariance == Spec => []IInv
BY InvInit, InvStep, PTL DEF Spec

-----------------------------------------------------------------------------
(* Safety of the claims.                                                   *)

\* A worker whose external claim is in force owns the key it works on.
THEOREM WorkingClaimSafe == Spec => []WorkingClaimOwnsItsKey
<1>1. IInv => WorkingClaimOwnsItsKey
  BY DEF IInv
<1>2. QED
  BY Invariance, <1>1, PTL

\* The native worker never gets an external claim to run.
THEOREM ExternalNeverRunNatively == Spec => []ExternalNeverQueued
<1>1. IInv => ExternalNeverQueued
  BY DEF IInv
<1>2. QED
  BY Invariance, <1>1, PTL

\* A finished event stays as it finished.
THEOREM FinishedStaysFinished == Spec => FinishedIsFinal
<1> DEFINE Unchanged(d) == status'[d] = status[d] /\ checkpoint'[d] = checkpoint[d]
<1>1. ASSUME IInv, [Next]_vars, NEW d \in Delivery, status[d] \in Terminal
      PROVE  Unchanged(d)
  <2> USE <1>1, NullAssumption
      DEF IInv, TypeOK, Status, Terminal, HoldsLease, Live, Running, Expired
  <2>1. CASE Tick
    BY <2>1 DEF Tick
  <2>2. ASSUME NEW e \in Delivery, Enqueue(e) PROVE Unchanged(d)
    BY <2>2 DEF Enqueue
  <2>3. ASSUME NEW e \in Delivery, NEW l \in Lease, ClaimNext(e, l) PROVE Unchanged(d)
    BY <2>3 DEF ClaimNext, Due, Lapsed
  <2>4. ASSUME NEW e \in Delivery, NEW l \in Lease, Heartbeat(e, l) PROVE Unchanged(d)
    BY <2>4 DEF Heartbeat
  <2>5. ASSUME NEW k \in Key, NEW e \in Delivery, NEW l \in Lease,
               ClaimOperation(k, e, l)
        PROVE  Unchanged(d)
    BY <2>5 DEF ClaimOperation
  <2>6. ASSUME NEW k \in Key, NEW e \in Delivery, NEW l \in Lease,
               ClaimExternal(k, e, l)
        PROVE  Unchanged(d)
    BY <2>6 DEF ClaimExternal
  <2>7. ASSUME NEW e \in Delivery, NEW l \in Lease, NEW c \in Checkpoint,
               SaveCheckpoint(e, l, c)
        PROVE  Unchanged(d)
    BY <2>7 DEF SaveCheckpoint
  <2>8. ASSUME NEW e \in Delivery, NEW l \in Lease, NEW s \in Status, Finish(e, l, s)
        PROVE  Unchanged(d)
    BY <2>8 DEF Finish
  <2>9. ASSUME NEW k \in Key, NEW e \in Delivery, NEW l \in Lease, NEW c \in Checkpoint,
               MoveExternalHead(k, e, l, c)
        PROVE  Unchanged(d)
    BY <2>9 DEF MoveExternalHead
  <2>10. ASSUME NEW e \in Delivery, NEW old \in Lease, NEW l \in Lease,
                ReclaimExternal(e, old, l)
         PROVE  Unchanged(d)
    BY <2>10 DEF ReclaimExternal
  <2>11. CASE UNCHANGED vars
    BY <2>11 DEF vars
  <2>12. QED
    BY <1>1, <2>1, <2>2, <2>3, <2>4, <2>5, <2>6, <2>7, <2>8, <2>9, <2>10, <2>11 DEF Next
<1>2. IInv /\ [Next]_vars => [\A d \in Delivery : status[d] \in Terminal =>
                                 /\ status'[d] = status[d]
                                 /\ checkpoint'[d] = checkpoint[d]]_vars
  BY <1>1
<1>3. QED
  BY Invariance, <1>2, PTL DEF Spec, FinishedIsFinal

-----------------------------------------------------------------------------
(* LeaseStore implements Ownership: each action either leaves the leases in *)
(* force and their claims alone, or is one step of the abstract lock.      *)

\* The abstract variables are of the right kind: only leases are in force,
\* and a key's owner is in force.
LEMMA OwnersAreInForce ==
    ASSUME IInv
    PROVE  /\ InForce \subseteq issued
           /\ \A k \in Key : Active(k) => Owner[k] \in InForce
           /\ \A k \in Key : Owner[k] = NoLease <=> ~Active(k)
BY NullAssumption DEF IInv, TypeOK, LeasesAreIssued, InForce, Owner, Active, HoldsLease

\* A step that issues nothing, rewrites no claim and brings no lease into
\* force ends the leases that stop being in force, if any, and does no more.
LEMMA EndingStep ==
    ASSUME IInv, IInv', claims' = claims, issued' = issued,
           \A d \in Delivery, l \in Lease : HoldsLease(d, l)' => HoldsLease(d, l)
    PROVE  [Abstract!Next]_(Abstract!vars)
<1> DEFINE L == InForce \ InForce'
<1>1. InForce' = InForce \ L /\ L \subseteq InForce
  BY DEF InForce
<1>2. Ended' = Ended \cup L
  BY <1>1, OwnersAreInForce DEF Ended
<1>3. \A k \in Key : Active(k)' <=> Active(k) /\ claims[k].lease \notin L
  <2> SUFFICES ASSUME NEW k \in Key, claims[k] # NoClaim
               PROVE  Active(k)' <=> Active(k) /\ claims[k].lease \notin L
    BY DEF Active
  <2> DEFINE d == claims[k].delivery
             l == claims[k].lease
  <2>1. d \in Delivery /\ l \in Lease
    BY DEF IInv, TypeOK
  <2>2. (Active(k) <=> HoldsLease(d, l)) /\ (Active(k)' <=> HoldsLease(d, l)')
    BY DEF Active, HoldsLease, Live, Running
  <2>3. HoldsLease(d, l)' => HoldsLease(d, l) /\ l \notin L
    BY <2>1 DEF InForce
  <2>4. ASSUME HoldsLease(d, l), l \notin L PROVE HoldsLease(d, l)'
    <3>1. PICK e \in Delivery : HoldsLease(e, l)'
      BY <2>1, <2>4 DEF InForce
    <3>2. HoldsLease(e, l)
      BY <2>1, <3>1
    <3>3. e = d
      BY <2>1, <2>4, <3>2, NullAssumption DEF HoldsLease, IInv, LeasesAreDistinct
    <3>4. QED
      BY <3>1, <3>3
  <2>5. QED
    BY <2>2, <2>3, <2>4
<1>4. Owner' = [k \in Key |-> IF Owner[k] \in L THEN NoLease ELSE Owner[k]]
  BY <1>3 DEF Owner
<1>5. CASE L = {}
  BY <1>1, <1>2, <1>4, <1>5 DEF Abstract!vars, Owner
<1>6. CASE L # {}
  <2>1. L \in SUBSET Lease
    BY DEF InForce
  <2>2. Abstract!End(L)
    BY <1>1, <1>2, <1>4, <1>6 DEF Abstract!End
  <2>3. QED
    BY <2>1, <2>2 DEF Abstract!Next
<1>7. QED
  BY <1>5, <1>6

\* A step that puts one new lease in force and rewrites no claim issues it.
LEMMA IssuingStep ==
    ASSUME IInv, NEW d \in Delivery, NEW l \in Lease, Fresh(l),
           claims' = claims, issued' = issued \cup {l},
           \A e \in Delivery, m \in Lease :
              HoldsLease(e, m)' <=> HoldsLease(e, m) \/ (e = d /\ m = l)
    PROVE  [Abstract!Next]_(Abstract!vars)
<1>1. InForce' = InForce \cup {l} /\ l \notin InForce /\ l \notin Ended
  BY OwnersAreInForce DEF InForce, Ended, Fresh
<1>2. Ended' = Ended
  BY <1>1 DEF Ended, Fresh
<1>3. \A k \in Key : Active(k)' <=> Active(k)
  <2> SUFFICES ASSUME NEW k \in Key, claims[k] # NoClaim
               PROVE  Active(k)' <=> Active(k)
    BY DEF Active
  <2>1. /\ claims[k].delivery \in Delivery
        /\ claims[k].lease \in Lease
        /\ claims[k].lease # l
    BY DEF IInv, TypeOK, LeasesAreIssued, Fresh
  <2>2. QED
    BY <2>1 DEF Active
<1>4. Owner' = Owner
  BY <1>3 DEF Owner
<1>5. Abstract!Issue(l)
  BY <1>1, <1>2, <1>4 DEF Abstract!Issue
<1>6. QED
  BY <1>5 DEF Abstract!Next

\* A step that leaves every lease as it is and writes the claim of one key
\* for a lease in force, the key being its own or nobody's, takes the key.
LEMMA TakingStep ==
    ASSUME IInv, NEW k \in Key, NEW d \in Delivery, NEW l \in Lease,
           HoldsLease(d, l), Active(k) => OwnsOperation(k, d, l),
           claims' = [claims EXCEPT ![k] = [delivery |-> d, lease |-> l]],
           UNCHANGED <<clock, status, lease, expires, issued>>
    PROVE  [Abstract!Next]_(Abstract!vars)
<1>1. InForce' = InForce /\ Ended' = Ended /\ l \in InForce
  BY DEF InForce, Ended, HoldsLease, Live, Running
<1>2. claims'[k] = [delivery |-> d, lease |-> l] /\ claims'[k] # NoClaim
  BY NullAssumption DEF IInv, TypeOK
<1>3. \A j \in Key : j # k => claims'[j] = claims[j]
  BY DEF IInv, TypeOK
<1>4. Active(k)'
  BY <1>2 DEF Active, HoldsLease, Live, Running
<1>5. \A j \in Key : j # k => (Active(j)' <=> Active(j))
  BY <1>3 DEF Active, HoldsLease, Live, Running
<1>6. Owner' = [Owner EXCEPT ![k] = l]
  <2>1. claims'[k].lease = l
    BY <1>2
  <2>2. \A j \in Key : Owner'[j] = IF j = k THEN l ELSE Owner[j]
    BY <2>1, <1>3, <1>4, <1>5 DEF Owner
  <2>3. QED
    BY <2>2 DEF Owner
<1>7. CASE Active(k)
  <2>1. Owner[k] = l
    BY <1>7 DEF Owner, OwnsOperation
  <2>2. Owner' = Owner
    BY <1>6, <2>1 DEF Owner
  <2>3. QED
    BY <1>1, <2>2 DEF Abstract!vars
<1>8. CASE ~Active(k)
  <2>1. Abstract!Take(k, l)
    BY <1>1, <1>6, <1>8 DEF Abstract!Take, Owner
  <2>2. QED
    BY <2>1 DEF Abstract!Next
<1>9. QED
  BY <1>7, <1>8

\* An external claim is a new lease that takes its key as it is issued.
LEMMA ClaimingStep ==
    ASSUME IInv, NEW k \in Key, NEW d \in Delivery, NEW l \in Lease,
           ClaimExternal(k, d, l)
    PROVE  [Abstract!Next]_(Abstract!vars)
<1> USE NullAssumption, TimeAssumption DEF IInv, TypeOK
<1>1. \A e \in Delivery, m \in Lease :
         HoldsLease(e, m)' <=> HoldsLease(e, m) \/ (e = d /\ m = l)
  BY DEF ClaimExternal, HoldsLease, Live, Running
<1>2. InForce' = InForce \cup {l} /\ l \notin InForce /\ l \notin Ended
  <2>1. InForce' = InForce \cup {l}
    BY <1>1 DEF InForce
  <2>2. l \notin issued
    BY DEF ClaimExternal, Fresh
  <2>3. QED
    BY <2>1, <2>2, OwnersAreInForce DEF Ended
<1>3. Ended' = Ended
  BY <1>2 DEF Ended, Fresh, ClaimExternal
<1>4. /\ claims'[k] = [delivery |-> d, lease |-> l]
      /\ \A j \in Key : j # k => claims'[j] = claims[j]
  BY DEF ClaimExternal
<1>5. Active(k)' /\ claims'[k].lease = l
  BY <1>1, <1>4 DEF Active
<1>6. \A j \in Key : j # k => (Active(j)' <=> Active(j))
  <2> SUFFICES ASSUME NEW j \in Key, j # k, claims[j] # NoClaim
               PROVE  Active(j)' <=> Active(j)
    BY <1>4 DEF Active
  <2>1. /\ claims[j].delivery \in Delivery
        /\ claims[j].lease \in Lease
        /\ claims[j].lease # l
    BY DEF LeasesAreIssued, Fresh, ClaimExternal
  <2>2. QED
    BY <1>1, <1>4, <2>1 DEF Active
<1>7. Owner' = [Owner EXCEPT ![k] = l] /\ Owner[k] = NoLease
  BY <1>4, <1>5, <1>6 DEF Owner, ClaimExternal
<1>8. Abstract!Issue(l)
  BY <1>2, <1>3, <1>7 DEF Abstract!Issue
<1>9. QED
  BY <1>8 DEF Abstract!Next

\* Every step of the store is a step of the abstract specification.
LEMMA StepImplements ==
    ASSUME IInv, IInv', [Next]_vars
    PROVE  [Abstract!Next]_(Abstract!vars)
<1> USE DEF HoldsLease, Live, Running, Expired
<1>1. CASE Tick
  BY <1>1, EndingStep DEF Tick, IInv, TypeOK
<1>2. ASSUME NEW d \in Delivery, Enqueue(d) PROVE [Abstract!Next]_(Abstract!vars)
  BY <1>2, EndingStep DEF Enqueue, IInv, TypeOK
<1>3. ASSUME NEW d \in Delivery, NEW l \in Lease, ClaimNext(d, l)
      PROVE  [Abstract!Next]_(Abstract!vars)
  <2>1. \A e \in Delivery, m \in Lease :
           HoldsLease(e, m)' <=> HoldsLease(e, m) \/ (e = d /\ m = l)
    BY <1>3, TimeAssumption DEF ClaimNext, Due, Lapsed, IInv, TypeOK, Status
  <2>2. QED
    BY <1>3, <2>1, IssuingStep DEF ClaimNext
<1>4. ASSUME NEW d \in Delivery, NEW l \in Lease, Heartbeat(d, l)
      PROVE  [Abstract!Next]_(Abstract!vars)
  BY <1>4, EndingStep DEF Heartbeat, IInv, TypeOK
<1>5. ASSUME NEW k \in Key, NEW d \in Delivery, NEW l \in Lease, ClaimOperation(k, d, l)
      PROVE  [Abstract!Next]_(Abstract!vars)
  BY <1>5, TakingStep DEF ClaimOperation
<1>6. ASSUME NEW k \in Key, NEW d \in Delivery, NEW l \in Lease, ClaimExternal(k, d, l)
      PROVE  [Abstract!Next]_(Abstract!vars)
  BY <1>6, ClaimingStep
<1>7. ASSUME NEW d \in Delivery, NEW l \in Lease, NEW c \in Checkpoint,
             SaveCheckpoint(d, l, c)
      PROVE  [Abstract!Next]_(Abstract!vars)
  BY <1>7, EndingStep DEF SaveCheckpoint
<1>8. ASSUME NEW d \in Delivery, NEW l \in Lease, NEW s \in Status, Finish(d, l, s)
      PROVE  [Abstract!Next]_(Abstract!vars)
  BY <1>8, EndingStep DEF Finish, Outcome, IInv, TypeOK
<1>9. ASSUME NEW k \in Key, NEW d \in Delivery, NEW l \in Lease, NEW c \in Checkpoint,
             MoveExternalHead(k, d, l, c)
      PROVE  [Abstract!Next]_(Abstract!vars)
  BY <1>9, TakingStep DEF MoveExternalHead
<1>10. ASSUME NEW d \in Delivery, NEW old \in Lease, NEW l \in Lease,
              ReclaimExternal(d, old, l)
       PROVE  [Abstract!Next]_(Abstract!vars)
  <2>1. \A e \in Delivery, m \in Lease :
           HoldsLease(e, m)' <=> HoldsLease(e, m) \/ (e = d /\ m = l)
    BY <1>10, TimeAssumption DEF ReclaimExternal, IInv, TypeOK
  <2>2. QED
    BY <1>10, <2>1, IssuingStep DEF ReclaimExternal
<1>11. CASE UNCHANGED vars
  BY <1>11, EndingStep DEF vars
<1>12. QED
  BY <1>1, <1>2, <1>3, <1>4, <1>5, <1>6, <1>7, <1>8, <1>9, <1>10, <1>11 DEF Next

\* The initial state of the store is one of the abstract specification.
LEMMA InitImplements == Init => Abstract!Init
BY DEF Init, Abstract!Init, Owner, InForce, Ended, Active, HoldsLease, Live, Running

\* The store keeps what Ownership promises: one owner per key, handed over
\* only through a state in which the key is free, and no lease comes back.
THEOREM StoreImplementsOwnership == Spec => ImplementsOwnership
<1>1. IInv /\ IInv' /\ [Next]_vars => [Abstract!Next]_(Abstract!vars)
  BY StepImplements
<1>2. QED
  BY InitImplements, Invariance, <1>1, PTL DEF Spec, ImplementsOwnership, Abstract!Spec
=============================================================================
