----------------------------- MODULE LeaseStore -----------------------------
(***************************************************************************)
(* The leases and operation claims of orchestrator/state_store.py: the     *)
(* tables "events" and "operation_claims", one action per method that      *)
(* changes them.  A method holds the store's lock inside one BEGIN         *)
(* IMMEDIATE transaction, so each is one atomic step; the processes that   *)
(* call them (native worker, claim API, reconcilers) interleave freely and *)
(* may hold a lease id long after it stopped being good, which is why      *)
(* every action takes the caller's lease as a parameter and any lease ever *)
(* issued may be presented at any time.  A refused call changes nothing.   *)
(*                                                                         *)
(* Native deliveries are the rows of webhook and queue-scan events;        *)
(* external ones are the rows with event_name = 'external_claim', whose id *)
(* is a hash of (worker, request).  Time is a counter in arbitrary units.  *)
(***************************************************************************)
EXTENDS Integers, Sequences

CONSTANTS Native, External,   \* delivery ids of the two kinds
          Key,                \* operation keys
          Lease, NoLease,     \* uuid4 lease ids, and SQL NULL
          NoClaim, NoKey,     \* no row in operation_claims, no bound key
          Checkpoint, NoCheckpoint,
          LeaseTime,          \* LEASE_SECONDS
          RetryDelay,         \* RETRY_DELAYS_SECONDS
          MaxClock,           \* bound of the model: last instant
          MaxAttempts         \* bound of the model: claims of one native event

Delivery == Native \cup External

ASSUME KindsAssumption == Native \cap External = {}
ASSUME NullAssumption == /\ NoLease \notin Lease
                         /\ NoKey \notin Key
                         /\ NoClaim \notin [delivery : Delivery, lease : Lease]
                         /\ NoCheckpoint \in Checkpoint
ASSUME TimeAssumption == /\ LeaseTime \in Nat \ {0}
                         /\ RetryDelay \in Seq(Nat)
                         /\ RetryDelay # <<>>
                         /\ MaxClock \in Nat
                         /\ MaxAttempts \in Nat

VARIABLES clock,
          status,       \* events.status, "absent" before the row exists
          lease,        \* events.lease_id
          expires,      \* events.lease_expires_at
          retryAt,      \* events.next_retry_at, 0 for NULL
          attempts,     \* events.attempts
          created,      \* events.created_at
          bound,        \* operation_key inside payload_json of an external claim
          checkpoint,   \* events.checkpoint_json
          reconciling,  \* external claims whose payload names lease-reconciler
          claims,       \* operation_claims: key -> (delivery_id, lease_id)
          issued        \* every lease id the store has generated

vars == <<clock, status, lease, expires, retryAt, attempts, created, bound,
          checkpoint, reconciling, claims, issued>>

Terminal == {"done", "failed", "superseded", "ignored"}
Status == {"absent", "queued", "running", "retry"} \cup Terminal

TypeOK == /\ clock \in 0..MaxClock
          /\ status \in [Delivery -> Status]
          /\ lease \in [Delivery -> Lease \cup {NoLease}]
          /\ expires \in [Delivery -> Nat]
          /\ retryAt \in [Delivery -> Nat]
          /\ attempts \in [Delivery -> Nat]
          /\ created \in [Delivery -> Nat]
          /\ bound \in [Delivery -> Key \cup {NoKey}]
          /\ checkpoint \in [Delivery -> Checkpoint]
          /\ reconciling \subseteq External
          /\ claims \in [Key -> [delivery : Delivery, lease : Lease] \cup {NoClaim}]
          /\ issued \subseteq Lease

Init == /\ clock = 0
        /\ status = [d \in Delivery |-> "absent"]
        /\ lease = [d \in Delivery |-> NoLease]
        /\ expires = [d \in Delivery |-> 0]
        /\ retryAt = [d \in Delivery |-> 0]
        /\ attempts = [d \in Delivery |-> 0]
        /\ created = [d \in Delivery |-> 0]
        /\ bound = [d \in Delivery |-> NoKey]
        /\ checkpoint = [d \in Delivery |-> NoCheckpoint]
        /\ reconciling = {}
        /\ claims = [k \in Key |-> NoClaim]
        /\ issued = {}

-----------------------------------------------------------------------------
(* What the queries of the methods ask.                                    *)

Running(d) == status[d] = "running"
Live(d) == Running(d) /\ expires[d] > clock
Expired(d) == Running(d) /\ expires[d] <= clock

\* assert_lease
HoldsLease(d, l) == Live(d) /\ lease[d] = l

\* The join of operation_claims with events: k has an owner in force.
Active(k) == /\ claims[k] # NoClaim
             /\ HoldsLease(claims[k].delivery, claims[k].lease)

\* assert_operation
OwnsOperation(k, d, l) == /\ claims[k] = [delivery |-> d, lease |-> l]
                          /\ HoldsLease(d, l)

Fresh(l) == l \in Lease \ issued

-----------------------------------------------------------------------------
(* Actions.                                                                *)

Tick == /\ clock < MaxClock
        /\ clock' = clock + 1
        /\ UNCHANGED <<status, lease, expires, retryAt, attempts, created,
                       bound, checkpoint, reconciling, claims, issued>>

\* INSERT OR IGNORE of a native event.
Enqueue(d) == /\ d \in Native
              /\ status[d] = "absent"
              /\ status' = [status EXCEPT ![d] = "queued"]
              /\ created' = [created EXCEPT ![d] = clock]
              /\ UNCHANGED <<clock, lease, expires, retryAt, attempts, bound,
                             checkpoint, reconciling, claims, issued>>

\* Mutant of Lapsed: the filter on event_name is forgotten.
LapsedOfAnyKind == {d \in Delivery : Expired(d)}

\* claim_next first puts expired native events back, then picks the oldest
\* event that is due; if none is due there was none to put back either.
Lapsed == {d \in Native : Expired(d)}

Due == {d \in Delivery : \/ status[d] = "queued"
                         \/ status[d] = "retry" /\ retryAt[d] <= clock
                         \/ d \in Lapsed}

ClaimNext(d, l) ==
    /\ d \in Due
    /\ \A e \in Due : created[d] <= created[e]
    /\ attempts[d] < MaxAttempts
    /\ Fresh(l)
    /\ issued' = issued \cup {l}
    /\ status' = [e \in Delivery |-> IF e = d THEN "running"
                                     ELSE IF e \in Lapsed THEN "retry"
                                     ELSE status[e]]
    /\ lease' = [e \in Delivery |-> IF e = d THEN l
                                    ELSE IF e \in Lapsed THEN NoLease
                                    ELSE lease[e]]
    /\ expires' = [e \in Delivery |-> IF e = d THEN clock + LeaseTime
                                      ELSE IF e \in Lapsed THEN 0
                                      ELSE expires[e]]
    /\ retryAt' = [e \in Delivery |-> IF e \in Lapsed THEN 0 ELSE retryAt[e]]
    /\ attempts' = [attempts EXCEPT ![d] = @ + 1]
    /\ UNCHANGED <<clock, created, bound, checkpoint, reconciling, claims>>

\* Mutant of Heartbeat: the lease is matched, its expiry is not.
HeartbeatAfterExpiry(d, l) ==
    /\ Running(d)
    /\ lease[d] = l
    /\ expires' = [expires EXCEPT ![d] = clock + LeaseTime]
    /\ UNCHANGED <<clock, status, lease, retryAt, attempts, created, bound,
                   checkpoint, reconciling, claims, issued>>

Heartbeat(d, l) == /\ HoldsLease(d, l)
                   /\ expires' = [expires EXCEPT ![d] = clock + LeaseTime]
                   /\ UNCHANGED <<clock, status, lease, retryAt, attempts,
                                  created, bound, checkpoint, reconciling,
                                  claims, issued>>

\* Mutant of ClaimOperation: an upsert that does not look for an owner.
ClaimOperationBlindly(k, d, l) ==
    /\ HoldsLease(d, l)
    /\ claims' = [claims EXCEPT ![k] = [delivery |-> d, lease |-> l]]
    /\ UNCHANGED <<clock, status, lease, expires, retryAt, attempts, created,
                   bound, checkpoint, reconciling, issued>>

\* claim_operation when no owner is in force; it answers without a write
\* when the key is active, True to its owner and False to anyone else.
ClaimOperation(k, d, l) ==
    /\ HoldsLease(d, l)
    /\ ~Active(k)
    /\ claims' = [claims EXCEPT ![k] = [delivery |-> d, lease |-> l]]
    /\ UNCHANGED <<clock, status, lease, expires, retryAt, attempts, created,
                   bound, checkpoint, reconciling, issued>>

\* Mutant of ClaimExternal: the claim row is written from the event row as
\* it was before the insert, without a lease.
ClaimExternalTooEarly(k, d, l) ==
    /\ d \in External
    /\ status[d] = "absent"
    /\ ~Active(k)
    /\ Fresh(l)
    /\ issued' = issued \cup {l}
    /\ status' = [status EXCEPT ![d] = "running"]
    /\ lease' = [lease EXCEPT ![d] = l]
    /\ expires' = [expires EXCEPT ![d] = clock + LeaseTime]
    /\ attempts' = [attempts EXCEPT ![d] = 1]
    /\ created' = [created EXCEPT ![d] = clock]
    /\ bound' = [bound EXCEPT ![d] = k]
    /\ claims' = [claims EXCEPT ![k] = [delivery |-> d, lease |-> lease[d]]]
    /\ UNCHANGED <<clock, retryAt, checkpoint, reconciling>>

\* claim_external for a request id not seen before; a known one is answered
\* from its row or refused, without a write.
ClaimExternal(k, d, l) ==
    /\ d \in External
    /\ status[d] = "absent"
    /\ ~Active(k)
    /\ Fresh(l)
    /\ issued' = issued \cup {l}
    /\ status' = [status EXCEPT ![d] = "running"]
    /\ lease' = [lease EXCEPT ![d] = l]
    /\ expires' = [expires EXCEPT ![d] = clock + LeaseTime]
    /\ attempts' = [attempts EXCEPT ![d] = 1]
    /\ created' = [created EXCEPT ![d] = clock]
    /\ bound' = [bound EXCEPT ![d] = k]
    /\ claims' = [claims EXCEPT ![k] = [delivery |-> d, lease |-> l]]
    /\ UNCHANGED <<clock, retryAt, checkpoint, reconciling>>

SaveCheckpoint(d, l, c) ==
    /\ HoldsLease(d, l)
    /\ checkpoint' = [checkpoint EXCEPT ![d] = c]
    /\ UNCHANGED <<clock, status, lease, expires, retryAt, attempts, created,
                   bound, reconciling, claims, issued>>

\* finish, which every caller gives its lease.  The outcomes are those the
\* callers pass: the native worker's, and those of claims.
Outcome(d) == IF d \in Native THEN {"done", "failed", "retry", "ignored"}
                              ELSE {"done", "superseded"}

Delay(n) == RetryDelay[IF n <= 1 THEN 1
                       ELSE IF n > Len(RetryDelay) THEN Len(RetryDelay)
                       ELSE n]

Finish(d, l, s) ==
    /\ HoldsLease(d, l)
    /\ s \in Outcome(d)
    /\ status' = [status EXCEPT ![d] = s]
    /\ lease' = [lease EXCEPT ![d] = NoLease]
    /\ expires' = [expires EXCEPT ![d] = 0]
    /\ retryAt' = [retryAt EXCEPT ![d] = IF s = "retry" THEN clock + Delay(attempts[d])
                                                        ELSE 0]
    /\ UNCHANGED <<clock, attempts, created, bound, checkpoint, reconciling,
                   claims, issued>>

\* move_external_head: the holder's claim follows its published commit to
\* the key of the new SHA; the row of the old key stays.  A repetition of a
\* move already applied returns the row without a write.
MoveExternalHead(k, d, l, c) ==
    /\ d \in External
    /\ HoldsLease(d, l)
    /\ Active(k) => OwnsOperation(k, d, l)
    /\ claims' = [claims EXCEPT ![k] = [delivery |-> d, lease |-> l]]
    /\ bound' = [bound EXCEPT ![d] = k]
    /\ checkpoint' = [checkpoint EXCEPT ![d] = c]
    /\ UNCHANGED <<clock, status, lease, expires, retryAt, attempts, created,
                   reconciling, issued>>

\* reclaim_external: compare and swap of an expired lease by the reconciler,
\* which also writes its own name into the payload.
\* The claim row keeps naming the old lease until claim_operation.
ReclaimExternal(d, old, l) ==
    /\ d \in External
    /\ Expired(d)
    /\ lease[d] = old
    /\ Fresh(l)
    /\ issued' = issued \cup {l}
    /\ lease' = [lease EXCEPT ![d] = l]
    /\ expires' = [expires EXCEPT ![d] = clock + LeaseTime]
    /\ reconciling' = reconciling \cup {d}
    /\ UNCHANGED <<clock, status, retryAt, attempts, created, bound,
                   checkpoint, claims>>

Next == \/ Tick
        \/ \E d \in Delivery : Enqueue(d)
        \/ \E d \in Delivery, l \in Lease : ClaimNext(d, l)
        \/ \E d \in Delivery, l \in Lease : Heartbeat(d, l)
        \/ \E k \in Key, d \in Delivery, l \in Lease : ClaimOperation(k, d, l)
        \/ \E k \in Key, d \in Delivery, l \in Lease : ClaimExternal(k, d, l)
        \/ \E d \in Delivery, l \in Lease, c \in Checkpoint : SaveCheckpoint(d, l, c)
        \/ \E d \in Delivery, l \in Lease, s \in Status : Finish(d, l, s)
        \/ \E k \in Key, d \in Delivery, l \in Lease, c \in Checkpoint :
              MoveExternalHead(k, d, l, c)
        \/ \E d \in Delivery, old \in Lease, l \in Lease : ReclaimExternal(d, old, l)

Spec == Init /\ [][Next]_vars

-----------------------------------------------------------------------------
(* Properties.                                                             *)

\* As long as its lease is in force, the worker that acquired an external
\* claim owns the operation key its claim names, through heartbeats, head
\* moves and other workers' attempts on that key; so no two working claims
\* are ever bound to one key.  Once the reconciler has swapped the lease the
\* claim may be in force without its key, until claim_operation decides.
WorkingClaimOwnsItsKey ==
    \A d \in External \ reconciling :
        Live(d) => OwnsOperation(bound[d], d, lease[d])

\* An external claim is never handed to the native worker: neither the
\* requeueing of expired leases nor the retry path of finish touches it.
ExternalNeverQueued == \A d \in External : status[d] \notin {"queued", "retry"}

\* A finished event stays as it finished: a worker that lost its lease, or a
\* later scan, cannot reopen it, finish it again or rewrite its checkpoint.
FinishedIsFinal ==
    [][\A d \in Delivery : status[d] \in Terminal =>
          /\ status'[d] = status[d]
          /\ checkpoint'[d] = checkpoint[d]]_vars

\* The store implements Ownership: a key's owner is the lease its claim row
\* joins to while in force, and whatever was issued and is not in force ended.
Owner == [k \in Key |-> IF Active(k) THEN claims[k].lease ELSE NoLease]
InForce == {l \in Lease : \E d \in Delivery : HoldsLease(d, l)}
Ended == issued \ InForce

Abstract == INSTANCE Ownership WITH owner <- Owner, inForce <- InForce,
                                    ended <- Ended
ImplementsOwnership == Abstract!Spec
=============================================================================
