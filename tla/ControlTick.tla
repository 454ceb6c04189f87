----------------------------- MODULE ControlTick -----------------------------
(***************************************************************************)
(* The control service: wake-ups by scheduled workflows (control_api.py),  *)
(* whose ticks run the steps of discovery and recovery under a lease that  *)
(* is checked before each step, and the dispatch of ready work             *)
(* (control_dispatch.py), by a tick after its steps and by a loop of its   *)
(* own (control_service.py).                                               *)
(*                                                                         *)
(* What a step does is the subject of other modules; here it takes its     *)
(* time and may fail.  A key stands for one piece of work that a workflow  *)
(* should be dispatched for: an issue to plan, a publication to resume, a  *)
(* phase to validate.                                                      *)
(***************************************************************************)
EXTENDS Naturals, FiniteSets

CONSTANTS Handler,           \* requests that the service serves at one time
          Delivery,          \* of a scheduled workflow; one may be delivered again
          Steps,             \* of a tick
          Key, Place,        \* of work, and the place of a key in a scan
          Broken,            \* keys whose dispatch always fails
          Cooldown,          \* rounds of the loop, of 60 s, in the cooldown of 600 s
          MaxWakes, MaxMoves, MaxCrashes

Loop == "loop"
Runner == Handler \cup {Loop}

ASSUME HandlerAssumption == Loop \notin Handler /\ IsFiniteSet(Handler)
ASSUME StepsAssumption == Steps \in Nat /\ Cooldown \in Nat \ {0}
ASSUME DeliveryAssumption == Delivery # {}
ASSUME KeyAssumption == Place \in [Key -> Nat] /\ Broken \subseteq Key
ASSUME BoundsAssumption == MaxWakes \in Nat /\ MaxMoves \in Nat /\ MaxCrashes \in Nat

VARIABLES requests,          \* control_requests: by delivery
          epoch,             \* of the latest claim of a tick, its expiry time in the code
          run,               \* of a handler or the loop
          ready,             \* keys that wait for a worker
          cooling,           \* rounds until a key whose dispatch was recorded is due again
          sent,              \* dispatches of a key since it was due
          moves, crashes

vars == <<requests, epoch, run, ready, cooling, sent, moves, crashes>>

Requests == [status : {"none", "running", "retry", "completed"}, epoch : Nat, live : BOOLEAN]
Runs == [at : {"idle", "step", "working", "dispatch", "sending", "record"},
         delivery : Delivery, epoch : Nat, done : Nat, failed : BOOLEAN, todo : SUBSET Key]

TypeOK == /\ requests \in [Delivery -> Requests]
          /\ epoch \in Nat
          /\ run \in [Runner -> Runs]
          /\ ready \subseteq Key
          /\ cooling \in [Key -> 0..Cooldown]
          /\ sent \in [Key -> Nat]
          /\ moves \in Nat /\ crashes \in Nat

Idle == [at |-> "idle", delivery |-> CHOOSE d \in Delivery : TRUE, epoch |-> 0, done |-> 0,
         failed |-> FALSE, todo |-> {}]

Init == /\ requests = [d \in Delivery |-> [status |-> "none", epoch |-> 0, live |-> FALSE]]
        /\ epoch = 0
        /\ run = [r \in Runner |-> Idle]
        /\ ready = Key
        /\ cooling = [k \in Key |-> 0]
        /\ sent = [k \in Key |-> 0]
        /\ moves = 0 /\ crashes = 0

-----------------------------------------------------------------------------
(* A tick *)

Live(d) == requests[d].status = "running" /\ requests[d].live
\* (A bug.) A tick of the same delivery is taken for one's own.
OwnsDelivery(h) == Live(run[h].delivery)

Owns(h) == Live(run[h].delivery) /\ requests[run[h].delivery].epoch = run[h].epoch
Returns(r) == run' = [run EXCEPT ![r] = Idle]

\* A delivery that completed is answered from its receipt; while a tick is active no
\* other begins.  What is left is claimed for ten minutes, again after a failure.
Wake(h, d) ==
    /\ run[h].at = "idle"
    /\ requests[d].status # "completed"
    /\ \A e \in Delivery : ~Live(e)
    /\ epoch < MaxWakes
    /\ epoch' = epoch + 1
    /\ requests' = [requests EXCEPT ![d] = [status |-> "running", epoch |-> epoch + 1,
                                            live |-> TRUE]]
    /\ run' = [run EXCEPT ![h] = [Idle EXCEPT !.at = "step", !.delivery = d,
                                              !.epoch = epoch + 1]]
    /\ UNCHANGED <<ready, cooling, sent, moves, crashes>>

\* The lease is checked before each step, and only then.
BeginStep(h) ==
    /\ run[h].at = "step" /\ run[h].done < Steps
    /\ IF Owns(h) THEN run' = [run EXCEPT ![h].at = "working"] ELSE Returns(h)
    /\ UNCHANGED <<requests, epoch, ready, cooling, sent, moves, crashes>>

EndStep(h) ==
    /\ run[h].at = "working"
    /\ \E failed \in BOOLEAN :
           run' = [run EXCEPT ![h].at = "step", ![h].done = @ + 1,
                              ![h].failed = @ \/ failed]
    /\ UNCHANGED <<requests, epoch, ready, cooling, sent, moves, crashes>>

\* The key of a scan that comes next.
First(keys) == CHOOSE k \in keys : \A l \in keys : Place[k] <= Place[l]

EndSteps(h) ==
    /\ run[h].at = "step" /\ run[h].done >= Steps
    /\ run' = [run EXCEPT ![h].at = IF run[h].failed THEN "record" ELSE "dispatch",
                          ![h].todo = IF run[h].failed THEN {} ELSE ready]
    /\ UNCHANGED <<requests, epoch, ready, cooling, sent, moves, crashes>>

\* (A bug.) The result is recorded without a look at the lease.
RecordAnyway(h) ==
    /\ run[h].at = "record"
    /\ requests' = [requests EXCEPT ![run[h].delivery].status =
                        IF run[h].failed THEN "retry" ELSE "completed"]
    /\ Returns(h)
    /\ UNCHANGED <<epoch, ready, cooling, sent, moves, crashes>>

\* The result counts only while the lease is the one that this tick claimed.
Record(h) ==
    /\ run[h].at = "record"
    /\ requests' = IF ~Owns(h) THEN requests
                   ELSE [requests EXCEPT ![run[h].delivery].status =
                             IF run[h].failed THEN "retry" ELSE "completed"]
    /\ Returns(h)
    /\ UNCHANGED <<epoch, ready, cooling, sent, moves, crashes>>

-----------------------------------------------------------------------------
(* Dispatch, by a tick or by the loop *)

\* A round of the loop begins 60 s or more after the last one ended.
BeginLoop ==
    /\ run[Loop].at = "idle"
    /\ run' = [run EXCEPT ![Loop].at = "dispatch", ![Loop].todo = ready]
    /\ cooling' = [k \in Key |-> IF cooling[k] = 0 THEN 0 ELSE cooling[k] - 1]
    /\ sent' = [k \in Key |-> IF cooling[k] = 1 THEN 0 ELSE sent[k]]
    /\ UNCHANGED <<requests, epoch, ready, moves, crashes>>

\* The scan ends, with an error or at its last key.
Leaves(r, failed) ==
    run' = [run EXCEPT ![r] = IF r = Loop THEN Idle
                              ELSE [@ EXCEPT !.at = "record", !.failed = failed, !.todo = {}]]

\* The next key of the scan, unless it was dispatched a short time ago.
Consider(r) ==
    /\ run[r].at = "dispatch"
    /\ IF run[r].todo = {} THEN Leaves(r, FALSE)
       ELSE IF cooling[First(run[r].todo)] > 0
       THEN run' = [run EXCEPT ![r].todo = @ \ {First(@)}]
       ELSE run' = [run EXCEPT ![r].at = "sending"]
    /\ UNCHANGED <<requests, epoch, ready, cooling, sent, moves, crashes>>

\* (A bug.) Only successes are recorded.
SendRecordsSuccess(r) ==
    /\ run[r].at = "sending"
    /\ LET k == First(run[r].todo)
       IN \/ /\ k \notin Broken
             /\ cooling' = [cooling EXCEPT ![k] = Cooldown]
             /\ run' = [run EXCEPT ![r].at = "dispatch", ![r].todo = @ \ {k}]
             /\ sent' = [sent EXCEPT ![k] = @ + 1]
          \/ Leaves(r, TRUE) /\ UNCHANGED <<sent, cooling>>
    /\ UNCHANGED <<requests, epoch, ready, moves, crashes>>

\* (A bug.) Only failures are recorded.
SendRecordsFailure(r) ==
    /\ run[r].at = "sending"
    /\ LET k == First(run[r].todo)
       IN \/ /\ k \notin Broken
             /\ run' = [run EXCEPT ![r].at = "dispatch", ![r].todo = @ \ {k}]
             /\ sent' = [sent EXCEPT ![k] = @ + 1] /\ UNCHANGED cooling
          \/ /\ Leaves(r, TRUE) /\ UNCHANGED sent
             /\ cooling' = [cooling EXCEPT ![k] = Cooldown]
    /\ UNCHANGED <<requests, epoch, ready, moves, crashes>>

\* A dispatch is recorded once it is answered; a failure too, and it ends the scan.
Send(r) ==
    /\ run[r].at = "sending"
    /\ LET k == First(run[r].todo)
       IN /\ cooling' = [cooling EXCEPT ![k] = Cooldown]
          /\ \/ /\ k \notin Broken
                /\ run' = [run EXCEPT ![r].at = "dispatch", ![r].todo = @ \ {k}]
                /\ sent' = [sent EXCEPT ![k] = @ + 1]
             \/ Leaves(r, TRUE) /\ UNCHANGED sent
    /\ UNCHANGED <<requests, epoch, ready, moves, crashes>>

-----------------------------------------------------------------------------
(* Time, workers, and crashes of the service *)

Expire(d) == /\ Live(d)
             /\ requests' = [requests EXCEPT ![d].live = FALSE]
             /\ UNCHANGED <<epoch, run, ready, cooling, sent, moves, crashes>>

\* A worker takes a key, or one becomes ready, perhaps again.
Work == /\ moves < MaxMoves
        /\ moves' = moves + 1
        /\ \E k \in Key : ready' = IF k \in ready THEN ready \ {k} ELSE ready \cup {k}
        /\ UNCHANGED <<requests, epoch, run, cooling, sent, crashes>>

Sending(k) == {r \in Runner : run[r].at = "sending" /\ First(run[r].todo) = k /\ k \notin Broken}

\* The store stays; a dispatch that was under way may have been accepted.
Crash ==
    /\ crashes < MaxCrashes
    /\ crashes' = crashes + 1
    /\ run' = [r \in Runner |-> Idle]
    /\ \/ UNCHANGED sent
       \/ sent' = [k \in Key |-> sent[k] + Cardinality(Sending(k))]
    /\ UNCHANGED <<requests, epoch, ready, cooling, moves>>

Tick(h) == BeginStep(h) \/ EndStep(h) \/ EndSteps(h) \/ Record(h)
Dispatches(r) == Consider(r) \/ Send(r)
Next == \/ \E h \in Handler : Tick(h) \/ (\E d \in Delivery : Wake(h, d))
        \/ BeginLoop \/ (\E r \in Runner : Dispatches(r))
        \/ (\E d \in Delivery : Expire(d))
        \/ Work \/ Crash

Spec == Init /\ [][Next]_vars
FairSpec == /\ Spec
            /\ WF_vars(BeginLoop) /\ WF_vars(Dispatches(Loop))

-----------------------------------------------------------------------------
(* Safety *)

\* Of any number of deliveries, repeated ones and ticks that outlived their lease, only
\* the latest tick begins a step.  One that an earlier tick began before its lease ended
\* may still run beside it: the lease is looked at before a step only.
LatestTickSteps ==
    [][\A h \in Handler : run[h].at = "step" /\ run'[h].at = "working" =>
           run[h].epoch = epoch]_vars

\* A receipt says "completed" only of a tick that ran every step and the whole dispatch
\* without a failure and was the last to claim its delivery; and it stands.
ReceiptsStand ==
    [][\A d \in Delivery :
           /\ requests[d].status = "completed" => requests'[d] = requests[d]
           /\ requests[d].status # "completed" /\ requests'[d].status = "completed" =>
                  \E h \in Handler : /\ run[h].at = "record" /\ run'[h].at = "idle"
                                     /\ run[h].delivery = d
                                     /\ run[h].epoch = requests[d].epoch
                                     /\ ~run[h].failed /\ run[h].done = Steps]_vars

\* "Idempotent dispatch" (control_dispatch.py:1) is not exactly one: ticks and the loop
\* look before either has recorded.  A key is dispatched at most once by each of them
\* while it cools down, and again after a crash.
DuplicatesBounded == \A k \in Key : sent[k] <= Cardinality(Runner) * (1 + crashes)

-----------------------------------------------------------------------------
(* Liveness: the loop goes on *)

\* A key that stays ready is tried again and again, although others fail always, and
\* each failure ends the scan; and although the worker it was sent for may never come.
\* The failing keys must be fewer than the rounds of the cooldown (ten in the code).
NobodyStarves ==
    Cardinality(Broken) < Cooldown =>
        \A k \in Key : []<>(cooling[k] > 0 \/ k \notin ready)

=============================================================================
