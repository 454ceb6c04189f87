-------------------------- MODULE ControlTickProofs --------------------------
(***************************************************************************)
(* Proofs about module ControlTick, for any number of handlers, deliveries *)
(* and keys: types, the order of ticks, receipts, and how often a key may  *)
(* be dispatched.                                                          *)
(***************************************************************************)
EXTENDS ControlTick, FiniteSetTheorems, TLAPS

\* At most the latest claim is in force.
LiveIsLatest == \A d \in Delivery : Live(d) => requests[d].epoch = epoch

\* How far a tick is, from where it is.
Progress(h) ==
    /\ run[h].done <= Steps
    /\ run[h].at = "working" => run[h].done < Steps
    /\ run[h].at \in {"dispatch", "sending"} => run[h].done = Steps
    /\ run[h].at = "record" => run[h].failed \/ run[h].done = Steps

TickInv == /\ TypeOK
           /\ LiveIsLatest
           /\ \A h \in Handler : Progress(h)

-----------------------------------------------------------------------------
(* Types *)

LEMMA IdleType == Idle \in Runs
BY DeliveryAssumption DEF Idle, Runs

LEMMA BegunType ==
    ASSUME NEW i \in Runs, NEW d \in Delivery, NEW e \in Nat
    PROVE  [i EXCEPT !.at = "step", !.delivery = d, !.epoch = e] \in Runs
BY DEF Runs

LEMMA HandlersRun == Handler \subseteq Runner /\ Loop \in Runner
BY DEF Runner

LEMMA InitType == Init => TypeOK
BY IdleType, StepsAssumption DEF Init, TypeOK, Requests

LEMMA NextType == TypeOK /\ [Next]_vars => TypeOK'
<1> SUFFICES ASSUME TypeOK, [Next]_vars PROVE TypeOK'
  OBVIOUS
<1> USE IdleType, HandlersRun
<1>1. ASSUME NEW h \in Handler, NEW d \in Delivery, Wake(h, d) PROVE TypeOK'
  <2>1. epoch' \in Nat /\ requests' \in [Delivery -> Requests]
    BY <1>1 DEF Wake, TypeOK, Requests
  <2>2. [Idle EXCEPT !.at = "step", !.delivery = d, !.epoch = epoch + 1] \in Runs
    <3>1. Idle \in Runs /\ epoch + 1 \in Nat
      BY DEF TypeOK
    <3> QED BY <3>1, BegunType, Zenon
  <2>3. run' \in [Runner -> Runs]
    BY <1>1, <2>2 DEF Wake, TypeOK
  <2> QED BY <1>1, <2>1, <2>3 DEF Wake, TypeOK
<1>2. ASSUME NEW h \in Handler, BeginStep(h) PROVE TypeOK'
  BY <1>2 DEF BeginStep, Returns, TypeOK, Runs
<1>3. ASSUME NEW h \in Handler, EndStep(h) PROVE TypeOK'
  BY <1>3 DEF EndStep, TypeOK, Runs
<1>4. ASSUME NEW h \in Handler, EndSteps(h) PROVE TypeOK'
  BY <1>4 DEF EndSteps, TypeOK, Runs
<1>5. ASSUME NEW h \in Handler, Record(h) PROVE TypeOK'
  <2>1. requests' \in [Delivery -> Requests]
    BY <1>5 DEF Record, TypeOK, Requests, Runs
  <2> QED BY <1>5, <2>1 DEF Record, Returns, TypeOK
<1>6. CASE BeginLoop
  <2>1. run' \in [Runner -> Runs]
    BY <1>6 DEF BeginLoop, TypeOK, Runs
  <2>2. cooling' \in [Key -> 0..Cooldown] /\ sent' \in [Key -> Nat]
    BY <1>6, StepsAssumption DEF BeginLoop, TypeOK
  <2> QED BY <1>6, <2>1, <2>2 DEF BeginLoop, TypeOK
<1>7. ASSUME NEW r \in Runner, NEW failed \in BOOLEAN, Leaves(r, failed)
      PROVE run' \in [Runner -> Runs]
  BY <1>7 DEF Leaves, TypeOK, Runs
<1>8. ASSUME NEW r \in Runner, Consider(r) PROVE TypeOK'
  <2>1. run' \in [Runner -> Runs]
    <3>1. CASE run[r].todo = {}
      BY <1>7, <1>8, <3>1 DEF Consider, TypeOK
    <3>2. CASE run[r].todo # {}
      <4>1. run[r].todo \ {First(run[r].todo)} \subseteq Key
        BY DEF TypeOK, Runs
      <4>2. \/ run' = [run EXCEPT ![r].todo = @ \ {First(@)}]
            \/ run' = [run EXCEPT ![r].at = "sending"]
        BY <1>8, <3>2 DEF Consider
      <4> QED BY <4>1, <4>2 DEF TypeOK, Runs
    <3> QED BY <3>1, <3>2
  <2> QED BY <1>8, <2>1 DEF Consider, TypeOK
<1>9. ASSUME NEW r \in Runner, Send(r) PROVE TypeOK'
  <2> DEFINE k == First(run[r].todo)
  <2>1. cooling' \in [Key -> 0..Cooldown]
    <3>1. cooling' = [cooling EXCEPT ![k] = Cooldown]
      BY <1>9 DEF Send
    <3>2. Cooldown \in 0..Cooldown
      BY StepsAssumption
    <3> QED BY <3>1, <3>2 DEF TypeOK
  <2>2. run' \in [Runner -> Runs] /\ sent' \in [Key -> Nat]
    <3>1. CASE Leaves(r, TRUE) /\ UNCHANGED sent
      BY <1>7, <3>1 DEF TypeOK
    <3>2. run[r] \in Runs /\ run[r].todo \ {k} \subseteq Key
      BY DEF TypeOK, Runs
    <3>3. CASE /\ run' = [run EXCEPT ![r].at = "dispatch", ![r].todo = @ \ {k}]
               /\ sent' = [sent EXCEPT ![k] = @ + 1]
      <4>1. [run[r] EXCEPT !.at = "dispatch", !.todo = @ \ {k}] \in Runs
        BY <3>2 DEF Runs
      <4>2. run' \in [Runner -> Runs]
        BY <3>3, <4>1 DEF TypeOK
      <4>3. sent' \in [Key -> Nat]
        <5>1. sent \in [Key -> Nat] /\ sent' = [sent EXCEPT ![k] = @ + 1]
          BY <3>3 DEF TypeOK
        <5> HIDE DEF k
        <5>2. ASSUME NEW x \in Key PROVE sent'[x] \in Nat
          BY <5>1
        <5> QED BY <5>1, <5>2
      <4> QED BY <4>2, <4>3
    <3> QED BY <1>9, <3>1, <3>3 DEF Send
  <2> QED BY <1>9, <2>1, <2>2 DEF Send, TypeOK
<1>10. ASSUME NEW d \in Delivery, Expire(d) PROVE TypeOK'
  BY <1>10 DEF Expire, TypeOK, Requests
<1>11. CASE Work
  BY <1>11 DEF Work, TypeOK
<1>12. CASE Crash
  <2>1. \A k \in Key : Cardinality(Sending(k)) \in Nat
    BY HandlerAssumption, FS_AddElement, FS_Subset, FS_CardinalityType DEF Sending, Runner
  <2>2. sent' \in [Key -> Nat]
    BY <1>12, <2>1 DEF Crash, TypeOK
  <2> QED BY <1>12, <2>2 DEF Crash, TypeOK
<1>13. CASE UNCHANGED vars
  BY <1>13 DEF vars, TypeOK
<1> QED BY <1>1, <1>2, <1>3, <1>4, <1>5, <1>6, <1>8, <1>9, <1>10, <1>11, <1>12, <1>13
        DEF Next, Tick, Dispatches

\* Requests, runs and counters keep their types.
THEOREM TypeCorrect == Spec => []TypeOK
BY InitType, NextType, PTL DEF Spec

-----------------------------------------------------------------------------
(* Ticks *)

LEMMA InitTick == Init => TickInv
<1> SUFFICES ASSUME Init PROVE TickInv
  OBVIOUS
<1>1. TypeOK
  BY InitType
<1>2. LiveIsLatest
  BY DEF Init, LiveIsLatest, Live
<1>3. \A h \in Handler : Progress(h)
  BY HandlersRun, StepsAssumption DEF Init, Progress, Idle
<1> QED BY <1>1, <1>2, <1>3 DEF TickInv

\* A claim is taken only when none is in force, and only the latest can be.
LEMMA NextLive == TypeOK /\ LiveIsLatest /\ [Next]_vars => LiveIsLatest'
<1> SUFFICES ASSUME TypeOK, LiveIsLatest, [Next]_vars, NEW e \in Delivery, Live(e)'
             PROVE  requests'[e].epoch = epoch'
  BY DEF LiveIsLatest
<1>1. ASSUME NEW h \in Handler, NEW d \in Delivery, Wake(h, d) PROVE requests'[e].epoch = epoch'
  BY <1>1 DEF Wake, TypeOK, Live
<1>2. ASSUME NEW h \in Handler, Record(h) PROVE requests'[e].epoch = epoch'
  BY <1>2 DEF Record, TypeOK, Requests, Live, LiveIsLatest
<1>3. ASSUME NEW d \in Delivery, Expire(d) PROVE requests'[e].epoch = epoch'
  BY <1>3 DEF Expire, TypeOK, Requests, Live, LiveIsLatest
<1>4. CASE UNCHANGED <<requests, epoch>>
  BY <1>4 DEF Live, LiveIsLatest
<1> QED BY <1>1, <1>2, <1>3, <1>4
        DEF Next, Tick, Dispatches, BeginStep, EndStep, EndSteps, BeginLoop, Consider, Send, Work,
            Crash, vars

\* A tick dispatches after its last step, and records what it did.
LEMMA NextProgress ==
    TypeOK /\ (\A h \in Handler : Progress(h)) /\ [Next]_vars => \A h \in Handler : Progress(h)'
<1> SUFFICES ASSUME TypeOK, NEW g \in Handler, Progress(g), [Next]_vars PROVE Progress(g)'
  OBVIOUS
<1> USE HandlersRun, StepsAssumption
<1>1. Idle.at = "idle" /\ Idle.done = 0
  BY DEF Idle
<1>2. ASSUME NEW h \in Handler, NEW d \in Delivery, Wake(h, d) PROVE Progress(g)'
  BY <1>2 DEF Wake, TypeOK, Progress, Idle
<1>3. ASSUME NEW h \in Handler, BeginStep(h) PROVE Progress(g)'
  BY <1>1, <1>3 DEF BeginStep, Returns, TypeOK, Runs, Progress
<1>4. ASSUME NEW h \in Handler, EndStep(h) PROVE Progress(g)'
  BY <1>4 DEF EndStep, TypeOK, Runs, Progress
<1>5. ASSUME NEW h \in Handler, EndSteps(h) PROVE Progress(g)'
  BY <1>5 DEF EndSteps, TypeOK, Runs, Progress
<1>6. ASSUME NEW h \in Handler, Record(h) PROVE Progress(g)'
  BY <1>1, <1>6 DEF Record, Returns, TypeOK, Runs, Progress
<1>7. CASE BeginLoop
  BY <1>7, HandlerAssumption DEF BeginLoop, TypeOK, Runs, Progress
<1>8. ASSUME NEW r \in Runner, NEW failed \in BOOLEAN, Leaves(r, failed),
             run[r].at \in {"dispatch", "sending"}
      PROVE  Progress(g)'
  BY <1>8, HandlerAssumption DEF Leaves, TypeOK, Runs, Progress
<1>9. ASSUME NEW r \in Runner, Consider(r) PROVE Progress(g)'
  <2>1. CASE Leaves(r, FALSE)
    BY <1>8, <1>9, <2>1 DEF Consider
  <2>2. CASE \/ run' = [run EXCEPT ![r].todo = @ \ {First(@)}]
             \/ run' = [run EXCEPT ![r].at = "sending"]
    BY <1>9, <2>2 DEF Consider, TypeOK, Runs, Progress
  <2> QED BY <1>9, <2>1, <2>2 DEF Consider
<1>10. ASSUME NEW r \in Runner, Send(r) PROVE Progress(g)'
  <2>1. CASE Leaves(r, TRUE)
    BY <1>8, <1>10, <2>1 DEF Send
  <2>2. CASE run' = [run EXCEPT ![r].at = "dispatch", ![r].todo = @ \ {First(run[r].todo)}]
    BY <1>10, <2>2 DEF Send, TypeOK, Runs, Progress
  <2> QED BY <1>10, <2>1, <2>2 DEF Send
<1>11. CASE Crash
  BY <1>1, <1>11 DEF Crash, Progress
<1>12. CASE UNCHANGED run
  BY <1>12 DEF Progress
<1> QED BY <1>2, <1>3, <1>4, <1>5, <1>6, <1>7, <1>9, <1>10, <1>11, <1>12
        DEF Next, Tick, Dispatches, Expire, Work, vars

LEMMA NextTick == TickInv /\ [Next]_vars => TickInv'
BY NextType, NextLive, NextProgress DEF TickInv

\* A step is begun by the latest tick only.
LEMMA StepsInOrder ==
    ASSUME TickInv, [Next]_vars, NEW g \in Handler, run[g].at = "step", run'[g].at = "working"
    PROVE  run[g].epoch = epoch
<1> USE HandlersRun DEF TickInv
<1>1. ASSUME NEW h \in Handler, BeginStep(h) PROVE run[g].epoch = epoch
  BY <1>1 DEF BeginStep, Returns, Owns, LiveIsLatest, TypeOK, Runs, Idle
<1>2. ASSUME NEW h \in Handler, NEW d \in Delivery, Wake(h, d) PROVE FALSE
  BY <1>2 DEF Wake, TypeOK, Idle
<1>3. ASSUME NEW h \in Handler, EndStep(h) \/ EndSteps(h) PROVE FALSE
  BY <1>3 DEF EndStep, EndSteps, TypeOK, Runs
<1>4. ASSUME NEW h \in Handler, Record(h) PROVE FALSE
  BY <1>4 DEF Record, Returns, TypeOK, Idle
<1>5. CASE BeginLoop
  BY <1>5, HandlerAssumption DEF BeginLoop, TypeOK, Runs
<1>6. ASSUME NEW r \in Runner, run[r].at \in {"dispatch", "sending"},
             \A q \in Runner \ {r} : run'[q] = run[q]
      PROVE  FALSE
  BY <1>6
<1>7. ASSUME NEW r \in Runner, Dispatches(r) PROVE FALSE
  <2>1. run[r].at \in {"dispatch", "sending"}
    BY <1>7 DEF Dispatches, Consider, Send
  <2>2. \A q \in Runner \ {r} : run'[q] = run[q]
    BY <1>7 DEF Dispatches, Consider, Send, Leaves, TypeOK
  <2> QED BY <1>6, <2>1, <2>2
<1>8. CASE Crash
  BY <1>8 DEF Crash, Idle
<1>9. CASE UNCHANGED run
  BY <1>9
<1> QED BY <1>1, <1>2, <1>3, <1>4, <1>5, <1>7, <1>8, <1>9
        DEF Next, Tick, Expire, Work, vars

\* A receipt is written by a tick that succeeded, over a claim of its own, and stays.
LEMMA ReceiptsAreEarned ==
    ASSUME TickInv, [Next]_vars, NEW d \in Delivery
    PROVE  /\ requests[d].status = "completed" => requests'[d] = requests[d]
           /\ requests[d].status # "completed" /\ requests'[d].status = "completed" =>
                  \E h \in Handler : /\ run[h].at = "record" /\ run'[h].at = "idle"
                                     /\ run[h].delivery = d
                                     /\ run[h].epoch = requests[d].epoch
                                     /\ ~run[h].failed /\ run[h].done = Steps
<1> DEFINE Stands == requests[d].status = "completed" => requests'[d] = requests[d]
           Stays == requests'[d].status = "completed" => requests[d].status = "completed"
<1> USE HandlersRun DEF TickInv
<1>1. ASSUME NEW h \in Handler, NEW e \in Delivery, Wake(h, e) PROVE Stands /\ Stays
  BY <1>1 DEF Wake, TypeOK
<1>2. ASSUME NEW e \in Delivery, Expire(e) PROVE Stands /\ Stays
  BY <1>2 DEF Expire, Live, TypeOK, Requests
<1>3. ASSUME NEW h \in Handler, Record(h) 
      PROVE /\ Stands
            /\ ~Stays => /\ run[h].at = "record" /\ run'[h].at = "idle"
                         /\ run[h].delivery = d
                         /\ run[h].epoch = requests[d].epoch
                         /\ ~run[h].failed /\ run[h].done = Steps
  <2>1. Stands
    BY <1>3 DEF Record, Owns, Live, TypeOK, Requests, Runs
  <2>2. run[h].at = "record" /\ run'[h].at = "idle"
    BY <1>3 DEF Record, Returns, TypeOK, Idle
  <2>3. ~Stays => /\ run[h].delivery = d
                  /\ run[h].epoch = requests[d].epoch
                  /\ ~run[h].failed
    BY <1>3 DEF Record, Owns, TypeOK, Requests, Runs
  <2>4. ~run[h].failed => run[h].done = Steps
    BY <2>2 DEF Progress
  <2> QED BY <2>1, <2>2, <2>3, <2>4
<1>4. CASE UNCHANGED requests
  BY <1>4
<1> QED BY <1>1, <1>2, <1>3, <1>4
        DEF Next, Tick, Dispatches, BeginStep, EndStep, EndSteps, BeginLoop, Consider, Send, Work,
            Crash, vars

\* Whichever deliveries are repeated and however long a tick outlives its lease, only the
\* latest one begins a step; the step it was in when its lease ended goes on.
THEOREM LatestSteps == Spec => LatestTickSteps
<1>1. TickInv /\ [Next]_vars =>
          [\A h \in Handler : run[h].at = "step" /\ run'[h].at = "working" =>
               run[h].epoch = epoch]_vars
  BY StepsInOrder
<1> QED BY <1>1, InitTick, NextTick, PTL DEF Spec, LatestTickSteps

\* A receipt says "completed" only of the whole tick that claimed its delivery last, and
\* is never taken back.
THEOREM ReceiptsAreTrue == Spec => ReceiptsStand
<1>1. TickInv /\ [Next]_vars =>
          [\A d \in Delivery :
               /\ requests[d].status = "completed" => requests'[d] = requests[d]
               /\ requests[d].status # "completed" /\ requests'[d].status = "completed" =>
                      \E h \in Handler : /\ run[h].at = "record" /\ run'[h].at = "idle"
                                         /\ run[h].delivery = d
                                         /\ run[h].epoch = requests[d].epoch
                                         /\ ~run[h].failed /\ run[h].done = Steps]_vars
  BY ReceiptsAreEarned
<1> QED BY <1>1, InitTick, NextTick, PTL DEF Spec, ReceiptsStand

-----------------------------------------------------------------------------
(* Dispatches *)

N == Cardinality(Runner)

\* What a key was sent and is being sent, since it was due; each crash allows for one
\* more by everybody.  A key that is due was sent before the last crash, if at all.
Counted(k) == sent[k] + Cardinality(Sending(k)) <= N * (1 + crashes)
Rested(k) == cooling[k] = 0 => sent[k] <= N * crashes

DispatchInv == /\ TypeOK
               /\ \A k \in Key : Counted(k) /\ Rested(k)

LEMMA RunnersCounted == IsFiniteSet(Runner) /\ N \in Nat
BY HandlerAssumption, FS_AddElement, FS_CardinalityType DEF Runner, N

LEMMA SendersCounted ==
    ASSUME NEW k \in Key
    PROVE  /\ IsFiniteSet(Sending(k)) /\ Cardinality(Sending(k)) \in 0..N
           /\ Cardinality(Sending(k)') \in 0..N
<1>1. Sending(k) \in SUBSET Runner /\ Sending(k)' \in SUBSET Runner
  BY DEF Sending
<1> QED BY <1>1, RunnersCounted, FS_Subset, FS_CardinalityType DEF N

LEMMA Allowance ==
    ASSUME NEW c \in Nat
    PROVE  /\ N * c \in Nat
           /\ N * (1 + c) = N * c + N /\ N * (c + 1) = N * c + N
BY RunnersCounted

LEMMA InitDispatch == Init => DispatchInv
<1> SUFFICES ASSUME Init PROVE DispatchInv
  OBVIOUS
<1>1. ASSUME NEW k \in Key PROVE Counted(k) /\ Rested(k)
  <2>1. Sending(k) = {}
    BY HandlersRun DEF Init, Sending, Idle
  <2> QED BY <2>1, FS_EmptySet, RunnersCounted, Allowance DEF Init, Counted, Rested
<1> QED BY <1>1, InitType DEF DispatchInv

\* Nobody begins to send the key.
LEMMA FewerSenders ==
    ASSUME DispatchInv, NEW k \in Key, Sending(k)' \subseteq Sending(k),
           crashes' = crashes, sent'[k] = sent[k], cooling'[k] = 0 => cooling[k] = 0
    PROVE  Counted(k)' /\ Rested(k)'
<1>1. Cardinality(Sending(k)') <= Cardinality(Sending(k))
  BY SendersCounted, FS_Subset
<1>2. Sending(k)' = Sending(k)' /\ sent[k] \in Nat /\ crashes \in Nat
  BY DEF DispatchInv, TypeOK
<1>3. N * (1 + crashes) \in Nat
  BY <1>2, Allowance, RunnersCounted
<1> QED BY <1>1, <1>2, <1>3, SendersCounted DEF DispatchInv, Counted, Rested

LEMMA NextDispatch == DispatchInv /\ [Next]_vars => DispatchInv'
<1> SUFFICES ASSUME DispatchInv, [Next]_vars PROVE DispatchInv'
  OBVIOUS
<1>0. TypeOK /\ TypeOK'
  BY NextType DEF DispatchInv
<1> SUFFICES ASSUME NEW k \in Key PROVE Counted(k)' /\ Rested(k)'
  BY <1>0 DEF DispatchInv
<1> USE HandlersRun
<1>a. /\ crashes \in Nat /\ sent[k] \in Nat /\ sent'[k] \in Nat
      /\ cooling[k] \in Nat /\ cooling'[k] \in Nat
      /\ N * crashes \in Nat /\ N \in Nat
      /\ N * (1 + crashes) = N * crashes + N
      /\ N * (crashes + 1) = N * crashes + N
  BY <1>0, Allowance, RunnersCounted DEF TypeOK
\* A handler that was not sending, and is not afterwards.
<1>1. ASSUME NEW r \in Runner, \A q \in Runner \ {r} : run'[q] = run[q], run'[r].at # "sending",
             UNCHANGED <<cooling, sent, crashes>>
      PROVE  Counted(k)' /\ Rested(k)'
  <2>1. Sending(k)' \subseteq Sending(k)
    BY <1>1 DEF Sending
  <2> QED BY <1>1, <2>1, FewerSenders
<1>2. ASSUME NEW h \in Handler, NEW d \in Delivery, Wake(h, d) PROVE Counted(k)' /\ Rested(k)'
  BY <1>0, <1>1, <1>2 DEF Wake, TypeOK, Idle
<1>3. ASSUME NEW h \in Handler, Tick(h) PROVE Counted(k)' /\ Rested(k)'
  <2>1. run'[h].at # "sending"
    BY <1>0, <1>3 DEF Tick, BeginStep, EndStep, EndSteps, Record, Returns, Idle, TypeOK, Runs
  <2> QED BY <1>0, <1>1, <1>3, <2>1
          DEF Tick, BeginStep, EndStep, EndSteps, Record, Returns, TypeOK
<1>4. CASE BeginLoop
  <2>1. Sending(k)' \subseteq Sending(k)
    BY <1>0, <1>4 DEF BeginLoop, Sending, TypeOK, Runs
  <2>2. CASE cooling[k] = 1
    <3>1. sent'[k] = 0 /\ crashes' = crashes
      BY <1>4, <2>2 DEF BeginLoop
    <3> QED BY <1>a, <3>1, SendersCounted DEF Counted, Rested
  <2>3. CASE cooling[k] # 1
    <3>1. sent'[k] = sent[k] /\ crashes' = crashes /\ (cooling'[k] = 0 => cooling[k] = 0)
      BY <1>4, <1>a, <2>3 DEF BeginLoop
    <3> QED BY <2>1, <3>1, FewerSenders
  <2> QED BY <2>2, <2>3
<1>5. ASSUME NEW r \in Runner, Consider(r) PROVE Counted(k)' /\ Rested(k)'
  <2>1. UNCHANGED <<cooling, sent, crashes>>
    BY <1>5 DEF Consider
  <2>2. CASE /\ ~(cooling[First(run[r].todo)] > 0)
             /\ run' = [run EXCEPT ![r].at = "sending"]
    <3>1. CASE cooling[k] = 0
      BY <1>a, <2>1, <3>1, SendersCounted DEF DispatchInv, Counted, Rested
    <3>2. CASE cooling[k] # 0
      <4>1. Sending(k)' \subseteq Sending(k)
        BY <1>0, <1>a, <2>2, <3>2 DEF Sending, TypeOK, Runs
      <4> QED BY <2>1, <4>1, FewerSenders
    <3> QED BY <3>1, <3>2
  <2>3. CASE Leaves(r, FALSE) \/ run' = [run EXCEPT ![r].todo = @ \ {First(@)}]
    <3>1. run'[r].at # "sending"
      <4>1. ASSUME Leaves(r, FALSE) PROVE run'[r].at # "sending"
        BY <1>0, <4>1 DEF Leaves, Idle, TypeOK, Runs
      <4>2. ASSUME run' = [run EXCEPT ![r].todo = @ \ {First(@)}] PROVE run'[r].at = run[r].at
        BY <1>0, <4>2 DEF TypeOK, Runs
      <4> QED BY <1>5, <2>3, <4>1, <4>2 DEF Consider
    <3>2. \A q \in Runner \ {r} : run'[q] = run[q]
      BY <1>0, <2>3 DEF Leaves, TypeOK
    <3> QED BY <1>1, <2>1, <3>1, <3>2
  <2> QED BY <1>5, <2>2, <2>3 DEF Consider
<1>6. ASSUME NEW r \in Runner, Send(r) PROVE Counted(k)' /\ Rested(k)'
  <2> DEFINE key == First(run[r].todo)
  <2>1. crashes' = crashes /\ cooling' = [cooling EXCEPT ![key] = Cooldown]
    BY <1>6 DEF Send
  <2>2. cooling'[k] = 0 => cooling[k] = 0
    BY <1>0, <2>1, StepsAssumption DEF TypeOK
  <2>3. CASE Leaves(r, TRUE) /\ UNCHANGED sent
    <3>1. Sending(k)' \subseteq Sending(k)
      BY <1>0, <2>3 DEF Sending, Leaves, Idle, TypeOK, Runs
    <3> QED BY <2>1, <2>2, <2>3, <3>1, FewerSenders
  <2>4. CASE /\ key \notin Broken
             /\ run' = [run EXCEPT ![r].at = "dispatch", ![r].todo = @ \ {key}]
             /\ sent' = [sent EXCEPT ![key] = @ + 1]
    <3>1. Sending(k)' = Sending(k) \ {r}
      BY <1>0, <2>4 DEF Sending, TypeOK, Runs
    <3>2. CASE k = key
      <4>1. r \in Sending(k)
        BY <1>6, <2>4, <3>2 DEF Send, Sending
      <4>2. Cardinality(Sending(k)') = Cardinality(Sending(k)) - 1
        BY <3>1, <4>1, SendersCounted, FS_RemoveElement
      <4>3. sent'[k] = sent[k] + 1 /\ cooling'[k] = Cooldown
        BY <1>0, <2>1, <2>4, <3>2 DEF TypeOK
      <4> QED BY <1>a, <2>1, <4>2, <4>3, SendersCounted, StepsAssumption
              DEF DispatchInv, Counted, Rested
    <3>3. CASE k # key
      <4>1. sent'[k] = sent[k]
        BY <1>0, <2>4, <3>3 DEF TypeOK
      <4> QED BY <2>1, <2>2, <3>1, <4>1, FewerSenders
    <3> QED BY <3>2, <3>3
  <2> QED BY <1>6, <2>3, <2>4 DEF Send
<1>7. CASE Crash
  <2>1. Sending(k)' = {}
    BY <1>7 DEF Crash, Sending, Idle
  <2>2. sent'[k] <= sent[k] + Cardinality(Sending(k)) /\ crashes' = crashes + 1
    BY <1>7, <1>a, SendersCounted DEF Crash
  <2>3. sent'[k] <= N * crashes'
    BY <1>a, <2>2, SendersCounted DEF DispatchInv, Counted
  <2>4. N * (1 + crashes') = N * crashes' + N
    BY <1>a, <2>2, Allowance
  <2> QED BY <1>a, <2>1, <2>2, <2>3, <2>4, FS_EmptySet DEF Counted, Rested
<1>8. CASE UNCHANGED <<run, cooling, sent, crashes>>
  <2>1. Sending(k)' = Sending(k)
    BY <1>8 DEF Sending
  <2> QED BY <1>8, <2>1, FewerSenders
<1> QED BY <1>2, <1>3, <1>4, <1>5, <1>6, <1>7, <1>8
        DEF Next, Dispatches, Expire, Work, vars

\* Dispatches are not exactly once, but bounded: since a key was due, each handler and
\* the loop has sent it at most once, and once more for each crash.
THEOREM DispatchesBounded == Spec => []DuplicatesBounded
<1>1. DispatchInv => DuplicatesBounded
  <2> SUFFICES ASSUME DispatchInv, NEW k \in Key PROVE sent[k] <= N * (1 + crashes)
    BY DEF DuplicatesBounded, N
  <2> QED BY SendersCounted, Allowance, RunnersCounted DEF DispatchInv, Counted, TypeOK
<1> QED BY <1>1, InitDispatch, NextDispatch, PTL DEF Spec

=============================================================================
