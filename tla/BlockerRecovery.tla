-------------------------- MODULE BlockerRecovery --------------------------
(***************************************************************************)
(* The recovery of a machine blocker (blocker_recovery.py) of one pull     *)
(* request whose HEAD does not move, with the part of external_recovery.py *)
(* that finishes an interrupted one and the scan of queue_discovery.py     *)
(* that queues what was recovered.                                         *)
(*                                                                         *)
(* A pass looks at the labels, reads the evidence, claims the phase and    *)
(* the projection under a row of the store, and writes the labels that the *)
(* evidence allows: QA is ready.  Other passes, a worker, the watchdog and *)
(* people act between any two of its requests.  A worker appears with what *)
(* a recovery can meet: its keys and its writes.                           *)
(***************************************************************************)
EXTENDS Naturals, Sequences, FiniteSets

CONSTANTS Pass,         \* processes or tasks that run recover_blockers_once
          Scanner,      \* the loop of main.py, which queues QA too
          Good,         \* generations of evidence that allow QA
          MaxEvidence, MaxRows,
          MaxMoves, MaxFails  \* moves of the environment; lost requests and crashes

ASSUME PassAssumption == Scanner \in Pass
ASSUME BoundsAssumption == /\ Good \subseteq Nat
                           /\ {MaxEvidence, MaxRows, MaxMoves, MaxFails} \subseteq Nat

VARIABLES labels, evidence,
          writer,              \* who wrote the labels last
          rows,                \* of the recoveries, in the order of their claims
          requests,            \* labels and evidence that a request was named after
          owner,               \* who claimed a key last, if that claim is alive
          pass,
          observed,            \* labels observed as waiting less than ten minutes ago
          applied, gen,        \* audits of applied recoveries; their latest generation
          queued, seen,        \* generations whose item waits; those that had one
          worker,
          moves, fails

store == <<rows, requests, owner, observed, applied, gen>>
queue == <<queued, seen>>
env == <<labels, writer, evidence, worker, queue, moves>>
vars == <<labels, writer, evidence, store, queue, pass, worker, moves, fails>>

Phase == {"review", "qa"}
Projection == "projection"
Key == Phase \cup {Projection}
Nobody == 0
Worker == MaxRows + 1
Machine == "watchdog:timeout"
Content == "blocker:content"
Labels == [phase : Phase, status : {"todo", "running", "blocked", "ended"},
           codes : SUBSET {Machine, Content}]
Workflow(phase, status) == [phase |-> phase, status |-> status, codes |-> {}]
NoRow == [at |-> "idle", read |-> Workflow("qa", "blocked"), row |-> Nobody]
ByHand == <<"label", 0>>   \* the event of a label set by a person
\* (A bug.) The scan queues a HEAD and phase once.
ItemOfHead(g) == <<"scan", 0>>

Item(g) == <<"scan", g>>

Row == [status : {"running", "done", "superseded"}, live : BOOLEAN, stable : BOOLEAN,
        read : Labels, evidence : 1..MaxEvidence]
Run == [at : {"idle", "decide", "live", "before", "put", "after", "final", "reconcile"},
        read : Labels, row : 0..MaxRows]

TypeOK ==
    /\ labels \in Labels
    /\ writer \in {"person", "worker", "pass"}
    /\ evidence \in 1..MaxEvidence
    /\ rows \in Seq(Row) /\ Len(rows) <= MaxRows
    /\ requests \subseteq Labels \X (1..MaxEvidence)
    /\ owner \in [Key -> 0..Worker]
    /\ pass \in [Pass -> Run]
    /\ \A p \in Pass : pass[p].row <= Len(rows)
    /\ observed \subseteq Labels
    /\ applied \subseteq (DOMAIN rows) \X {"writer", "machine", "reclaimed"}
    /\ gen \in Nat
    /\ seen \subseteq {Item(g) : g \in 0..gen}
    /\ queued \subseteq seen \cup {ByHand}
    /\ worker \in [at : {"idle", "taken", "started"}, phase : Phase]
    /\ moves \in 0..MaxMoves /\ fails \in 0..MaxFails

\* QA ran on this HEAD before, from the item of the initial generation.
Init == /\ \E ph \in Phase : labels = [Workflow(ph, "blocked") EXCEPT !.codes = {Machine}]
        /\ writer = "worker"
        /\ evidence \in 1..MaxEvidence
        /\ rows = <<>> /\ requests = {}
        /\ owner = [k \in Key |-> Nobody]
        /\ pass = [p \in Pass |-> NoRow]
        /\ observed = {} /\ applied = {} /\ gen = 0
        /\ queued = {} /\ seen = {Item(0)}
        /\ worker = [at |-> "idle", phase |-> "qa"]
        /\ moves = 0 /\ fails = 0

-----------------------------------------------------------------------------
(* The environment *)

Moves == moves < MaxMoves /\ moves' = moves + 1

\* A comment, or a run of CI.
Evidence == /\ evidence < MaxEvidence
            /\ evidence' = evidence + 1
            /\ Moves
            /\ UNCHANGED <<labels, writer, store, queue, pass, worker, fails>>

\* A person adds a blocker of content or takes it away, or makes a phase ready again;
\* the watchdog blocks a phase that runs, whether or not its worker lives.
Relabel ==
    /\ \/ /\ labels.status # "ended"
          /\ labels' = [labels EXCEPT !.codes = IF Content \in @ THEN @ \ {Content}
                                               ELSE @ \cup {Content}]
          /\ UNCHANGED queued
       \/ /\ labels.status = "blocked"
          /\ \E ph \in Phase : labels' = Workflow(ph, "todo")
          /\ queued' = queued \cup {ByHand}
       \/ /\ labels.status = "running"
          /\ labels' = [labels EXCEPT !.status = "blocked", !.codes = @ \cup {Machine}]
          /\ UNCHANGED queued
    /\ writer' = "person"
    /\ Moves
    /\ UNCHANGED <<evidence, store, seen, pass, worker, fails>>

Clock == /\ observed # {}
         /\ observed' = {}
         /\ UNCHANGED <<env, rows, requests, owner, applied, gen, pass, fails>>

-----------------------------------------------------------------------------
(* A worker of either phase, native or a client of the claim service *)

Frees(who) == owner' = [k \in Key |-> IF owner[k] = who THEN Nobody ELSE owner[k]]
Rest == worker' = [worker EXCEPT !.at = "idle"]

\* The native worker takes an event of QA, which is lost on it when the operation is
\* claimed or the labels moved; a client of the service finds review ready.
TakeItem ==
    \E item \in queued :
        /\ worker.at = "idle"
        /\ queued' = queued \ {item}
        /\ IF owner["qa"] = Nobody /\ labels.status = "todo" /\ labels.phase = "qa"
           THEN /\ worker' = [at |-> "taken", phase |-> "qa"]
                /\ owner' = [owner EXCEPT !["qa"] = Worker]
           ELSE UNCHANGED <<worker, owner>>
        /\ UNCHANGED <<labels, writer, evidence, rows, requests, observed, applied, gen, seen, pass, moves,
                       fails>>

TakeReview ==
    /\ worker.at = "idle"
    /\ labels = Workflow("review", "todo")
    /\ owner["review"] = Nobody
    /\ worker' = [at |-> "taken", phase |-> "review"]
    /\ owner' = [owner EXCEPT !["review"] = Worker]
    /\ UNCHANGED <<labels, writer, evidence, rows, requests, observed, applied, gen, queue, pass, moves, fails>>

\* (A bug.) RUNNING is projected without the projection.
StartAnyway ==
    /\ worker.at = "taken"
    /\ IF labels.status = "todo" /\ labels.phase = worker.phase
       THEN /\ labels' = [labels EXCEPT !.status = "running"] /\ writer' = "worker"
            /\ worker' = [worker EXCEPT !.at = "started"] /\ UNCHANGED owner
       ELSE Rest /\ Frees(Worker) /\ UNCHANGED <<labels, writer>>
    /\ UNCHANGED <<evidence, rows, requests, observed, applied, gen, queue, pass, moves, fails>>

\* RUNNING is projected under both keys; a worker that finds other labels gives up.
Start ==
    /\ worker.at = "taken"
    /\ IF labels.status = "todo" /\ labels.phase = worker.phase
       THEN /\ owner[Projection] = Nobody
            /\ labels' = [labels EXCEPT !.status = "running"]
            /\ writer' = "worker"
            /\ worker' = [worker EXCEPT !.at = "started"]
            /\ owner' = [owner EXCEPT ![Projection] = Worker]
       ELSE Rest /\ Frees(Worker) /\ UNCHANGED <<labels, writer>>
    /\ UNCHANGED <<evidence, rows, requests, observed, applied, gen, queue, pass, moves, fails>>

\* QA ends with the pull request waiting for its owner, review with QA ready, by an
\* applied audit of the label writer.
End ==
    /\ worker.at = "started"
    /\ Rest /\ Frees(Worker)
    /\ IF labels.status # "running" \/ labels.phase # worker.phase
       THEN UNCHANGED <<labels, writer, gen>>
       ELSE /\ writer' = "worker"
            /\ IF worker.phase = "qa"
               THEN labels' = [labels EXCEPT !.status = "ended"] /\ UNCHANGED gen
               ELSE labels' = [labels EXCEPT !.status = "todo", !.phase = "qa"] /\ gen' = gen + 1
    /\ UNCHANGED <<evidence, rows, requests, observed, applied, queue, pass, moves, fails>>

-----------------------------------------------------------------------------
(* A pass *)

Recovered == Workflow("qa", "todo")
Classified(l) == l.codes = {Machine}
Waits(l) == {o \in observed : Classified(o) # Classified(l)} \cup {l}
Resolved(l) == {o \in observed : Classified(o) # Classified(l)}
Running(r) == r \in DOMAIN rows /\ rows[r].status = "running" /\ rows[r].live

Ends(r, status) ==   \* finish, which a row that ended or expired ignores
    IF Running(r) THEN rows' = [rows EXCEPT ![r].status = status] /\ Frees(r)
    ELSE UNCHANGED <<rows, owner>>

Goes(p, at) == pass' = [pass EXCEPT ![p].at = at]
Returns(p) == pass' = [pass EXCEPT ![p] = NoRow]

\* An audit has one identity for a row and kind; the latest applied one is the
\* generation of the queue.
Applies(r, kind) ==
    IF <<r, kind>> \in applied THEN UNCHANGED <<applied, gen>>
    ELSE applied' = applied \cup {<<r, kind>>} /\ gen' = gen + 1

Look(p) ==
    /\ pass[p].at = "idle"
    /\ labels.status = "blocked"
    /\ labels \notin observed
    /\ IF Classified(labels)
       THEN /\ pass' = [pass EXCEPT ![p] = [NoRow EXCEPT !.at = "decide", !.read = labels]]
            /\ UNCHANGED observed
       ELSE observed' = Waits(labels) /\ UNCHANGED pass
    /\ UNCHANGED <<env, rows, requests, owner, applied, gen, fails>>

\* The row of the request that is named after the labels and the evidence it is for.
Joined(read) == {r \in DOMAIN rows : /\ Running(r) /\ rows[r].stable
                                     /\ rows[r].read = read /\ rows[r].evidence = evidence}
NewRow(read) == [status |-> "running", live |-> TRUE, read |-> read, evidence |-> evidence,
                 stable |-> <<read, evidence>> \notin requests]

\* The projection is claimed after the phase.  Without it the attempt is superseded; a row
\* that was made for it has no more effect, and is left out.
Claims(p, r, row) ==
    IF owner[Projection] \in {Nobody, r}
    THEN /\ rows' = [i \in DOMAIN rows \cup {r} |-> IF i = r THEN row ELSE rows[i]]
         /\ owner' = [owner EXCEPT ![row.read.phase] = r, ![Projection] = r]
         /\ pass' = [pass EXCEPT ![p].at = "live", ![p].row = r]
    ELSE Returns(p) /\ Ends(r, "superseded")

\* (A bug.) The name of a request is used once.
DecideOnce(p) ==
    LET read == pass[p].read
        busy == owner[read.phase]
    IN /\ pass[p].at = "decide"
       /\ IF evidence \in Good /\ busy = Nobody /\ <<read, evidence>> \notin requests
          THEN /\ Len(rows) < MaxRows
               /\ Claims(p, Len(rows) + 1, NewRow(read))
               /\ requests' = requests \cup {<<read, evidence>>}
               /\ UNCHANGED observed
          ELSE Returns(p) /\ observed' = Waits(read) /\ UNCHANGED <<rows, owner, requests>>
       /\ UNCHANGED <<env, applied, gen, fails>>

\* The evidence was read; what follows is one step.  A request of the same labels and
\* evidence that still runs is joined, one that ended or expired is replaced.
Decide(p) ==
    LET read == pass[p].read
        busy == owner[read.phase]
    IN /\ pass[p].at = "decide"
       /\ \/ /\ evidence \notin Good
             /\ Returns(p) /\ observed' = Waits(read)
             /\ UNCHANGED <<rows, owner, requests>>
          \/ /\ evidence \in Good
             /\ busy \in Joined(read) /\ Claims(p, busy, rows[busy])
             /\ UNCHANGED <<observed, requests>>
          \/ /\ evidence \in Good
             /\ busy \notin Joined(read)
             /\ IF Joined(read) # {} \/ busy # Nobody
                THEN Returns(p) /\ UNCHANGED <<rows, owner, requests>>
                ELSE /\ Len(rows) < MaxRows
                     /\ Claims(p, Len(rows) + 1, NewRow(read))
                     /\ requests' = requests \cup {<<read, evidence>>}
             /\ UNCHANGED observed
       /\ UNCHANGED <<env, applied, gen, fails>>

\* Gives up: the row stays as it is, and the labels are looked at again after a while.
Defers(p) == Returns(p) /\ observed' = Waits(pass[p].read) /\ UNCHANGED <<rows, owner>>

Owns(p) == \A k \in {pass[p].read.phase, Projection} : owner[k] = pass[p].row

Live(p) ==
    /\ pass[p].at = "live"
    /\ IF labels # pass[p].read
       THEN /\ Returns(p) /\ Ends(pass[p].row, "done")
            /\ observed' = Waits(pass[p].read)
       ELSE IF Owns(p) THEN Goes(p, "before") /\ UNCHANGED <<rows, owner, observed>>
       ELSE Defers(p)
    /\ UNCHANGED <<env, requests, applied, gen, fails>>

\* The label writer: it verifies, writes, and verifies again.
Before(p) ==
    /\ pass[p].at = "before"
    /\ IF labels = pass[p].read /\ Owns(p)
       THEN Goes(p, "put") /\ UNCHANGED <<rows, owner, observed>>
       ELSE Defers(p)
    /\ UNCHANGED <<env, requests, applied, gen, fails>>

Put(p) ==
    /\ pass[p].at = "put"
    /\ labels' = Recovered /\ writer' = "pass"
    /\ Goes(p, "after")
    /\ UNCHANGED <<evidence, worker, queue, moves, store, fails>>

After(p) ==
    /\ pass[p].at = "after"
    /\ IF labels = Recovered /\ Owns(p)
       THEN /\ Applies(pass[p].row, "writer") /\ Goes(p, "final")
            /\ UNCHANGED <<rows, owner, observed>>
       ELSE Defers(p) /\ UNCHANGED <<applied, gen>>
    /\ UNCHANGED <<env, requests, fails>>

Final(p) ==
    /\ pass[p].at = "final"
    /\ IF labels = Recovered
       THEN /\ Returns(p) /\ Ends(pass[p].row, "done")
            /\ Applies(pass[p].row, "machine")
            /\ observed' = Resolved(pass[p].read)
       ELSE Defers(p) /\ UNCHANGED <<applied, gen>>
    /\ UNCHANGED <<env, requests, fails>>

\* An expired row is reclaimed; what its recovery wrote is verified, or left alone.
Reclaim(p) ==
    \E r \in DOMAIN rows :
        LET keys == {rows[r].read.phase, Projection}
        IN /\ pass[p].at = "idle"
           /\ rows[r].status = "running" /\ ~rows[r].live
           /\ IF owner[rows[r].read.phase] # Nobody
              THEN /\ rows' = [rows EXCEPT ![r].status = "superseded"]
                   /\ UNCHANGED <<owner, pass>>
              ELSE /\ rows' = [rows EXCEPT ![r].live = TRUE]
                   /\ owner' = [k \in Key |-> IF k \in keys /\ owner[k] = Nobody THEN r
                                             ELSE owner[k]]
                   /\ pass' = [pass EXCEPT ![p] =
                                   IF owner[Projection] # Nobody THEN NoRow
                                   ELSE [at |-> "reconcile", read |-> rows[r].read, row |-> r]]
           /\ UNCHANGED <<env, requests, observed, applied, gen, fails>>

\* (A bug.) What an interrupted recovery wrote is not audited as applied.
ReconcileUnaudited(p) ==
    /\ pass[p].at = "reconcile"
    /\ Returns(p)
    /\ Ends(pass[p].row, IF labels = Recovered THEN "done" ELSE "superseded")
    /\ UNCHANGED <<env, requests, applied, gen, observed, fails>>

\* (A bug.) A row whose labels moved on is left for its next expiry.
ReconcileLeaves(p) ==
    /\ pass[p].at = "reconcile"
    /\ Returns(p)
    /\ IF labels = Recovered THEN Ends(pass[p].row, "done") /\ Applies(pass[p].row, "reclaimed")
       ELSE UNCHANGED <<rows, owner, applied, gen>>
    /\ UNCHANGED <<env, requests, observed, fails>>

Reconcile(p) ==
    /\ pass[p].at = "reconcile"
    /\ Returns(p)
    /\ IF labels = Recovered
       THEN /\ Ends(pass[p].row, "done")
            /\ Applies(pass[p].row, "reclaimed")
            /\ observed' = Resolved(pass[p].read)
       ELSE /\ Ends(pass[p].row, "superseded")
            /\ UNCHANGED <<applied, gen, observed>>
    /\ UNCHANGED <<env, requests, fails>>

\* A request fails, or the process dies and does not record its observation; a write
\* that failed may have been made.
Fail(p) ==
    /\ pass[p].at # "idle"
    /\ fails < MaxFails
    /\ fails' = fails + 1
    /\ Returns(p)
    /\ \/ UNCHANGED <<labels, writer>>
       \/ pass[p].at = "put" /\ labels' = Recovered /\ writer' = "pass"
    /\ observed' \in {observed} \cup
           (IF pass[p].at \in {"decide", "reconcile"} THEN {} ELSE {Waits(pass[p].read)})
    /\ UNCHANGED <<evidence, worker, queue, moves, rows, requests, owner, applied, gen>>

\* No attempt lasts as long as its lease: one that expires was left by its pass.
Expire(r) ==
    /\ Running(r)
    /\ \A p \in Pass : pass[p].row # r
    /\ rows' = [rows EXCEPT ![r].live = FALSE]
    /\ Frees(r)
    /\ UNCHANGED <<env, requests, observed, applied, gen, pass, fails>>

\* The scan queues a ready QA that nobody runs, once for each generation.
Scan ==
    /\ pass[Scanner].at = "idle"
    /\ labels = Recovered
    /\ owner["qa"] = Nobody
    /\ Item(gen) \notin seen
    /\ queued' = queued \cup {Item(gen)}
    /\ seen' = seen \cup {Item(gen)}
    /\ UNCHANGED <<labels, writer, evidence, worker, moves, store, pass, fails>>

Step(p) == \/ Look(p) \/ Decide(p) \/ Live(p) \/ Before(p) \/ Put(p)
           \/ After(p) \/ Final(p) \/ Reclaim(p) \/ Reconcile(p)
Works == TakeItem \/ TakeReview \/ Start \/ End
Next == \/ Evidence \/ Relabel \/ Clock \/ Works \/ Scan
        \/ \E p \in Pass : Step(p) \/ Fail(p)
        \/ \E r \in DOMAIN rows : Expire(r)

Spec == Init /\ [][Next]_vars
FairSpec == /\ Spec
            /\ WF_vars(Clock) /\ WF_vars(Works) /\ WF_vars(Scan)
            /\ \A p \in Pass : WF_vars(Step(p)) /\ SF_vars(Reclaim(p))
            /\ \A r \in 1..MaxRows : WF_vars(r \in DOMAIN rows /\ Expire(r))

-----------------------------------------------------------------------------
(* Safety *)

\* A recovery never takes a phase back from the worker that runs it, although its labels
\* are verified by one request and written by another: the worker needs a key of it.
UndisturbedWorker ==
    [][\A p \in Pass : pass[p].at = "put" /\ pass'[p].at # "put" /\ labels' # labels =>
           labels.status # "running"]_vars

\* Nothing of a recovery is under way.
Quiet == /\ \A p \in Pass : pass[p].at \in {"idle", "decide"}
         /\ \A r \in DOMAIN rows : rows[r].status # "running"

\* "Applied recovery creates a fresh native queue generation, so a completed earlier
\* queue item cannot suppress recovery of the same SHA/phase."
\* (docs/workflow-recovery-acceptance.md:132-133)
RecoveredIsQueued ==
    Quiet /\ labels = Recovered /\ writer = "pass" /\ worker.at = "idle" =>
        queued # {} \/ Item(gen) \notin seen

-----------------------------------------------------------------------------
(* Liveness: the passes run again and again, the clock goes on, and what fails and
   moves is bounded *)

\* An attempt that failed, or whose process died, is finished by the reconciler of
\* expired leases: no row is left running, also when it waits for another key.
RowsEnd == []<>(\A r \in DOMAIN rows : rows[r].status # "running")

\* A machine blocker whose evidence allows QA does not stay: not for a row left behind,
\* and not for an observation of an earlier attempt.
BlockerClears == []<>~(labels.status = "blocked" /\ Classified(labels) /\ evidence \in Good)

\* QA that a recovery made ready, and that nobody touched, is run: the keys of the
\* recovery do not outlive it, and its item is not spent while they are held.
RecoveredIsTaken == []<>~(labels = Recovered /\ writer = "pass")

=============================================================================
