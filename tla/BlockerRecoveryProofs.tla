----------------------- MODULE BlockerRecoveryProofs -----------------------
(***************************************************************************)
(* Proofs about the recovery of machine blockers: its variables keep their *)
(* types, it takes no phase from the worker that runs it, and the QA it    *)
(* made ready is queued.                                                   *)
(*                                                                         *)
(* The types hold of any number of passes.  The other two are about one    *)
(* pass at a time, as when main.py runs alone, where only the discovery    *)
(* loop recovers blockers and scans.  When the control service works on    *)
(* the same database there are two, and both fail (run blocker_passes).    *)
(***************************************************************************)
EXTENDS BlockerRecovery, TLAPS

\* One task recovers blockers, and its scan queues QA.
Alone == Pass = {Scanner}

-----------------------------------------------------------------------------
(* The invariant *)

At(p, steps) == pass[p].at \in steps
WithRow == {"live", "before", "put", "after", "final", "reconcile"}

\* A pass with a row has one that was claimed.
PassesTyped == TypeOK /\ \A p \in Pass : At(p, WithRow) => pass[p].row \in DOMAIN rows

\* The labels are those of a recovery, which wrote them last.
Written == labels = Recovered /\ writer = "pass"

\* A key of a row is its phase's or the projection's, and the row is in force.
KeysOK == \A k \in Key : owner[k] \notin {Nobody, Worker} =>
              /\ Running(owner[k])
              /\ k \in Phase => rows[owner[k]].read.phase = k

\* A pass saw a blocked phase, and nobody but it writes the labels of a recovery.  At its
\* write it still has the keys, without which no worker starts.
PassOK(p) ==
    /\ At(p, {"decide", "live", "before", "put"}) => ~Written
    /\ At(p, {"decide", "live", "before"}) => pass[p].read.status = "blocked"
    /\ At(p, WithRow) => Running(pass[p].row) /\ rows[pass[p].row].read = pass[p].read
    /\ At(p, {"put"}) => Owns(p) /\ labels.status # "running"

\* A row is audited as finished at its end.
AuditsOK == \A r \in DOMAIN rows : rows[r].status = "running" =>
                <<r, "machine">> \notin applied /\ <<r, "reclaimed">> \notin applied

WorkerOK == worker.at = "idle" => \A k \in Key : owner[k] # Worker

\* A row that will be reconciled, or superseded by another such row: its phase is not with
\* the worker.
Obliged(r) == rows[r].status = "running" /\ owner[rows[r].read.phase] # Worker

\* What a recovery wrote has an item, or a generation that had none, or the worker that
\* took its item, or a row whose end makes a generation.
PendingOK == Written => \/ queued # {} \/ Item(gen) \notin seen
                        \/ worker.at = "taken" /\ worker.phase = "qa"
                        \/ \E r \in DOMAIN rows : Obliged(r)

BInv == /\ TypeOK /\ KeysOK /\ AuditsOK /\ WorkerOK /\ PendingOK
        /\ \A p \in Pass : PassOK(p)

-----------------------------------------------------------------------------
(* Rows and keys *)

LEMMA ConstantsTyped == MaxRows \in Nat /\ MaxEvidence \in Nat /\ MaxMoves \in Nat /\ MaxFails \in Nat
BY BoundsAssumption

LEMMA LabelsTyped ==
    /\ \A ph \in Phase, status \in {"todo", "running", "blocked", "ended"} :
           Workflow(ph, status) \in Labels
    /\ Recovered \in Labels /\ Recovered.status = "todo" /\ Recovered.phase = "qa"
BY DEF Workflow, Labels, Phase, Recovered

LEMMA NoRowTyped == NoRow \in Run /\ NoRow.row = Nobody /\ NoRow.at = "idle"
<1>1. Workflow("qa", "blocked") \in Labels
  BY LabelsTyped DEF Phase
<1> QED
  BY <1>1, ConstantsTyped DEF NoRow, Run, Nobody

LEMMA RowTyped ==
    ASSUME TypeOK, NEW r \in DOMAIN rows
    PROVE  rows[r] \in Row /\ rows[r].read \in Labels /\ rows[r].read.phase \in Phase
           /\ r \in Nat /\ r # Nobody /\ r # Worker
<1>1. r \in 1..Len(rows) /\ rows[r] \in Row /\ Len(rows) \in Nat /\ Len(rows) <= MaxRows
  BY DEF TypeOK
<1> QED
  BY <1>1, ConstantsTyped DEF Row, Labels, Nobody, Worker

\* A field of a row that changes leaves the others.
LEMMA RowChanges ==
    ASSUME TypeOK, NEW r \in DOMAIN rows, NEW row \in Row, rows' = [rows EXCEPT ![r] = row]
    PROVE  /\ rows' \in Seq(Row) /\ Len(rows') = Len(rows) /\ DOMAIN rows' = DOMAIN rows
           /\ \A i \in DOMAIN rows : i # r => rows'[i] = rows[i]
           /\ rows'[r] = row
BY DEF TypeOK

\* The keys of one are freed, those of the others stay.
LEMMA FreesKeys ==
    ASSUME TypeOK, NEW who, Frees(who)
    PROVE  /\ owner' \in [Key -> 0..Worker]
           /\ \A k \in Key : owner'[k] = IF owner[k] = who THEN Nobody ELSE owner[k]
<1>1. owner \in [Key -> 0..Worker] /\ Nobody \in 0..Worker
  BY ConstantsTyped DEF TypeOK, Nobody, Worker
<1> QED
  BY <1>1 DEF Frees

\* One row is ended, with its keys.
Ended(r) ==
    /\ rows' \in Seq(Row) /\ Len(rows') = Len(rows) /\ DOMAIN rows' = DOMAIN rows
    /\ \A i \in DOMAIN rows : /\ i # r => rows'[i] = rows[i]
                              /\ rows'[i].read = rows[i].read
                              /\ rows'[i].status = "running" => rows'[i] = rows[i]
    /\ Running(r) => rows'[r].status # "running"
    /\ owner' \in [Key -> 0..Worker]
    /\ \A k \in Key : owner'[k] = IF owner[k] = r THEN Nobody ELSE owner[k]

LEMMA EndsEnds ==
    ASSUME TypeOK, NEW r \in Nat, NEW status \in {"done", "superseded"}, Ends(r, status)
    PROVE  Ended(r) \/ (UNCHANGED <<rows, owner>> /\ ~Running(r))
<1>1. CASE Running(r)
  <2>1. rows' = [rows EXCEPT ![r].status = status] /\ Frees(r) /\ r \in DOMAIN rows
    BY <1>1 DEF Ends, Running
  <2>2. \A i \in DOMAIN rows : rows[i] \in Row
    BY RowTyped
  <2>3. rows \in Seq(Row)
    BY DEF TypeOK
  <2>4. [rows[r] EXCEPT !.status = status] \in Row
    BY <2>1, <2>2 DEF Row
  <2>5. rows' = [rows EXCEPT ![r] = [rows[r] EXCEPT !.status = status]]
    BY <2>1
  <2>6. /\ rows' \in Seq(Row) /\ Len(rows') = Len(rows) /\ DOMAIN rows' = DOMAIN rows
        /\ \A i \in DOMAIN rows : i # r => rows'[i] = rows[i]
        /\ rows'[r] = [rows[r] EXCEPT !.status = status]
    BY <2>1, <2>3, <2>4, <2>5
  <2>7. rows'[r].status = status /\ rows'[r].read = rows[r].read
    BY <2>1, <2>2, <2>6 DEF Row
  <2>8. \A i \in DOMAIN rows : /\ rows'[i].read = rows[i].read
                              /\ rows'[i].status = "running" => rows'[i] = rows[i]
    BY <2>6, <2>7
  <2>9. /\ owner' \in [Key -> 0..Worker]
        /\ \A k \in Key : owner'[k] = IF owner[k] = r THEN Nobody ELSE owner[k]
    BY <2>1, FreesKeys
  <2> QED
    BY <2>6, <2>7, <2>8, <2>9 DEF Ended
<1>2. CASE ~Running(r)
  BY <1>2 DEF Ends
<1> QED
  BY <1>1, <1>2

-----------------------------------------------------------------------------
(* Types, for any number of passes *)

\* What a step leaves in the tables, of the passes apart.
Stored ==
    /\ rows' \in Seq(Row) /\ Len(rows) <= Len(rows') /\ Len(rows') <= MaxRows
    /\ owner' \in [Key -> 0..Worker]
    /\ requests' \subseteq Labels \X (1..MaxEvidence) /\ observed' \subseteq Labels
    /\ applied' \subseteq (DOMAIN rows') \X {"writer", "machine", "reclaimed"}
    /\ gen' \in Nat /\ seen \subseteq {Item(g) : g \in 0..gen'}

\* And outside of them.
Outside == /\ labels' \in Labels /\ writer' \in {"person", "worker", "pass"}
           /\ fails' \in 0..MaxFails
           /\ UNCHANGED <<evidence, worker, queue, moves>>

LEMMA ObservedTyped ==
    ASSUME TypeOK, NEW l \in Labels
    PROVE  Waits(l) \subseteq Labels /\ Resolved(l) \subseteq Labels
BY DEF TypeOK, Waits, Resolved

LEMMA ReadTyped == TypeOK => \A p \in Pass : pass[p].read \in Labels /\ pass[p].row \in Nat
BY ConstantsTyped DEF TypeOK, Run

LEMMA AuditsTyped ==
    ASSUME TypeOK, NEW r \in DOMAIN rows, NEW kind \in {"writer", "machine", "reclaimed"},
           Applies(r, kind)
    PROVE  /\ applied' \subseteq (DOMAIN rows) \X {"writer", "machine", "reclaimed"}
           /\ gen' \in Nat /\ seen \subseteq {Item(g) : g \in 0..gen'}
<1>1. gen \in Nat /\ gen + 1 \in Nat /\ 0..gen \subseteq 0..gen + 1
      /\ seen \subseteq {Item(g) : g \in 0..gen}
  BY DEF TypeOK
<1> QED
  BY <1>1 DEF Applies, TypeOK

LEMMA StoredStays ==
    ASSUME TypeOK, UNCHANGED <<rows, owner, applied, gen>>,
           requests' \subseteq Labels \X (1..MaxEvidence), observed' \subseteq Labels
    PROVE  Stored
BY DEF TypeOK, Stored

LEMMA StoredEnds ==
    ASSUME TypeOK, NEW r \in Nat, NEW status \in {"done", "superseded"}, Ends(r, status),
           UNCHANGED requests, observed' \subseteq Labels,
           applied' \subseteq (DOMAIN rows) \X {"writer", "machine", "reclaimed"},
           gen' \in Nat, seen \subseteq {Item(g) : g \in 0..gen'}
    PROVE  Stored
<1>1. Ended(r) \/ UNCHANGED <<rows, owner>>
  BY EndsEnds
<1> QED
  BY <1>1 DEF Ended, TypeOK, Stored

LEMMA OutsideStays == TypeOK /\ UNCHANGED <<env, fails>> => Outside
BY DEF TypeOK, Outside, env

\* One pass moves, with a row that there is.
LEMMA MoveTyped ==
    ASSUME PassesTyped, NEW p \in Pass, NEW m \in Run, pass' = [pass EXCEPT ![p] = m],
           m.row <= Len(rows'), m.at \in WithRow => m.row \in DOMAIN rows', Stored, Outside
    PROVE  PassesTyped'
<1>1. pass \in [Pass -> Run] /\ pass' \in [Pass -> Run]
      /\ \A q \in Pass : pass'[q] = IF q = p THEN m ELSE pass[q]
  BY DEF PassesTyped, TypeOK
<1>2. Len(rows) \in Nat /\ Len(rows') \in Nat /\ Len(rows) <= Len(rows')
      /\ DOMAIN rows = 1..Len(rows) /\ DOMAIN rows' = 1..Len(rows')
  BY DEF PassesTyped, TypeOK, Stored
<1>3. ASSUME NEW q \in Pass
      PROVE  pass'[q].row <= Len(rows') /\ (At(q, WithRow)' => pass'[q].row \in DOMAIN rows')
  <2>1. CASE q = p
    BY <1>1, <2>1 DEF At, WithRow
  <2>2. CASE q # p
    <3>1. pass'[q] = pass[q] /\ pass[q].row \in Nat /\ pass[q].row <= Len(rows)
      BY <1>1, <2>2, ReadTyped DEF PassesTyped, TypeOK
    <3>2. At(q, WithRow) => pass[q].row \in DOMAIN rows
      BY DEF PassesTyped
    <3> QED
      BY <1>2, <3>1, <3>2 DEF At, WithRow
  <2> QED
    BY <2>1, <2>2
<1>4. TypeOK'
  BY <1>1, <1>3 DEF PassesTyped, TypeOK, Stored, Outside, queue
<1> QED
  BY <1>3, <1>4 DEF PassesTyped

LEMMA ReturnTyped ==
    ASSUME PassesTyped, NEW p \in Pass, Returns(p), Stored, Outside
    PROVE  PassesTyped'
<1>1. NoRow.row <= Len(rows') /\ NoRow.at \notin WithRow
  BY NoRowTyped DEF Stored, Nobody, WithRow
<1> QED
  BY <1>1, NoRowTyped, MoveTyped DEF Returns

LEMMA GoTyped ==
    ASSUME PassesTyped, NEW p \in Pass, At(p, WithRow),
           NEW at \in {"before", "put", "after", "final"}, Goes(p, at), Stored, Outside
    PROVE  PassesTyped'
<1> DEFINE m == [pass[p] EXCEPT !.at = at]
<1>1. /\ m \in Run /\ m.row = pass[p].row /\ pass' = [pass EXCEPT ![p] = m]
  BY DEF Goes, PassesTyped, TypeOK, Run
<1>2. m.row <= Len(rows') /\ m.row \in DOMAIN rows'
  <2>1. pass[p].row \in DOMAIN rows
    BY DEF PassesTyped
  <2> QED
    BY <1>1, <2>1 DEF Stored, PassesTyped, TypeOK
<1> HIDE DEF m
<1> QED
  BY <1>1, <1>2, MoveTyped

LEMMA DefersTyped ==
    ASSUME PassesTyped, NEW p \in Pass, Defers(p),
           UNCHANGED <<env, requests, applied, gen, fails>>
    PROVE  PassesTyped'
<1>1. TypeOK /\ observed' \subseteq Labels /\ requests' \subseteq Labels \X (1..MaxEvidence)
  BY ObservedTyped, ReadTyped DEF Defers, PassesTyped, TypeOK
<1> QED
  BY <1>1, StoredStays, OutsideStays, ReturnTyped DEF Defers

LEMMA EvidenceTyped == TypeOK /\ Evidence => TypeOK'
<1> SUFFICES ASSUME TypeOK, Evidence
             PROVE  TypeOK'
  OBVIOUS
<1>1. evidence' \in 1..MaxEvidence /\ moves' \in 0..MaxMoves
  BY ConstantsTyped DEF TypeOK, Evidence, Moves
<1> QED
  BY <1>1 DEF TypeOK, Evidence, store, queue

LEMMA RelabelTyped == TypeOK /\ Relabel => TypeOK'
<1> SUFFICES ASSUME TypeOK, Relabel
             PROVE  TypeOK'
  OBVIOUS
<1>1. labels \in Labels
  BY DEF TypeOK
<1>2. labels' \in Labels
  <2>1. CASE labels' = [labels EXCEPT !.codes = IF Content \in @ THEN @ \ {Content}
                                               ELSE @ \cup {Content}]
    BY <1>1, <2>1 DEF Labels
  <2>2. CASE \E ph \in Phase : labels' = Workflow(ph, "todo")
    BY <2>2, LabelsTyped
  <2>3. CASE labels' = [labels EXCEPT !.status = "blocked", !.codes = @ \cup {Machine}]
    BY <1>1, <2>3 DEF Labels
  <2> QED
    BY <2>1, <2>2, <2>3 DEF Relabel
<1>3. queued' \subseteq seen' \cup {ByHand} /\ moves' \in 0..MaxMoves
  BY ConstantsTyped DEF TypeOK, Relabel, Moves
<1> QED
  BY <1>2, <1>3 DEF TypeOK, Relabel, store

LEMMA ClockTyped == TypeOK /\ Clock => TypeOK'
BY DEF TypeOK, Clock, env, queue

LEMMA ScanTyped == TypeOK /\ Scan => TypeOK'
<1> SUFFICES ASSUME TypeOK, Scan
             PROVE  TypeOK'
  OBVIOUS
<1>1. gen \in Nat /\ Item(gen) \in {Item(g) : g \in 0..gen}
  BY DEF TypeOK
<1>2. seen' \subseteq {Item(g) : g \in 0..gen'} /\ queued' \subseteq seen' \cup {ByHand}
  BY <1>1 DEF TypeOK, Scan, store
<1> QED
  BY <1>2 DEF TypeOK, Scan, store

LEMMA TakeItemTyped == TypeOK /\ TakeItem => TypeOK'
<1> SUFFICES ASSUME TypeOK, TakeItem
             PROVE  TypeOK'
  OBVIOUS
<1>1. owner \in [Key -> 0..Worker] /\ Worker \in 0..Worker /\ "qa" \in Key
  BY ConstantsTyped DEF TypeOK, Worker, Key, Phase
<1>2. owner' \in [Key -> 0..Worker]
  BY <1>1 DEF TakeItem
<1>3. worker' \in [at : {"idle", "taken", "started"}, phase : Phase]
  BY DEF TakeItem, Phase, TypeOK
<1>4. queued' \subseteq queued
  BY DEF TakeItem
<1> QED
  BY <1>2, <1>3, <1>4 DEF TypeOK, TakeItem

LEMMA TakeReviewTyped == TypeOK /\ TakeReview => TypeOK'
<1> SUFFICES ASSUME TypeOK, TakeReview
             PROVE  TypeOK'
  OBVIOUS
<1>1. owner \in [Key -> 0..Worker] /\ Worker \in 0..Worker /\ "review" \in Key
  BY ConstantsTyped DEF TypeOK, Worker, Key, Phase
<1>2. owner' \in [Key -> 0..Worker] /\ worker' \in [at : {"idle", "taken", "started"}, phase : Phase]
  BY <1>1 DEF TakeReview, Phase
<1> QED
  BY <1>2 DEF TypeOK, TakeReview, queue

LEMMA StartTyped == TypeOK /\ Start => TypeOK'
<1> SUFFICES ASSUME TypeOK, Start
             PROVE  TypeOK'
  OBVIOUS
<1>1. /\ owner \in [Key -> 0..Worker] /\ Worker \in 0..Worker /\ labels \in Labels
      /\ worker \in [at : {"idle", "taken", "started"}, phase : Phase]
  BY ConstantsTyped DEF TypeOK, Worker
<1>2. CASE labels.status = "todo" /\ labels.phase = worker.phase
  <2>1. /\ labels' \in Labels /\ writer' = "worker" /\ owner' \in [Key -> 0..Worker]
        /\ worker' \in [at : {"idle", "taken", "started"}, phase : Phase]
    BY <1>1, <1>2 DEF Start, Labels
  <2> QED
    BY <2>1 DEF TypeOK, Start, queue
<1>3. CASE Rest /\ Frees(Worker) /\ UNCHANGED <<labels, writer>>
  <2>1. owner' \in [Key -> 0..Worker] /\ worker' \in [at : {"idle", "taken", "started"}, phase : Phase]
    BY <1>1, <1>3, FreesKeys DEF Rest
  <2> QED
    BY <1>3, <2>1 DEF TypeOK, Start, queue
<1> QED
  BY <1>2, <1>3 DEF Start

LEMMA EndTyped == TypeOK /\ End => TypeOK'
<1> SUFFICES ASSUME TypeOK, End
             PROVE  TypeOK'
  OBVIOUS
<1>1. owner' \in [Key -> 0..Worker] /\ worker' \in [at : {"idle", "taken", "started"}, phase : Phase]
  BY FreesKeys DEF TypeOK, End, Rest
<1>2. labels' \in Labels /\ writer' \in {"person", "worker", "pass"}
  BY DEF TypeOK, End, Labels, Phase
<1>3. gen' \in Nat /\ seen' \subseteq {Item(g) : g \in 0..gen'}
  <2>1. gen \in Nat /\ gen' \in {gen, gen + 1} /\ 0..gen \subseteq 0..gen + 1 /\ seen' = seen
        /\ seen \subseteq {Item(g) : g \in 0..gen}
    BY DEF TypeOK, End, queue
  <2> QED
    BY <2>1
<1> QED
  BY <1>1, <1>2, <1>3 DEF TypeOK, End, queue

LEMMA LookTyped ==
    ASSUME PassesTyped, NEW p \in Pass, Look(p)
    PROVE  PassesTyped'
<1>1. TypeOK /\ labels \in Labels /\ UNCHANGED <<env, rows, requests, owner, applied, gen, fails>>
      /\ observed \subseteq Labels /\ requests \subseteq Labels \X (1..MaxEvidence)
  BY DEF Look, PassesTyped, TypeOK
<1>2. Outside
  BY <1>1, OutsideStays
<1> DEFINE m == [NoRow EXCEPT !.at = "decide", !.read = labels]
<1>3. CASE pass' = [pass EXCEPT ![p] = m] /\ observed' = observed
  <2>1. m \in Run /\ m.at \notin WithRow /\ m.row <= Len(rows')
    <3>1. m \in Run /\ m.at = "decide" /\ m.row = 0
      BY <1>1, NoRowTyped DEF Run, Nobody
    <3>2. Len(rows') \in Nat
      BY <1>1 DEF TypeOK
    <3> QED
      BY <3>1, <3>2 DEF WithRow
  <2>2. Stored
    BY <1>1, <1>3, StoredStays
  <2> HIDE DEF m
  <2> QED
    BY <1>2, <1>3, <2>1, <2>2, MoveTyped
<1>4. CASE observed' = Waits(labels) /\ pass' = pass
  BY <1>1, <1>4, ObservedTyped DEF PassesTyped, TypeOK, At, env, queue
<1> QED
  BY <1>3, <1>4 DEF Look

LEMMA LiveTyped ==
    ASSUME PassesTyped, NEW p \in Pass, Live(p)
    PROVE  PassesTyped'
<1>1. /\ TypeOK /\ At(p, WithRow) /\ pass[p].row \in Nat /\ UNCHANGED <<env, requests, applied, gen, fails>>
      /\ requests \subseteq Labels \X (1..MaxEvidence) /\ observed \subseteq Labels
      /\ Waits(pass[p].read) \subseteq Labels
      /\ applied \subseteq (DOMAIN rows) \X {"writer", "machine", "reclaimed"}
      /\ gen \in Nat /\ seen \subseteq {Item(g) : g \in 0..gen}
  BY ReadTyped, ObservedTyped DEF Live, PassesTyped, TypeOK, At, WithRow
<1>2. Outside
  BY <1>1, OutsideStays
<1>3. CASE Returns(p) /\ Ends(pass[p].row, "done") /\ observed' = Waits(pass[p].read)
  BY <1>1, <1>2, <1>3, StoredEnds, ReturnTyped
<1>4. CASE Goes(p, "before") /\ UNCHANGED <<rows, owner, observed>>
  BY <1>1, <1>2, <1>4, StoredStays, GoTyped
<1>5. CASE Defers(p)
  BY <1>1, <1>5, DefersTyped
<1> QED
  BY <1>3, <1>4, <1>5 DEF Live

LEMMA BeforeTyped ==
    ASSUME PassesTyped, NEW p \in Pass, Before(p)
    PROVE  PassesTyped'
<1>1. /\ TypeOK /\ At(p, WithRow) /\ UNCHANGED <<env, requests, applied, gen, fails>>
      /\ requests \subseteq Labels \X (1..MaxEvidence) /\ observed \subseteq Labels
  BY DEF Before, PassesTyped, TypeOK, At, WithRow
<1>2. CASE Goes(p, "put") /\ UNCHANGED <<rows, owner, observed>>
  BY <1>1, <1>2, OutsideStays, StoredStays, GoTyped
<1>3. CASE Defers(p)
  BY <1>1, <1>3, DefersTyped
<1> QED
  BY <1>2, <1>3 DEF Before

LEMMA PutTyped ==
    ASSUME PassesTyped, NEW p \in Pass, Put(p)
    PROVE  PassesTyped'
<1>1. /\ TypeOK /\ At(p, WithRow) /\ Goes(p, "after") /\ UNCHANGED store
      /\ requests \subseteq Labels \X (1..MaxEvidence) /\ observed \subseteq Labels
  BY DEF Put, PassesTyped, TypeOK, At, WithRow
<1>2. Outside
  BY <1>1, LabelsTyped DEF Put, Outside, TypeOK
<1>3. Stored
  BY <1>1, StoredStays DEF store
<1> QED
  BY <1>1, <1>2, <1>3, GoTyped

LEMMA AfterTyped ==
    ASSUME PassesTyped, NEW p \in Pass, After(p)
    PROVE  PassesTyped'
<1>1. TypeOK /\ At(p, WithRow) /\ pass[p].row \in DOMAIN rows /\ UNCHANGED <<env, requests, fails>>
  BY DEF After, PassesTyped, At, WithRow
<1>2. CASE Applies(pass[p].row, "writer") /\ Goes(p, "final") /\ UNCHANGED <<rows, owner, observed>>
  <2>1. Stored
    BY <1>1, <1>2, AuditsTyped DEF Stored, TypeOK
  <2> QED
    BY <1>1, <1>2, <2>1, OutsideStays, GoTyped
<1>3. CASE Defers(p) /\ UNCHANGED <<applied, gen>>
  BY <1>1, <1>3, DefersTyped
<1> QED
  BY <1>2, <1>3 DEF After

LEMMA FinalTyped ==
    ASSUME PassesTyped, NEW p \in Pass, Final(p)
    PROVE  PassesTyped'
<1>1. /\ TypeOK /\ pass[p].row \in DOMAIN rows /\ pass[p].row \in Nat /\ UNCHANGED <<env, requests, fails>>
      /\ Resolved(pass[p].read) \subseteq Labels
  BY ReadTyped, ObservedTyped DEF Final, PassesTyped, At, WithRow
<1>2. CASE labels = Recovered
  <2>1. /\ Returns(p) /\ Ends(pass[p].row, "done") /\ Applies(pass[p].row, "machine")
        /\ observed' \subseteq Labels
    BY <1>1, <1>2 DEF Final
  <2>2. Stored
    BY <1>1, <2>1, AuditsTyped, StoredEnds
  <2> QED
    BY <1>1, <2>1, <2>2, OutsideStays, ReturnTyped
<1>3. CASE labels # Recovered
  BY <1>1, <1>3, DefersTyped DEF Final
<1> QED
  BY <1>2, <1>3

LEMMA ReconcileTyped ==
    ASSUME PassesTyped, NEW p \in Pass, Reconcile(p)
    PROVE  PassesTyped'
<1>1. /\ TypeOK /\ pass[p].row \in DOMAIN rows /\ pass[p].row \in Nat /\ UNCHANGED <<env, requests, fails>>
      /\ Resolved(pass[p].read) \subseteq Labels /\ observed \subseteq Labels /\ Returns(p)
      /\ applied \subseteq (DOMAIN rows) \X {"writer", "machine", "reclaimed"}
      /\ gen \in Nat /\ seen \subseteq {Item(g) : g \in 0..gen}
  BY ReadTyped, ObservedTyped DEF Reconcile, PassesTyped, TypeOK, At, WithRow
<1>2. Stored
  <2>1. CASE labels = Recovered
    <3>1. Ends(pass[p].row, "done") /\ Applies(pass[p].row, "reclaimed") /\ observed' \subseteq Labels
      BY <1>1, <2>1 DEF Reconcile
    <3> QED
      BY <1>1, <3>1, AuditsTyped, StoredEnds
  <2>2. CASE labels # Recovered
    <3>1. Ends(pass[p].row, "superseded") /\ UNCHANGED <<applied, gen, observed>>
      BY <2>2 DEF Reconcile
    <3> QED
      BY <1>1, <3>1, StoredEnds
  <2> QED
    BY <2>1, <2>2
<1> QED
  BY <1>1, <1>2, OutsideStays, ReturnTyped

LEMMA FailTyped ==
    ASSUME PassesTyped, NEW p \in Pass, Fail(p)
    PROVE  PassesTyped'
<1>1. TypeOK /\ Waits(pass[p].read) \subseteq Labels /\ observed \subseteq Labels
      /\ requests \subseteq Labels \X (1..MaxEvidence)
  BY ReadTyped, ObservedTyped DEF PassesTyped, TypeOK
<1>2. observed' = observed \/ observed' = Waits(pass[p].read)
  BY DEF Fail
<1>3. Stored
  BY <1>1, <1>2, StoredStays DEF Fail
<1>4. Outside
  <2>1. fails' \in 0..MaxFails /\ labels' \in Labels /\ writer' \in {"person", "worker", "pass"}
    BY <1>1, LabelsTyped, ConstantsTyped DEF TypeOK, Fail
  <2> QED
    BY <2>1 DEF Outside, Fail
<1> QED
  BY <1>3, <1>4, ReturnTyped DEF Fail

LEMMA ExpireTyped ==
    ASSUME PassesTyped, NEW r \in DOMAIN rows, Expire(r)
    PROVE  PassesTyped'
<1>1. /\ TypeOK /\ rows' = [rows EXCEPT ![r].live = FALSE] /\ Frees(r)
      /\ UNCHANGED <<env, requests, observed, applied, gen, pass, fails>>
  BY DEF Expire, PassesTyped
<1>2. rows[r] \in Row
  BY <1>1, RowTyped
<1> DEFINE row == [rows[r] EXCEPT !.live = FALSE]
<1>3. row \in Row /\ rows' = [rows EXCEPT ![r] = row]
  BY <1>1, <1>2 DEF Row
<1> HIDE DEF row
<1>4. /\ rows' \in Seq(Row) /\ Len(rows') = Len(rows) /\ DOMAIN rows' = DOMAIN rows
      /\ owner' \in [Key -> 0..Worker]
  BY <1>1, <1>3, RowChanges, FreesKeys
<1> QED
  BY <1>1, <1>4 DEF PassesTyped, TypeOK, At, env, queue

LEMMA ReclaimTyped ==
    ASSUME PassesTyped, NEW p \in Pass, Reclaim(p)
    PROVE  PassesTyped'
<1>1. PICK r \in DOMAIN rows :
          /\ IF owner[rows[r].read.phase] # Nobody
             THEN /\ rows' = [rows EXCEPT ![r].status = "superseded"]
                  /\ UNCHANGED <<owner, pass>>
             ELSE /\ rows' = [rows EXCEPT ![r].live = TRUE]
                  /\ owner' = [k \in Key |-> IF k \in {rows[r].read.phase, Projection} /\ owner[k] = Nobody
                                            THEN r ELSE owner[k]]
                  /\ pass' = [pass EXCEPT ![p] =
                                  IF owner[Projection] # Nobody THEN NoRow
                                  ELSE [at |-> "reconcile", read |-> rows[r].read, row |-> r]]
          /\ UNCHANGED <<env, requests, observed, applied, gen, fails>>
  BY DEF Reclaim
<1>2. TypeOK /\ rows[r] \in Row /\ rows[r].read \in Labels /\ rows[r].read.phase \in Phase
  BY RowTyped DEF PassesTyped
<1>3. rows' \in Seq(Row) /\ Len(rows') = Len(rows) /\ DOMAIN rows' = DOMAIN rows
  <2>1. PICK row : /\ row \in {[rows[r] EXCEPT !.status = "superseded"], [rows[r] EXCEPT !.live = TRUE]}
                   /\ rows' = [rows EXCEPT ![r] = row]
    BY <1>1
  <2>2. row \in Row
    BY <1>2, <2>1 DEF Row
  <2> QED
    BY <1>2, <2>1, <2>2, RowChanges
<1>4. CASE owner[rows[r].read.phase] # Nobody
  BY <1>1, <1>3, <1>4 DEF PassesTyped, TypeOK, At, env, queue
<1>5. CASE owner[rows[r].read.phase] = Nobody
  <2>1. r \in 0..MaxRows /\ r \in 0..Worker /\ r <= Len(rows)
    <3>1. r \in 1..Len(rows) /\ Len(rows) \in Nat /\ Len(rows) <= MaxRows
      BY <1>2 DEF TypeOK
    <3> QED
      BY <3>1, ConstantsTyped DEF Worker
  <2>2. owner' \in [Key -> 0..Worker]
    <3>1. owner \in [Key -> 0..Worker]
      BY <1>2 DEF TypeOK
    <3> QED
      BY <1>1, <1>5, <2>1, <3>1
  <2>3. Stored
    BY <1>1, <1>2, <1>3, <2>2 DEF TypeOK, Stored
  <2> DEFINE m == IF owner[Projection] # Nobody THEN NoRow
                  ELSE [at |-> "reconcile", read |-> rows[r].read, row |-> r]
  <2>4. m \in Run /\ m.row <= Len(rows') /\ (m.at \in WithRow => m.row \in DOMAIN rows')
    <3>1. CASE owner[Projection] # Nobody
      BY <1>2, <1>3, <3>1, NoRowTyped DEF Nobody, TypeOK, WithRow
    <3>2. CASE owner[Projection] = Nobody
      BY <1>2, <1>3, <2>1, <3>2 DEF Run
    <3> QED
      BY <3>1, <3>2
  <2>5. pass' = [pass EXCEPT ![p] = m]
    BY <1>1, <1>5
  <2> HIDE DEF m
  <2> QED
    BY <1>1, <1>2, <2>3, <2>4, <2>5, OutsideStays, MoveTyped
<1> QED
  BY <1>4, <1>5

\* The rows after a claim: those of before, and the one that is claimed.
LEMMA ClaimedRows ==
    ASSUME TypeOK, NEW r, NEW row \in Row,
           rows' = [i \in DOMAIN rows \cup {r} |-> IF i = r THEN row ELSE rows[i]],
           \/ r \in DOMAIN rows /\ row = rows[r]
           \/ r = Len(rows) + 1 /\ r <= MaxRows
    PROVE  /\ rows' \in Seq(Row) /\ Len(rows') <= MaxRows
           /\ DOMAIN rows' = DOMAIN rows \cup {r} /\ rows'[r] = row
           /\ \A i \in DOMAIN rows : rows'[i] = rows[i] /\ i <= Len(rows')
           /\ r \in 1..MaxRows /\ r <= Len(rows')
<1>1. rows \in Seq(Row) /\ Len(rows) \in Nat /\ DOMAIN rows = 1..Len(rows) /\ Len(rows) <= MaxRows
      /\ MaxRows \in Nat
  BY ConstantsTyped DEF TypeOK
<1>2. CASE r \in DOMAIN rows /\ row = rows[r]
  <2>1. DOMAIN rows \cup {r} = 1..Len(rows)
    BY <1>1, <1>2
  <2>2. rows' = [i \in 1..Len(rows) |-> rows[i]]
    BY <1>2, <2>1
  <2>3. rows' = rows
    BY <1>1, <2>2
  <2> QED
    BY <1>1, <1>2, <2>3
<1>3. CASE r = Len(rows) + 1 /\ r <= MaxRows
  <2>1. DOMAIN rows \cup {r} = 1..Len(rows) + 1 /\ r \notin DOMAIN rows
    BY <1>1, <1>3
  <2>2. \A i \in 1..Len(rows) + 1 : (IF i = r THEN row ELSE rows[i]) \in Row
    BY <1>1, <1>3
  <2>3. rows' = [i \in 1..Len(rows) + 1 |-> IF i = r THEN row ELSE rows[i]]
    BY <2>1
  <2>4. rows' \in Seq(Row) /\ Len(rows') = Len(rows) + 1 /\ DOMAIN rows' = 1..Len(rows) + 1
    BY <1>1, <2>2, <2>3
  <2> QED
    BY <1>1, <1>3, <2>1, <2>3, <2>4
<1> QED
  BY <1>2, <1>3

LEMMA NewRowTyped ==
    ASSUME TypeOK, NEW read \in Labels
    PROVE  /\ NewRow(read) \in Row /\ NewRow(read).read = read
           /\ NewRow(read).status = "running" /\ NewRow(read).live
<1>1. (<<read, evidence>> \notin requests) \in BOOLEAN /\ evidence \in 1..MaxEvidence
  BY DEF TypeOK
<1> QED
  BY <1>1 DEF NewRow, Row

LEMMA ClaimTyped ==
    ASSUME PassesTyped, NEW p \in Pass, NEW r, NEW row \in Row, row.read = pass[p].read,
           \/ r \in DOMAIN rows /\ row = rows[r]
           \/ r = Len(rows) + 1 /\ r <= MaxRows,
           Claims(p, r, row), owner[Projection] \in {Nobody, r},
           UNCHANGED <<env, observed, applied, gen, fails>>,
           requests' \subseteq Labels \X (1..MaxEvidence)
    PROVE  PassesTyped'
<1>1. /\ rows' = [i \in DOMAIN rows \cup {r} |-> IF i = r THEN row ELSE rows[i]]
      /\ owner' = [owner EXCEPT ![row.read.phase] = r, ![Projection] = r]
      /\ pass' = [pass EXCEPT ![p].at = "live", ![p].row = r]
  BY DEF Claims
<1>2. TypeOK /\ row.read.phase \in Key
  BY ReadTyped DEF PassesTyped, Labels, Key
<1>3. /\ rows' \in Seq(Row) /\ Len(rows') <= MaxRows
      /\ DOMAIN rows' = DOMAIN rows \cup {r}
      /\ \A i \in DOMAIN rows : i <= Len(rows')
      /\ r \in 1..MaxRows /\ r <= Len(rows')
  BY <1>1, <1>2, ClaimedRows
<1>4. r \in 0..MaxRows /\ r \in 0..Worker
  BY <1>3, ConstantsTyped DEF Worker
<1>5. owner' \in [Key -> 0..Worker]
  BY <1>1, <1>4 DEF PassesTyped, TypeOK
<1>6. Stored
  <2>1. Len(rows) <= Len(rows')
    BY <1>2, <1>3 DEF TypeOK
  <2>2. applied' \subseteq (DOMAIN rows') \X {"writer", "machine", "reclaimed"}
    BY <1>2, <1>3 DEF TypeOK
  <2> QED
    BY <1>2, <1>3, <1>5, <2>1, <2>2 DEF TypeOK, Stored
<1> DEFINE m == [pass[p] EXCEPT !.at = "live", !.row = r]
<1>7. m \in Run /\ m.row = r /\ pass' = [pass EXCEPT ![p] = m]
  BY <1>1, <1>2, <1>4 DEF TypeOK, Run
<1> HIDE DEF m
<1> QED
  BY <1>2, <1>3, <1>6, <1>7, OutsideStays, MoveTyped

LEMMA DecideTyped ==
    ASSUME PassesTyped, NEW p \in Pass, Decide(p)
    PROVE  PassesTyped'
<1>1. /\ UNCHANGED <<env, applied, gen, fails>> /\ TypeOK
      /\ pass[p].read \in Labels /\ evidence \in 1..MaxEvidence /\ observed \subseteq Labels
      /\ requests \subseteq Labels \X (1..MaxEvidence)
      /\ applied \subseteq (DOMAIN rows) \X {"writer", "machine", "reclaimed"}
      /\ gen \in Nat /\ seen \subseteq {Item(g) : g \in 0..gen}
      /\ Waits(pass[p].read) \subseteq Labels
      /\ rows \in Seq(Row) /\ Len(rows) \in Nat
  BY ReadTyped, ObservedTyped DEF Decide, PassesTyped, TypeOK
<1>2. Outside
  BY <1>1, OutsideStays
<1>3. CASE Returns(p) /\ observed' \subseteq Labels /\ UNCHANGED <<rows, owner, requests>>
  BY <1>1, <1>2, <1>3, StoredStays, ReturnTyped
<1>4. ASSUME NEW busy \in Joined(pass[p].read),
             Claims(p, busy, rows[busy]), UNCHANGED <<observed, requests>>
      PROVE  PassesTyped'
  <2>1. busy \in DOMAIN rows /\ rows[busy].read = pass[p].read /\ rows[busy] \in Row /\ busy \in Nat
    BY <1>1, <1>4, RowTyped DEF Joined
  <2>2. CASE owner[Projection] \in {Nobody, busy}
    BY <1>1, <1>4, <2>1, <2>2, ClaimTyped
  <2>3. CASE Returns(p) /\ Ends(busy, "superseded")
    BY <1>1, <1>2, <1>4, <2>1, <2>3, StoredEnds, ReturnTyped
  <2> QED
    BY <1>4, <2>2, <2>3 DEF Claims
<1>5. ASSUME NEW r, r = Len(rows) + 1, Len(rows) < MaxRows,
             Claims(p, r, NewRow(pass[p].read)), observed' = observed,
             requests' = requests \cup {<<pass[p].read, evidence>>}
      PROVE  PassesTyped'
  <2>1. requests' \subseteq Labels \X (1..MaxEvidence) /\ r <= MaxRows
    BY <1>1, <1>5, ConstantsTyped
  <2>2. CASE owner[Projection] \in {Nobody, r}
    <3>1. NewRow(pass[p].read) \in Row /\ NewRow(pass[p].read).read = pass[p].read
      BY <1>1, NewRowTyped
    <3> QED
      BY <1>1, <1>5, <2>1, <2>2, <3>1, ClaimTyped
  <2>3. CASE Returns(p) /\ Ends(r, "superseded")
    <3>1. UNCHANGED <<rows, owner>>
      BY <1>1, <1>5, <2>3 DEF Ends, Running
    <3> QED
      BY <1>1, <1>2, <1>5, <2>1, <2>3, <3>1, StoredStays, ReturnTyped
  <2> QED
    BY <1>5, <2>2, <2>3 DEF Claims
<1> QED
  BY <1>1, <1>3, <1>4, <1>5 DEF Decide

LEMMA InitTyped == Init => PassesTyped
<1> SUFFICES ASSUME Init
             PROVE  PassesTyped
  OBVIOUS
<1>1. /\ writer = "worker" /\ evidence \in 1..MaxEvidence /\ rows = <<>> /\ requests = {}
      /\ owner = [k \in Key |-> Nobody] /\ pass = [p \in Pass |-> NoRow]
      /\ observed = {} /\ applied = {} /\ gen = 0 /\ queued = {} /\ seen = {Item(0)}
      /\ worker = [at |-> "idle", phase |-> "qa"] /\ moves = 0 /\ fails = 0
  BY DEF Init
<1>2. labels \in Labels
  <2>1. PICK ph \in Phase : labels = [Workflow(ph, "blocked") EXCEPT !.codes = {Machine}]
    BY DEF Init
  <2> QED
    BY <2>1 DEF Workflow, Labels
<1>3. TypeOK
  <2>1. owner \in [Key -> 0..Worker] /\ rows \in Seq(Row) /\ Len(rows) = 0
    BY <1>1, ConstantsTyped DEF Nobody, Worker
  <2>2. pass \in [Pass -> Run] /\ \A p \in Pass : pass[p].row = 0
    BY <1>1, NoRowTyped DEF Nobody
  <2>3. seen \subseteq {Item(g) : g \in 0..gen}
    BY <1>1
  <2> QED
    BY <1>1, <1>2, <2>1, <2>2, <2>3, ConstantsTyped DEF TypeOK, Phase
<1> QED
  BY <1>1, <1>3, NoRowTyped DEF PassesTyped, At, WithRow

LEMMA StepTyped == PassesTyped /\ [Next]_vars => PassesTyped'
<1> SUFFICES ASSUME PassesTyped, [Next]_vars
             PROVE  PassesTyped'
  OBVIOUS
<1>1. TypeOK
  BY DEF PassesTyped
<1>2. ASSUME TypeOK', UNCHANGED <<rows, pass>>
      PROVE  PassesTyped'
  BY <1>2 DEF PassesTyped, At
<1>3. CASE Evidence \/ Relabel \/ Clock \/ Scan
  <2>1. UNCHANGED <<rows, pass>>
    BY <1>3 DEF Evidence, Relabel, Clock, Scan, store
  <2> QED
    BY <1>1, <1>2, <1>3, <2>1, EvidenceTyped, RelabelTyped, ClockTyped, ScanTyped
<1>4. CASE Works
  <2>1. UNCHANGED <<rows, pass>>
    BY <1>4 DEF Works, TakeItem, TakeReview, Start, End
  <2> QED
    BY <1>1, <1>2, <1>4, <2>1, TakeItemTyped, TakeReviewTyped, StartTyped, EndTyped DEF Works
<1>5. ASSUME NEW p \in Pass, Step(p)
      PROVE  PassesTyped'
  BY <1>5, LookTyped, DecideTyped, LiveTyped, BeforeTyped, PutTyped, AfterTyped, FinalTyped,
     ReclaimTyped, ReconcileTyped DEF Step
<1>6. ASSUME NEW p \in Pass, Fail(p)
      PROVE  PassesTyped'
  BY <1>6, FailTyped
<1>7. ASSUME NEW r \in DOMAIN rows, Expire(r)
      PROVE  PassesTyped'
  BY <1>7, ExpireTyped
<1>8. CASE UNCHANGED vars
  BY <1>8 DEF PassesTyped, TypeOK, At, vars, store, queue
<1> QED
  BY <1>3, <1>4, <1>5, <1>6, <1>7, <1>8 DEF Next

-----------------------------------------------------------------------------
(* Steps that leave rows, keys and passes alone *)

\* What the environment does to the labels is not what a recovery wrote, and a run of the
\* phase begins only with the projection free.
LEMMA AsideKeeps ==
    ASSUME BInv, UNCHANGED <<rows, owner, pass, applied>>, TypeOK', WorkerOK', PendingOK',
           Written' => Written,
           labels'.status = "running" => labels.status = "running"
    PROVE  BInv'
<1>1. KeysOK'
  BY DEF BInv, KeysOK, Running
<1>2. AuditsOK'
  BY DEF BInv, AuditsOK
<1>3. ASSUME NEW p \in Pass
      PROVE  PassOK(p)'
  BY DEF BInv, PassOK, At, Running, Owns
<1> QED
  BY <1>1, <1>2, <1>3 DEF BInv

LEMMA EvidenceKeeps == BInv /\ TypeOK' /\ Evidence => BInv'
<1> SUFFICES ASSUME BInv, TypeOK', Evidence
             PROVE  BInv'
  OBVIOUS
<1>1. WorkerOK' /\ PendingOK' /\ (Written' <=> Written)
  BY DEF BInv, WorkerOK, PendingOK, Written, Obliged, Evidence, store, queue
<1> QED
  BY <1>1, AsideKeeps DEF Evidence, store

LEMMA RelabelKeeps == BInv /\ TypeOK' /\ Relabel => BInv'
<1> SUFFICES ASSUME BInv, TypeOK', Relabel
             PROVE  BInv'
  OBVIOUS
<1>1. labels \in Labels
  BY DEF BInv, TypeOK
<1>2. labels' \in Labels /\ (labels'.status = "running" => labels.status = "running")
  <2>1. CASE labels' = [labels EXCEPT !.codes = IF Content \in @ THEN @ \ {Content}
                                               ELSE @ \cup {Content}]
    BY <1>1, <2>1 DEF Labels
  <2>2. CASE \E ph \in Phase : labels' = Workflow(ph, "todo")
    <3>1. PICK ph \in Phase : labels' = Workflow(ph, "todo")
      BY <2>2
    <3>2. labels'.status = "todo"
      BY <3>1 DEF Workflow
    <3> QED
      BY <3>1, <3>2, LabelsTyped
  <2>3. CASE labels' = [labels EXCEPT !.status = "blocked", !.codes = @ \cup {Machine}]
    BY <1>1, <2>3 DEF Labels
  <2> QED
    BY <2>1, <2>2, <2>3 DEF Relabel
<1>3. writer' = "person" /\ ~Written'
  BY DEF Relabel, Written
<1>4. WorkerOK' /\ PendingOK'
  BY <1>3 DEF BInv, WorkerOK, PendingOK, Relabel, store
<1> QED
  BY <1>2, <1>3, <1>4, AsideKeeps DEF Relabel, store

LEMMA ClockKeeps == BInv /\ TypeOK' /\ Clock => BInv'
<1> SUFFICES ASSUME BInv, TypeOK', Clock
             PROVE  BInv'
  OBVIOUS
<1>1. WorkerOK' /\ PendingOK' /\ (Written' <=> Written)
  BY DEF BInv, WorkerOK, PendingOK, Written, Obliged, Clock, env, queue
<1> QED
  BY <1>1, AsideKeeps DEF Clock, env

LEMMA ScanKeeps == BInv /\ TypeOK' /\ Scan => BInv'
<1> SUFFICES ASSUME BInv, TypeOK', Scan
             PROVE  BInv'
  OBVIOUS
<1>1. WorkerOK' /\ PendingOK' /\ (Written' <=> Written)
  BY DEF BInv, WorkerOK, PendingOK, Written, Scan, store
<1> QED
  BY <1>1, AsideKeeps DEF Scan, store

-----------------------------------------------------------------------------
(* Steps of the worker *)

\* A key that a worker takes was free, and those that it frees are its own.
LEMMA WorkerKeeps ==
    ASSUME BInv, UNCHANGED <<rows, pass, applied>>, TypeOK', WorkerOK', PendingOK',
           Written' => Written,
           \A k \in Key : \/ owner'[k] = owner[k]
                          \/ owner[k] \in {Nobody, Worker} /\ owner'[k] \in {Nobody, Worker},
           labels'.status = "running" => \/ labels.status = "running"
                                         \/ owner[Projection] = Nobody
    PROVE  BInv'
<1>1. KeysOK'
  BY DEF BInv, KeysOK, Running, Nobody, Worker
<1>2. AuditsOK'
  BY DEF BInv, AuditsOK
<1>3. ASSUME NEW p \in Pass
      PROVE  PassOK(p)'
  <2>1. ASSUME At(p, {"put"})
        PROVE  Owns(p)' /\ labels'.status # "running"
    <3>1. /\ pass[p].row \in DOMAIN rows /\ pass[p].row # Nobody /\ pass[p].row # Worker
          /\ \A k \in {pass[p].read.phase, Projection} : owner[k] = pass[p].row
          /\ labels.status # "running"
      BY <2>1, RowTyped DEF BInv, PassOK, At, WithRow, Running, Owns
    <3>2. pass[p].read.phase \in Key /\ Projection \in Key
      <4>1. rows[pass[p].row].read = pass[p].read
        BY <2>1 DEF BInv, PassOK, At, WithRow
      <4> QED
        BY <3>1, <4>1, RowTyped DEF BInv, Key
    <3> QED
      BY <3>1, <3>2 DEF Owns
  <2> QED
    BY <2>1 DEF BInv, PassOK, At, Running
<1> QED
  BY <1>1, <1>2, <1>3 DEF BInv

LEMMA TakeItemKeeps == BInv /\ TypeOK' /\ TakeItem => BInv'
<1> SUFFICES ASSUME BInv, TypeOK', TakeItem
             PROVE  BInv'
  OBVIOUS
<1>1. PICK item \in queued :
          /\ worker.at = "idle" /\ queued' = queued \ {item}
          /\ IF owner["qa"] = Nobody /\ labels.status = "todo" /\ labels.phase = "qa"
             THEN /\ worker' = [at |-> "taken", phase |-> "qa"]
                  /\ owner' = [owner EXCEPT !["qa"] = Worker]
             ELSE UNCHANGED <<worker, owner>>
  BY DEF TakeItem
<1>2. UNCHANGED <<labels, writer, evidence, rows, requests, observed, applied, gen, seen, pass, moves,
                  fails>>
  BY DEF TakeItem
<1>3. owner \in [Key -> 0..Worker] /\ Worker \in 0..Worker /\ "qa" \in Key
  BY ConstantsTyped DEF BInv, TypeOK, Worker, Key, Phase
<1>4. WorkerOK'
  BY <1>1 DEF BInv, WorkerOK
<1>5. PendingOK'
  <2>1. SUFFICES ASSUME Written
                 PROVE  \/ worker'.at = "taken" /\ worker'.phase = "qa"
                        \/ \E r \in DOMAIN rows : Obliged(r)'
    BY <1>2 DEF PendingOK, Written
  <2>2. CASE owner["qa"] = Nobody
    BY <1>1, <2>1, <2>2, LabelsTyped DEF Written
  <2>3. CASE owner["qa"] # Nobody
    <3>1. owner' = owner /\ owner["qa"] # Worker
      BY <1>1, <1>3, <2>3 DEF BInv, WorkerOK
    <3>2. Running(owner["qa"]) /\ rows[owner["qa"]].read.phase = "qa"
      BY <1>3, <2>3, <3>1 DEF BInv, KeysOK, Phase
    <3>3. PICK r \in DOMAIN rows : Obliged(r)
      BY <3>1, <3>2 DEF Obliged, Running
    <3> QED
      BY <1>2, <3>1, <3>3 DEF Obliged
  <2> QED
    BY <2>2, <2>3
<1>6. \A k \in Key : \/ owner'[k] = owner[k]
                     \/ owner[k] = Nobody /\ owner'[k] = Worker
  BY <1>1, <1>3
<1> QED
  BY <1>2, <1>4, <1>5, <1>6, WorkerKeeps DEF Written

LEMMA TakeReviewKeeps == BInv /\ TypeOK' /\ TakeReview => BInv'
<1> SUFFICES ASSUME BInv, TypeOK', TakeReview
             PROVE  BInv'
  OBVIOUS
<1>1. owner \in [Key -> 0..Worker] /\ Worker \in 0..Worker /\ "review" \in Key
  BY ConstantsTyped DEF BInv, TypeOK, Worker, Key, Phase
<1>2. WorkerOK'
  BY DEF WorkerOK, TakeReview
<1>3. ~Written /\ UNCHANGED <<labels, writer>>
  BY DEF TakeReview, Written, Recovered, Workflow
<1>4. \A k \in Key : \/ owner'[k] = owner[k]
                     \/ owner[k] = Nobody /\ owner'[k] = Worker
  BY <1>1 DEF TakeReview
<1> QED
  BY <1>2, <1>3, <1>4, WorkerKeeps DEF TakeReview, Written, PendingOK

LEMMA StartKeeps == BInv /\ TypeOK' /\ Start => BInv'
<1> SUFFICES ASSUME BInv, TypeOK', Start
             PROVE  BInv'
  OBVIOUS
<1>1. UNCHANGED <<evidence, rows, requests, observed, applied, gen, queued, seen, pass, moves, fails>>
  BY DEF Start, queue
<1>2. /\ owner \in [Key -> 0..Worker] /\ Worker \in 0..Worker /\ Projection \in Key
      /\ labels \in Labels /\ worker \in [at : {"idle", "taken", "started"}, phase : Phase]
  BY ConstantsTyped DEF BInv, TypeOK, Worker, Key
<1>3. CASE labels.status = "todo" /\ labels.phase = worker.phase
  <2>1. /\ owner[Projection] = Nobody
        /\ labels' = [labels EXCEPT !.status = "running"] /\ writer' = "worker"
        /\ worker' = [worker EXCEPT !.at = "started"]
        /\ owner' = [owner EXCEPT ![Projection] = Worker]
    BY <1>3 DEF Start
  <2>2. ~Written' /\ WorkerOK'
    BY <1>2, <2>1 DEF Written, WorkerOK
  <2>3. \A k \in Key : \/ owner'[k] = owner[k]
                       \/ owner[k] = Nobody /\ owner'[k] = Worker
    BY <1>2, <2>1
  <2> QED
    BY <1>1, <2>1, <2>2, <2>3, WorkerKeeps DEF PendingOK
<1>4. CASE ~(labels.status = "todo" /\ labels.phase = worker.phase)
  <2>1. Rest /\ Frees(Worker) /\ UNCHANGED <<labels, writer>> /\ worker.at = "taken"
    BY <1>4 DEF Start
  <2>2. /\ owner' \in [Key -> 0..Worker]
        /\ \A k \in Key : owner'[k] = IF owner[k] = Worker THEN Nobody ELSE owner[k]
    BY <2>1, FreesKeys DEF BInv
  <2>3. WorkerOK'
    BY <2>2, ConstantsTyped DEF WorkerOK, Nobody, Worker
  <2>4. PendingOK'
    <3>1. SUFFICES ASSUME Written
                   PROVE  \/ queued # {} \/ Item(gen) \notin seen
                          \/ \E r \in DOMAIN rows : Obliged(r)'
      BY <1>1, <2>1 DEF PendingOK, Written
    <3>2. worker.phase # "qa"
      BY <1>4, <3>1, LabelsTyped DEF Written
    <3>3. ASSUME NEW r \in DOMAIN rows, Obliged(r)
          PROVE  Obliged(r)'
      <4>1. rows[r].read.phase \in Key
        BY RowTyped DEF BInv, Key
      <4> QED
        BY <1>1, <2>2, <3>3, <4>1, ConstantsTyped DEF Obliged, Nobody, Worker
    <3> QED
      BY <3>1, <3>2, <3>3 DEF BInv, PendingOK
  <2> QED
    BY <1>1, <2>1, <2>2, <2>3, <2>4, WorkerKeeps DEF Written
<1> QED
  BY <1>3, <1>4

LEMMA EndKeeps == BInv /\ TypeOK' /\ End => BInv'
<1> SUFFICES ASSUME BInv, TypeOK', End
             PROVE  BInv'
  OBVIOUS
<1>1. /\ UNCHANGED <<evidence, rows, requests, observed, applied, queued, seen, pass, moves, fails>>
      /\ Rest /\ Frees(Worker) /\ worker.at = "started"
  BY DEF End, queue
<1>2. /\ owner' \in [Key -> 0..Worker]
      /\ \A k \in Key : owner'[k] = IF owner[k] = Worker THEN Nobody ELSE owner[k]
  BY <1>1, FreesKeys DEF BInv
<1>3. \/ UNCHANGED <<labels, writer, gen>>
      \/ /\ writer' = "worker" /\ gen' \in {gen, gen + 1}
         /\ \E status \in {"ended", "todo"} :
                \/ labels' = [labels EXCEPT !.status = status]
                \/ labels' = [labels EXCEPT !.status = status, !.phase = "qa"]
  BY DEF End
<1>4. labels' \in Labels /\ (labels'.status = "running" => labels.status = "running")
  <2>1. labels \in Labels
    BY DEF BInv, TypeOK
  <2> QED
    BY <1>3, <2>1 DEF Labels, Phase
<1>5. WorkerOK'
  BY <1>2, ConstantsTyped DEF WorkerOK, Nobody, Worker
<1>6. (Written' => Written /\ gen' = gen) /\ PendingOK'
  <2>1. Written' => Written /\ gen' = gen
    BY <1>3 DEF Written
  <2>2. ASSUME NEW r \in DOMAIN rows, Obliged(r)
        PROVE  Obliged(r)'
    <3>1. rows[r].read.phase \in Key
      BY RowTyped DEF BInv, Key
    <3> QED
      BY <1>1, <1>2, <2>2, <3>1, ConstantsTyped DEF Obliged, Nobody, Worker
  <2> QED
    BY <1>1, <2>1, <2>2 DEF BInv, PendingOK
<1> QED
  BY <1>1, <1>2, <1>4, <1>5, <1>6, WorkerKeeps

-----------------------------------------------------------------------------
(* Steps of the pass *)

LEMMA PassMoves ==
    ASSUME Alone, TypeOK, NEW p \in Pass, NEW m \in Run, pass' = [pass EXCEPT ![p] = m]
    PROVE  pass' \in [Pass -> Run] /\ \A q \in Pass : pass'[q] = m
BY DEF Alone, TypeOK

LEMMA GoesTyped ==
    ASSUME TypeOK, NEW p \in Pass, NEW at \in {"before", "put", "after", "final"}
    PROVE  LET m == [pass[p] EXCEPT !.at = at]
           IN m \in Run /\ m.at = at /\ m.read = pass[p].read /\ m.row = pass[p].row
BY DEF TypeOK, Run

\* A pass that returns has nothing to keep.
LEMMA ReturnsIdle ==
    ASSUME Alone, TypeOK, NEW p \in Pass, Returns(p)
    PROVE  /\ pass' \in [Pass -> Run]
           /\ \A q \in Pass : pass'[q].row = Nobody /\ PassOK(q)'
<1>1. pass' \in [Pass -> Run] /\ \A q \in Pass : pass'[q] = NoRow
  BY PassMoves, NoRowTyped DEF Returns
<1> QED
  BY <1>1, NoRowTyped DEF PassOK, At, WithRow

\* The generation grows with an audit, and a fresh one had no item.
LEMMA AppliesFresh ==
    ASSUME TypeOK, NEW r, NEW kind, Applies(r, kind)
    PROVE  /\ applied' \subseteq applied \cup {<<r, kind>>}
           /\ gen' = gen \/ Item(gen') \notin seen
           /\ <<r, kind>> \notin applied => Item(gen') \notin seen
<1>1. gen \in Nat /\ seen \subseteq {Item(g) : g \in 0..gen}
  BY DEF TypeOK
<1>2. Item(gen + 1) \notin seen
  BY <1>1 DEF Item
<1> QED
  BY <1>2 DEF Applies

\* A row that ends leaves no key, and its audits are about an ended one.
LEMMA EndedKeeps ==
    ASSUME TypeOK, KeysOK, AuditsOK, WorkerOK, NEW r \in DOMAIN rows, Running(r), Ended(r),
           worker' = worker,
           applied' \subseteq applied \cup {<<r, "machine">>, <<r, "reclaimed">>}
    PROVE  KeysOK' /\ AuditsOK' /\ WorkerOK'
<1>1. /\ DOMAIN rows' = DOMAIN rows /\ rows'[r].status # "running"
      /\ \A i \in DOMAIN rows : /\ i # r => rows'[i] = rows[i]
                                /\ rows'[i].status = "running" => rows'[i] = rows[i]
      /\ \A k \in Key : owner'[k] = IF owner[k] = r THEN Nobody ELSE owner[k]
  BY DEF Ended
<1>2. KeysOK'
  BY <1>1 DEF KeysOK, Running
<1>3. AuditsOK'
  BY <1>1 DEF AuditsOK
<1>4. WorkerOK'
  BY <1>1, ConstantsTyped DEF WorkerOK, Nobody, Worker
<1> QED
  BY <1>2, <1>3, <1>4

\* A step that leaves the rows and keys as they are.
LEMMA RowsStay ==
    ASSUME BInv, UNCHANGED <<rows, owner, worker>>,
           applied' \subseteq applied \cup ((DOMAIN rows) \X {"writer"})
    PROVE  KeysOK' /\ AuditsOK' /\ WorkerOK'
BY DEF BInv, KeysOK, AuditsOK, WorkerOK, Running

LEMMA LookKeeps ==
    ASSUME Alone, BInv, TypeOK', NEW p \in Pass, Look(p)
    PROVE  BInv'
<1>1. /\ labels.status = "blocked" /\ labels \in Labels
      /\ UNCHANGED <<env, rows, requests, owner, applied, gen, fails>>
  BY DEF Look, BInv, TypeOK
<1>2. ~Written
  BY <1>1, LabelsTyped DEF Written
<1>3. KeysOK' /\ AuditsOK' /\ WorkerOK' /\ PendingOK' /\ ~Written'
  BY <1>1, <1>2, RowsStay DEF env, queue, PendingOK, Written
<1> DEFINE m == [NoRow EXCEPT !.at = "decide", !.read = labels]
<1>4. CASE pass' = [pass EXCEPT ![p] = m] /\ observed' = observed
  <2>1. m \in Run /\ m.at = "decide" /\ m.read = labels /\ m.row = Nobody
    BY <1>1, NoRowTyped DEF Run
  <2> HIDE DEF m
  <2>2. pass' \in [Pass -> Run] /\ \A q \in Pass : pass'[q] = m
    BY <1>4, <2>1, PassMoves DEF BInv
  <2>3. \A q \in Pass : PassOK(q)'
    BY <1>1, <1>3, <2>1, <2>2 DEF PassOK, At, WithRow
  <2> QED
    BY <1>3, <2>3 DEF BInv
<1>5. CASE observed' = Waits(labels) /\ pass' = pass
  <2>1. TypeOK'
    BY <1>1, <1>5, ObservedTyped DEF BInv, TypeOK, env, queue
  <2>2. \A q \in Pass : PassOK(q)'
    BY <1>1, <1>3, <1>5 DEF BInv, PassOK, At, Running, Owns, env
  <2> QED
    BY <1>3, <2>1, <2>2 DEF BInv
<1> QED
  BY <1>4, <1>5 DEF Look

\* A pass gives up, and its row stays.
LEMMA GivesUp ==
    ASSUME Alone, BInv, TypeOK', NEW p \in Pass, Returns(p),
           UNCHANGED <<env, rows, owner, applied, gen, fails>>
    PROVE  BInv'
<1>1. KeysOK' /\ AuditsOK' /\ WorkerOK'
  BY RowsStay DEF env
<1>2. PendingOK'
  BY DEF BInv, PendingOK, Written, Obliged, env, queue
<1> QED
  BY <1>1, <1>2, ReturnsIdle DEF BInv

LEMMA DefersKeeps ==
    ASSUME Alone, BInv, TypeOK', NEW p \in Pass, Defers(p),
           UNCHANGED <<env, requests, applied, gen, fails>>
    PROVE  BInv'
BY GivesUp DEF Defers

LEMMA LiveKeeps ==
    ASSUME Alone, BInv, TypeOK', NEW p \in Pass, Live(p)
    PROVE  BInv'
<1>1. /\ pass[p].at = "live" /\ UNCHANGED <<env, requests, applied, gen, fails>>
      /\ ~Written /\ Running(pass[p].row) /\ rows[pass[p].row].read = pass[p].read
      /\ pass[p].read.status = "blocked"
  BY DEF Live, BInv, PassOK, At, WithRow
<1>2. CASE labels # pass[p].read
  <2>1. /\ Returns(p) /\ Ends(pass[p].row, "done")
    BY <1>2 DEF Live
  <2>2. Ended(pass[p].row) /\ pass[p].row \in DOMAIN rows
    BY <1>1, <2>1, EndsEnds, ReadTyped DEF BInv, Running
  <2>3. KeysOK' /\ AuditsOK' /\ WorkerOK'
    BY <1>1, <2>2, EndedKeeps DEF BInv, env
  <2>4. PendingOK'
    BY <1>1 DEF PendingOK, Written, env
  <2> QED
    BY <2>1, <2>3, <2>4, ReturnsIdle DEF BInv
<1>3. CASE Goes(p, "before") /\ UNCHANGED <<rows, owner, observed>>
  <2> DEFINE m == [pass[p] EXCEPT !.at = "before"]
  <2>1. /\ m \in Run /\ m.at = "before" /\ m.read = pass[p].read /\ m.row = pass[p].row
        /\ pass' = [pass EXCEPT ![p] = m]
    BY <1>3, GoesTyped DEF Goes, BInv, TypeOK
  <2> HIDE DEF m
  <2>2. pass' \in [Pass -> Run] /\ \A q \in Pass : pass'[q] = m
    BY <2>1, PassMoves DEF BInv
  <2>3. \A q \in Pass : PassOK(q)'
    BY <1>1, <1>3, <2>1, <2>2 DEF PassOK, At, Running, Written, env
  <2>4. KeysOK' /\ AuditsOK' /\ WorkerOK' /\ PendingOK'
    BY <1>1, <1>3, RowsStay DEF env, PendingOK, Written
  <2> QED
    BY <2>3, <2>4 DEF BInv
<1> QED
  BY <1>1, <1>2, <1>3, DefersKeeps DEF Live

LEMMA BeforeKeeps ==
    ASSUME Alone, BInv, TypeOK', NEW p \in Pass, Before(p)
    PROVE  BInv'
<1>1. /\ pass[p].at = "before" /\ UNCHANGED <<env, requests, applied, gen, fails>>
      /\ ~Written /\ Running(pass[p].row) /\ rows[pass[p].row].read = pass[p].read
      /\ pass[p].read.status = "blocked"
  BY DEF Before, BInv, PassOK, At, WithRow
<1>2. CASE Goes(p, "put") /\ labels = pass[p].read /\ Owns(p) /\ UNCHANGED <<rows, owner, observed>>
  <2> DEFINE m == [pass[p] EXCEPT !.at = "put"]
  <2>1. /\ m \in Run /\ m.at = "put" /\ m.read = pass[p].read /\ m.row = pass[p].row
        /\ pass' = [pass EXCEPT ![p] = m]
    BY <1>2, GoesTyped DEF Goes, BInv, TypeOK
  <2> HIDE DEF m
  <2>2. pass' \in [Pass -> Run] /\ \A q \in Pass : pass'[q] = m
    BY <2>1, PassMoves DEF BInv
  <2>3. ASSUME NEW q \in Pass
        PROVE  PassOK(q)'
    <3>1. q = p
      BY DEF Alone
    <3>2. Owns(q)' /\ labels'.status # "running"
      BY <1>1, <1>2, <2>1, <2>2, <3>1 DEF Owns, env
    <3> QED
      BY <1>1, <1>2, <2>1, <2>2, <3>2 DEF PassOK, At, Running, Written, env
  <2>4. KeysOK' /\ AuditsOK' /\ WorkerOK' /\ PendingOK'
    BY <1>1, <1>2, RowsStay DEF env, PendingOK, Written
  <2> QED
    BY <2>3, <2>4 DEF BInv
<1> QED
  BY <1>1, <1>2, DefersKeeps DEF Before

\* Labels that a pass writes, which still has the keys, oblige its row.
LEMMA WriteObliges ==
    ASSUME BInv, NEW p \in Pass, pass[p].at = "put", UNCHANGED <<rows, owner>>
    PROVE  \E r \in DOMAIN rows' : Obliged(r)'
<1>1. /\ Running(pass[p].row) /\ rows[pass[p].row].read = pass[p].read
      /\ owner[pass[p].read.phase] = pass[p].row
  BY DEF BInv, PassOK, At, WithRow, Owns
<1>2. pass[p].row \in DOMAIN rows /\ pass[p].row # Worker
  BY <1>1, RowTyped DEF BInv, Running
<1> QED
  BY <1>1, <1>2 DEF Obliged, Running

LEMMA PutKeeps ==
    ASSUME Alone, BInv, TypeOK', NEW p \in Pass, Put(p)
    PROVE  BInv'
<1>1. /\ pass[p].at = "put" /\ UNCHANGED <<evidence, worker, queue, moves, store, fails>>
      /\ labels' = Recovered /\ writer' = "pass" /\ Goes(p, "after")
      /\ Running(pass[p].row) /\ rows[pass[p].row].read = pass[p].read
  BY DEF Put, BInv, PassOK, At, WithRow
<1> DEFINE m == [pass[p] EXCEPT !.at = "after"]
<1>2. /\ m \in Run /\ m.at = "after" /\ m.read = pass[p].read /\ m.row = pass[p].row
      /\ pass' = [pass EXCEPT ![p] = m]
  BY <1>1, GoesTyped DEF Goes, BInv, TypeOK
<1> HIDE DEF m
<1>3. pass' \in [Pass -> Run] /\ \A q \in Pass : pass'[q] = m
  BY <1>2, PassMoves DEF BInv
<1>4. \A q \in Pass : PassOK(q)'
  BY <1>1, <1>2, <1>3 DEF PassOK, At, Running, store
<1>5. KeysOK' /\ AuditsOK' /\ WorkerOK'
  BY <1>1, RowsStay DEF store
<1>6. PendingOK'
  BY <1>1, WriteObliges DEF store, PendingOK
<1> QED
  BY <1>4, <1>5, <1>6 DEF BInv

LEMMA AfterKeeps ==
    ASSUME Alone, BInv, TypeOK', NEW p \in Pass, After(p)
    PROVE  BInv'
<1>1. /\ pass[p].at = "after" /\ UNCHANGED <<env, requests, fails>>
      /\ Running(pass[p].row) /\ rows[pass[p].row].read = pass[p].read
  BY DEF After, BInv, PassOK, At, WithRow
<1>2. CASE Applies(pass[p].row, "writer") /\ Goes(p, "final") /\ UNCHANGED <<rows, owner, observed>>
  <2> DEFINE m == [pass[p] EXCEPT !.at = "final"]
  <2>1. /\ m \in Run /\ m.at = "final" /\ m.read = pass[p].read /\ m.row = pass[p].row
        /\ pass' = [pass EXCEPT ![p] = m]
    BY <1>2, GoesTyped DEF Goes, BInv, TypeOK
  <2> HIDE DEF m
  <2>2. pass' \in [Pass -> Run] /\ \A q \in Pass : pass'[q] = m
    BY <2>1, PassMoves DEF BInv
  <2>3. /\ applied' \subseteq applied \cup {<<pass[p].row, "writer">>}
        /\ gen' = gen \/ Item(gen') \notin seen
    BY <1>2, AppliesFresh DEF BInv
  <2>4. \A q \in Pass : PassOK(q)'
    BY <1>1, <1>2, <2>1, <2>2 DEF PassOK, At, Running
  <2>5. KeysOK' /\ AuditsOK' /\ WorkerOK'
    BY <1>1, <1>2, <2>3, RowsStay DEF env, Running
  <2>6. PendingOK'
    BY <1>1, <1>2, <2>3 DEF BInv, PendingOK, Written, Obliged, env, queue
  <2> QED
    BY <2>4, <2>5, <2>6 DEF BInv
<1> QED
  BY <1>1, <1>2, DefersKeeps DEF After

\* An attempt ends with its row.
LEMMA AttemptEnds ==
    ASSUME Alone, BInv, TypeOK', NEW p \in Pass, NEW r \in DOMAIN rows, Running(r),
           NEW status \in {"done", "superseded"}, Returns(p), Ends(r, status),
           UNCHANGED env, PendingOK',
           applied' \subseteq applied \cup {<<r, "machine">>, <<r, "reclaimed">>}
    PROVE  BInv'
<1>1. Ended(r)
  BY EndsEnds, RowTyped DEF BInv
<1>2. KeysOK' /\ AuditsOK' /\ WorkerOK'
  BY <1>1, EndedKeeps DEF BInv, env
<1> QED
  BY <1>2, ReturnsIdle DEF BInv

LEMMA FinalKeeps ==
    ASSUME Alone, BInv, TypeOK', NEW p \in Pass, Final(p)
    PROVE  BInv'
<1>1. /\ pass[p].at = "final" /\ UNCHANGED <<env, requests, fails>> /\ Running(pass[p].row)
      /\ pass[p].row \in DOMAIN rows
  BY DEF Final, BInv, PassOK, At, WithRow, Running
<1>2. CASE labels = Recovered
  <2>1. /\ Returns(p) /\ Ends(pass[p].row, "done") /\ Applies(pass[p].row, "machine")
    BY <1>2 DEF Final
  <2>2. <<pass[p].row, "machine">> \notin applied
    BY <1>1 DEF BInv, AuditsOK, Running
  <2>3. applied' \subseteq applied \cup {<<pass[p].row, "machine">>} /\ Item(gen') \notin seen
    BY <2>1, <2>2, AppliesFresh DEF BInv
  <2>4. PendingOK'
    BY <1>1, <2>3 DEF PendingOK, env, queue
  <2> QED
    BY <1>1, <2>1, <2>3, <2>4, AttemptEnds
<1>3. CASE labels # Recovered
  BY <1>1, <1>3, DefersKeeps DEF Final
<1> QED
  BY <1>2, <1>3

LEMMA ReconcileKeeps ==
    ASSUME Alone, BInv, TypeOK', NEW p \in Pass, Reconcile(p)
    PROVE  BInv'
<1>1. /\ pass[p].at = "reconcile" /\ UNCHANGED <<env, requests, fails>> /\ Running(pass[p].row)
      /\ pass[p].row \in DOMAIN rows /\ Returns(p)
  BY DEF Reconcile, BInv, PassOK, At, WithRow, Running
<1>2. CASE labels = Recovered
  <2>1. /\ Ends(pass[p].row, "done") /\ Applies(pass[p].row, "reclaimed")
    BY <1>2 DEF Reconcile
  <2>2. <<pass[p].row, "reclaimed">> \notin applied
    BY <1>1 DEF BInv, AuditsOK, Running
  <2>3. applied' \subseteq applied \cup {<<pass[p].row, "reclaimed">>} /\ Item(gen') \notin seen
    BY <2>1, <2>2, AppliesFresh DEF BInv
  <2>4. PendingOK'
    BY <1>1, <2>3 DEF PendingOK, env, queue
  <2> QED
    BY <1>1, <2>1, <2>3, <2>4, AttemptEnds
<1>3. CASE labels # Recovered
  <2>1. Ends(pass[p].row, "superseded") /\ UNCHANGED <<applied, gen, observed>>
    BY <1>3 DEF Reconcile
  <2>2. PendingOK'
    BY <1>1, <1>3 DEF PendingOK, Written, env
  <2> QED
    BY <1>1, <2>1, <2>2, AttemptEnds
<1> QED
  BY <1>2, <1>3

LEMMA FailKeeps ==
    ASSUME Alone, BInv, TypeOK', NEW p \in Pass, Fail(p)
    PROVE  BInv'
<1>1. /\ UNCHANGED <<evidence, worker, queue, moves, rows, requests, owner, applied, gen>>
      /\ Returns(p)
      /\ \/ UNCHANGED <<labels, writer>>
         \/ pass[p].at = "put" /\ labels' = Recovered /\ writer' = "pass"
  BY DEF Fail
<1>2. KeysOK' /\ AuditsOK' /\ WorkerOK'
  BY <1>1, RowsStay
<1>3. PendingOK'
  <2>1. CASE UNCHANGED <<labels, writer>>
    BY <1>1, <2>1 DEF BInv, PendingOK, Written, Obliged, queue
  <2>2. CASE pass[p].at = "put"
    BY <1>1, <2>2, WriteObliges DEF PendingOK
  <2> QED
    BY <1>1, <2>1, <2>2
<1> QED
  BY <1>1, <1>2, <1>3, ReturnsIdle DEF BInv

\* A row is left by its pass and loses its keys; it stays to be reconciled.
LEMMA ExpireKeeps ==
    ASSUME Alone, BInv, TypeOK', NEW r \in DOMAIN rows, Expire(r)
    PROVE  BInv'
<1>1. /\ Running(r) /\ \A p \in Pass : pass[p].row # r
      /\ rows' = [rows EXCEPT ![r].live = FALSE] /\ Frees(r)
      /\ UNCHANGED <<env, requests, observed, applied, gen, pass, fails>>
  BY DEF Expire
<1>2. /\ rows' \in Seq(Row) /\ Len(rows') = Len(rows) /\ DOMAIN rows' = DOMAIN rows
      /\ \A i \in DOMAIN rows : i # r => rows'[i] = rows[i]
      /\ rows'[r].status = rows[r].status /\ rows'[r].read = rows[r].read
  <2>1. rows[r] \in Row
    BY RowTyped DEF BInv
  <2>2. [rows[r] EXCEPT !.live = FALSE] \in Row
    BY <2>1 DEF Row
  <2>3. rows' = [rows EXCEPT ![r] = [rows[r] EXCEPT !.live = FALSE]]
    BY <1>1
  <2> QED
    BY <2>1, <2>2, <2>3, RowChanges DEF BInv, Row
<1>3. /\ owner' \in [Key -> 0..Worker]
      /\ \A k \in Key : owner'[k] = IF owner[k] = r THEN Nobody ELSE owner[k]
  BY <1>1, FreesKeys DEF BInv
<1>4. KeysOK'
  <2>1. ASSUME NEW k \in Key, NEW o, o = owner'[k], o \notin {Nobody, Worker}
        PROVE  Running(o)' /\ (k \in Phase => rows'[o].read.phase = k)
    <3>1. o = owner[k] /\ o # r
      BY <1>3, <2>1
    <3>2. Running(o) /\ (k \in Phase => rows[o].read.phase = k)
      BY <2>1, <3>1 DEF BInv, KeysOK
    <3> QED
      BY <1>2, <3>1, <3>2 DEF Running
  <2> QED
    BY <2>1 DEF KeysOK, Nobody, Worker, Running
<1>5. AuditsOK' /\ WorkerOK'
  <2>1. \A i \in DOMAIN rows' : rows'[i].status = rows[i].status
    BY <1>2
  <2>2. AuditsOK'
    BY <1>1, <1>2, <2>1 DEF BInv, AuditsOK
  <2>3. WorkerOK'
    BY <1>1, <1>3, ConstantsTyped DEF BInv, WorkerOK, Nobody, Worker, env
  <2> QED
    BY <2>2, <2>3
<1>6. PendingOK'
  <2>1. ASSUME NEW i \in DOMAIN rows, Obliged(i)
        PROVE  i \in DOMAIN rows' /\ Obliged(i)'
    <3>1. rows'[i].status = "running" /\ rows'[i].read = rows[i].read /\ rows[i].read.phase \in Key
      BY <1>2, <2>1, RowTyped DEF BInv, Obliged, Key
    <3> QED
      BY <1>2, <1>3, <2>1, <3>1, ConstantsTyped DEF Obliged, Nobody, Worker
  <2> QED
    BY <1>1, <2>1 DEF BInv, PendingOK, Written, env, queue
<1>7. ASSUME NEW p \in Pass
      PROVE  PassOK(p)'
  <2>1. UNCHANGED <<labels, writer, pass>> /\ pass[p].row # r
    BY <1>1 DEF env
  <2>2. ASSUME Running(pass[p].row)
        PROVE  Running(pass[p].row)' /\ rows'[pass[p].row] = rows[pass[p].row]
    BY <1>2, <2>1, <2>2 DEF Running
  <2>3. ASSUME At(p, {"put"})
        PROVE  Owns(p)'
    <3>1. Owns(p) /\ pass[p].read.phase \in Key /\ Projection \in Key
      <4>1. pass[p].read \in Labels
        BY ReadTyped DEF BInv
      <4> QED
        BY <2>3, <4>1 DEF BInv, PassOK, Key, Labels
    <3> QED
      BY <1>3, <2>1, <3>1 DEF Owns
  <2> QED
    BY <2>1, <2>2, <2>3 DEF BInv, PassOK, At, Written
<1> QED
  BY <1>4, <1>5, <1>6, <1>7 DEF BInv

\* An expired row whose phase another has is over: that one will be reconciled.
LEMMA ReclaimSupersedes ==
    ASSUME Alone, BInv, TypeOK', NEW p \in Pass, NEW r \in DOMAIN rows,
           rows[r].status = "running", ~rows[r].live, owner[rows[r].read.phase] # Nobody,
           rows' = [rows EXCEPT ![r].status = "superseded"],
           UNCHANGED <<env, requests, owner, pass, observed, applied, gen, fails>>
    PROVE  BInv'
<1>1. rows[r] \in Row /\ rows[r].read.phase \in Key /\ rows[r].read.phase \in Phase /\ TypeOK
  BY RowTyped DEF BInv, Key
<1> DEFINE row == [rows[r] EXCEPT !.status = "superseded"]
<1>2. row \in Row /\ row.status = "superseded" /\ row.read = rows[r].read
      /\ rows' = [rows EXCEPT ![r] = row]
  BY <1>1 DEF Row
<1> HIDE DEF row
<1>3. /\ rows' \in Seq(Row) /\ Len(rows') = Len(rows) /\ DOMAIN rows' = DOMAIN rows
      /\ \A i \in DOMAIN rows : i # r => rows'[i] = rows[i]
      /\ rows'[r].status = "superseded" /\ rows'[r].read = rows[r].read
  BY <1>1, <1>2, RowChanges
<1>4. \A i : Running(i) => Running(i)' /\ rows'[i] = rows[i] /\ i # r
  BY <1>3 DEF Running
<1>5. KeysOK'
  BY <1>4 DEF BInv, KeysOK
<1>6. AuditsOK' /\ WorkerOK'
  BY <1>3 DEF BInv, AuditsOK, WorkerOK, env
<1>7. PendingOK'
  <2>1. ASSUME NEW i \in DOMAIN rows, Obliged(i), i # r
        PROVE  Obliged(i)'
    BY <1>3, <2>1 DEF Obliged
  <2>2. ASSUME Obliged(r)
        PROVE  \E i \in DOMAIN rows : Obliged(i)'
    <3>1. PICK i : i = owner[rows[r].read.phase]
      OBVIOUS
    <3>2. /\ Running(i) /\ rows[i].read.phase = rows[r].read.phase
          /\ i \in DOMAIN rows /\ i # r /\ rows'[i] = rows[i] /\ rows[i].status = "running"
      BY <1>1, <1>3, <1>4, <2>2, <3>1 DEF BInv, KeysOK, Obliged, Running
    <3>3. Obliged(i)'
      BY <2>2, <3>1, <3>2 DEF Obliged
    <3> QED
      BY <3>2, <3>3
  <2> QED
    BY <1>3, <2>1, <2>2 DEF BInv, PendingOK, Written, env, queue
<1>8. \A q \in Pass : PassOK(q)'
  BY <1>4 DEF BInv, PassOK, At, Written, Owns, env
<1> QED
  BY <1>5, <1>6, <1>7, <1>8 DEF BInv

LEMMA ReclaimKeeps ==
    ASSUME Alone, BInv, TypeOK', NEW p \in Pass, Reclaim(p)
    PROVE  BInv'
<1>1. PICK r \in DOMAIN rows :
          /\ pass[p].at = "idle" /\ rows[r].status = "running" /\ ~rows[r].live
          /\ IF owner[rows[r].read.phase] # Nobody
             THEN /\ rows' = [rows EXCEPT ![r].status = "superseded"]
                  /\ UNCHANGED <<owner, pass>>
             ELSE /\ rows' = [rows EXCEPT ![r].live = TRUE]
                  /\ owner' = [k \in Key |-> IF k \in {rows[r].read.phase, Projection} /\ owner[k] = Nobody
                                            THEN r ELSE owner[k]]
                  /\ pass' = [pass EXCEPT ![p] =
                                  IF owner[Projection] # Nobody THEN NoRow
                                  ELSE [at |-> "reconcile", read |-> rows[r].read, row |-> r]]
          /\ UNCHANGED <<env, requests, observed, applied, gen, fails>>
  BY DEF Reclaim
<1>2. CASE owner[rows[r].read.phase] # Nobody
  BY <1>1, <1>2, ReclaimSupersedes
<1>3. CASE owner[rows[r].read.phase] = Nobody
  <2>1. rows[r] \in Row /\ rows[r].read.phase \in Phase /\ rows[r].read \in Labels /\ TypeOK
        /\ r \in 1..MaxRows /\ r <= Len(rows) /\ r # Worker /\ r # Nobody /\ r \in 0..Worker
    <3>1. r \in 1..Len(rows) /\ Len(rows) \in Nat /\ Len(rows) <= MaxRows
      BY DEF BInv, TypeOK
    <3> QED
      BY <3>1, RowTyped, ConstantsTyped DEF BInv, Worker, Nobody
  <2> DEFINE row == [rows[r] EXCEPT !.live = TRUE]
  <2>2. row \in Row /\ row.status = "running" /\ row.live /\ row.read = rows[r].read
        /\ rows' = [rows EXCEPT ![r] = row]
    BY <1>1, <1>3, <2>1 DEF Row
  <2> HIDE DEF row
  <2>3. /\ rows' \in Seq(Row) /\ Len(rows') = Len(rows) /\ DOMAIN rows' = DOMAIN rows
        /\ \A i \in DOMAIN rows : i # r => rows'[i] = rows[i]
        /\ rows'[r] = row
    BY <2>1, <2>2, RowChanges
  <2>4. /\ Running(r)' /\ rows'[r].read = rows[r].read
        /\ \A i \in DOMAIN rows : Running(i) => Running(i)'
        /\ \A i \in DOMAIN rows : rows'[i].status = rows[i].status /\ rows'[i].read = rows[i].read
    BY <1>1, <2>2, <2>3 DEF Running
  <2>5. owner \in [Key -> 0..Worker]
    BY <2>1 DEF TypeOK
  <2>6. /\ owner' \in [Key -> 0..Worker]
        /\ \A k \in Key : \/ owner'[k] = owner[k]
                          \/ owner'[k] = r /\ owner[k] = Nobody /\ k \in {rows[r].read.phase, Projection}
    BY <1>1, <1>3, <2>1, <2>5
  <2> DEFINE m == IF owner[Projection] # Nobody THEN NoRow
                  ELSE [at |-> "reconcile", read |-> rows[r].read, row |-> r]
  <2>7. m \in Run /\ m.row <= Len(rows) /\ m.row \in Nat
        /\ (m.at = "idle" \/ (m.at = "reconcile" /\ m.row = r /\ m.read = rows[r].read))
    <3>1. CASE owner[Projection] # Nobody
      BY <2>1, <3>1, NoRowTyped DEF Nobody, TypeOK
    <3>2. CASE owner[Projection] = Nobody
      BY <2>1, <3>2 DEF Run
    <3> QED
      BY <3>1, <3>2
  <2>8. pass' = [pass EXCEPT ![p] = m]
    BY <1>1, <1>3
  <2> HIDE DEF m
  <2>9. pass' \in [Pass -> Run] /\ \A q \in Pass : pass'[q] = m
    BY <2>1, <2>7, <2>8, PassMoves
  <2>10. KeysOK'
    <3>1. ASSUME NEW k \in Key, NEW o, o = owner'[k], o \notin {Nobody, Worker}
          PROVE  Running(o)' /\ (k \in Phase => rows'[o].read.phase = k)
      <4>1. CASE o = owner[k]
        <5>1. Running(o) /\ o \in DOMAIN rows /\ (k \in Phase => rows[o].read.phase = k)
          BY <3>1, <4>1 DEF BInv, KeysOK, Running
        <5> QED
          BY <2>4, <5>1
      <4>2. CASE o = r /\ k \in {rows[r].read.phase, Projection}
        BY <2>4, <4>2 DEF Phase, Projection
      <4> QED
        BY <2>6, <3>1, <4>1, <4>2
    <3> QED
      BY <3>1 DEF KeysOK, Nobody, Worker, Running
  <2>11. AuditsOK' /\ WorkerOK'
    BY <1>1, <2>1, <2>3, <2>4, <2>6 DEF BInv, AuditsOK, WorkerOK, env
  <2>12. PendingOK'
    <3>1. ASSUME NEW i \in DOMAIN rows, Obliged(i)
          PROVE  Obliged(i)'
      <4>1. rows[i].read.phase \in Key
        BY <2>1, RowTyped DEF Key
      <4> QED
        BY <2>1, <2>4, <2>6, <3>1, <4>1 DEF Obliged, Worker
    <3> QED
      BY <1>1, <2>3, <3>1 DEF BInv, PendingOK, Written, env, queue
  <2>13. \A q \in Pass : PassOK(q)'
    BY <2>4, <2>7, <2>9 DEF PassOK, At, WithRow
  <2> QED
    BY <2>10, <2>11, <2>12, <2>13 DEF BInv
<1> QED
  BY <1>2, <1>3

\* Both keys are claimed for the phase of the row, which no other row has.
LEMMA ClaimsKeeps ==
    ASSUME Alone, BInv, TypeOK', NEW p \in Pass, pass[p].at = "decide",
           NEW r, NEW row \in Row, row.status = "running", row.live, row.read = pass[p].read,
           \/ Running(r) /\ row = rows[r]
           \/ r = Len(rows) + 1 /\ r <= MaxRows,
           Claims(p, r, row), owner[Projection] \in {Nobody, r},
           UNCHANGED <<env, applied, gen>>
    PROVE  BInv'
<1>1. /\ rows' = [i \in DOMAIN rows \cup {r} |-> IF i = r THEN row ELSE rows[i]]
      /\ owner' = [owner EXCEPT ![row.read.phase] = r, ![Projection] = r]
      /\ pass' = [pass EXCEPT ![p].at = "live", ![p].row = r]
  BY DEF Claims
<1>2. TypeOK /\ ~Written /\ pass[p].read.status = "blocked" /\ UNCHANGED <<labels, writer>>
      /\ row.read \in Labels /\ row.read.phase \in Phase
  <2>1. pass[p].read \in Labels
    BY ReadTyped DEF BInv
  <2> QED
    BY <2>1 DEF BInv, PassOK, At, env, Labels
<1>3. /\ rows' \in Seq(Row) /\ Len(rows') <= MaxRows
      /\ DOMAIN rows' = DOMAIN rows \cup {r} /\ rows'[r] = row
      /\ \A i \in DOMAIN rows : rows'[i] = rows[i] /\ i <= Len(rows')
      /\ r \in 1..MaxRows /\ r <= Len(rows')
  BY <1>1, <1>2, ClaimedRows DEF Running
<1>4. r \in 0..MaxRows /\ r \in 0..Worker /\ r # Worker
  BY <1>3, ConstantsTyped DEF Worker
<1>5. /\ owner' \in [Key -> 0..Worker]
      /\ \A k \in Key : owner'[k] = IF k \in {row.read.phase, Projection} THEN r ELSE owner[k]
  <2>1. owner \in [Key -> 0..Worker] /\ row.read.phase \in Key /\ Projection \in Key
    BY <1>2 DEF TypeOK, Key
  <2> QED
    BY <1>1, <1>4, <2>1
<1> DEFINE m == [pass[p] EXCEPT !.at = "live", !.row = r]
<1>6. /\ m \in Run /\ m.at = "live" /\ m.row = r /\ m.read = row.read
      /\ pass' = [pass EXCEPT ![p] = m]
  <2>1. pass[p] \in Run /\ pass \in [Pass -> Run]
    BY <1>2 DEF TypeOK
  <2> QED
    BY <1>1, <1>4, <2>1 DEF Run
<1> HIDE DEF m
<1>7. pass' \in [Pass -> Run] /\ \A q \in Pass : pass'[q] = m
  BY <1>2, <1>6, PassMoves
<1>8. Running(r)' /\ \A i \in DOMAIN rows : Running(i) => Running(i)'
  BY <1>3 DEF Running
<1>9. KeysOK'
  <2>1. ASSUME NEW k \in Key, NEW o, o = owner'[k], o \notin {Nobody, Worker}
        PROVE  Running(o)' /\ (k \in Phase => rows'[o].read.phase = k)
    <3>1. CASE k \in {row.read.phase, Projection}
      <4>1. o = r /\ (k \in Phase => k = row.read.phase)
        BY <1>5, <2>1, <3>1 DEF Phase, Projection
      <4> QED
        BY <1>3, <1>8, <4>1
    <3>2. CASE k \notin {row.read.phase, Projection}
      <4>1. o = owner[k]
        BY <1>5, <2>1, <3>2
      <4>2. Running(o) /\ o \in DOMAIN rows /\ (k \in Phase => rows[o].read.phase = k)
        BY <2>1, <4>1 DEF BInv, KeysOK, Running
      <4> QED
        BY <1>3, <1>8, <4>2
    <3> QED
      BY <3>1, <3>2
  <2> QED
    BY <2>1 DEF KeysOK, Nobody, Worker, Running
<1>10. AuditsOK'
  <2>1. ASSUME NEW i \in DOMAIN rows', rows'[i].status = "running"
        PROVE  <<i, "machine">> \notin applied /\ <<i, "reclaimed">> \notin applied
    <3>1. CASE i \in DOMAIN rows
      BY <1>3, <2>1, <3>1 DEF BInv, AuditsOK
    <3>2. CASE i \notin DOMAIN rows
      BY <1>2, <3>2 DEF TypeOK
    <3> QED
      BY <3>1, <3>2
  <2> QED
    BY <2>1 DEF AuditsOK
<1>11. WorkerOK'
  BY <1>4, <1>5 DEF BInv, WorkerOK, env, Worker
<1>12. PendingOK' /\ ~Written'
  BY <1>2 DEF PendingOK, Written
<1>13. \A q \in Pass : PassOK(q)'
  BY <1>2, <1>3, <1>6, <1>7, <1>8, <1>12 DEF PassOK, At
<1> QED
  BY <1>9, <1>10, <1>11, <1>12, <1>13 DEF BInv

LEMMA DecideKeeps ==
    ASSUME Alone, BInv, TypeOK', NEW p \in Pass, Decide(p)
    PROVE  BInv'
<1>1. /\ pass[p].at = "decide" /\ UNCHANGED <<env, applied, gen, fails>> /\ TypeOK
      /\ pass[p].read \in Labels /\ rows \in Seq(Row) /\ Len(rows) \in Nat
  BY ReadTyped DEF Decide, BInv, TypeOK
<1>2. CASE Returns(p) /\ UNCHANGED <<rows, owner>>
  BY <1>1, <1>2, GivesUp
<1>3. ASSUME NEW busy \in Joined(pass[p].read), Claims(p, busy, rows[busy])
      PROVE  BInv'
  <2>1. Running(busy) /\ busy \in DOMAIN rows /\ rows[busy].read = pass[p].read
    BY DEF Joined
  <2>2. rows[busy] \in Row /\ rows[busy].status = "running" /\ rows[busy].live
    BY <1>1, <2>1, RowTyped DEF Running
  <2>3. CASE owner[Projection] \in {Nobody, busy}
    BY <1>1, <1>3, <2>1, <2>2, <2>3, ClaimsKeeps
  <2>4. CASE Returns(p) /\ Ends(busy, "superseded")
    <3>1. PendingOK'
      BY <1>1 DEF BInv, PassOK, At, PendingOK, Written, env
    <3> QED
      BY <1>1, <2>1, <2>4, <3>1, AttemptEnds
  <2> QED
    BY <1>3, <2>3, <2>4 DEF Claims
<1>4. ASSUME NEW r, r = Len(rows) + 1, Len(rows) < MaxRows, Claims(p, r, NewRow(pass[p].read))
      PROVE  BInv'
  <2>1. CASE owner[Projection] \in {Nobody, r}
    <3>1. /\ NewRow(pass[p].read) \in Row /\ NewRow(pass[p].read).read = pass[p].read
          /\ NewRow(pass[p].read).status = "running" /\ NewRow(pass[p].read).live
      BY <1>1, NewRowTyped
    <3>2. r <= MaxRows
      BY <1>1, <1>4, ConstantsTyped
    <3> QED
      BY <1>1, <1>4, <2>1, <3>1, <3>2, ClaimsKeeps
  <2>2. CASE Returns(p) /\ Ends(r, "superseded")
    <3>1. UNCHANGED <<rows, owner>>
      BY <1>1, <1>4, <2>2 DEF Ends, Running
    <3> QED
      BY <1>1, <2>2, <3>1, GivesUp
  <2> QED
    BY <1>4, <2>1, <2>2 DEF Claims
<1> QED
  BY <1>2, <1>3, <1>4 DEF Decide

-----------------------------------------------------------------------------
(* The specification *)

LEMMA InitOK == Alone /\ Init => BInv
<1> SUFFICES ASSUME Alone, Init
             PROVE  BInv
  OBVIOUS
<1>1. /\ writer = "worker" /\ evidence \in 1..MaxEvidence /\ rows = <<>> /\ requests = {}
      /\ owner = [k \in Key |-> Nobody] /\ pass = [p \in Pass |-> NoRow]
      /\ observed = {} /\ applied = {} /\ gen = 0 /\ queued = {} /\ seen = {Item(0)}
      /\ worker = [at |-> "idle", phase |-> "qa"] /\ moves = 0 /\ fails = 0
  BY DEF Init
<1>2. TypeOK
  BY InitTyped DEF PassesTyped
<1>3. KeysOK /\ AuditsOK /\ WorkerOK /\ PendingOK
  BY <1>1, ConstantsTyped DEF KeysOK, AuditsOK, WorkerOK, PendingOK, Written, Nobody, Worker
<1>4. \A p \in Pass : PassOK(p)
  BY <1>1, NoRowTyped DEF PassOK, At, WithRow
<1> QED
  BY <1>2, <1>3, <1>4 DEF BInv

LEMMA StutterKeeps == BInv /\ TypeOK' /\ UNCHANGED vars => BInv'
<1> SUFFICES ASSUME BInv, TypeOK', UNCHANGED vars
             PROVE  BInv'
  OBVIOUS
<1>1. WorkerOK' /\ PendingOK' /\ (Written' <=> Written)
  BY DEF BInv, WorkerOK, PendingOK, Written, Obliged, vars, store, queue
<1> QED
  BY <1>1, AsideKeeps DEF vars, store

LEMMA StepKeeps == Alone /\ BInv /\ [Next]_vars => BInv'
<1> SUFFICES ASSUME Alone, BInv, [Next]_vars
             PROVE  BInv'
  OBVIOUS
<1>1. TypeOK'
  <2>1. PassesTyped
    BY DEF BInv, PassesTyped, PassOK, Running
  <2> QED
    BY <2>1, StepTyped DEF PassesTyped
<1>2. CASE Evidence \/ Relabel \/ Clock \/ Scan
  BY <1>2, <1>1, EvidenceKeeps, RelabelKeeps, ClockKeeps, ScanKeeps
<1>3. CASE Works
  BY <1>3, <1>1, TakeItemKeeps, TakeReviewKeeps, StartKeeps, EndKeeps DEF Works
<1>4. ASSUME NEW p \in Pass, Step(p)
      PROVE  BInv'
  BY <1>4, <1>1, LookKeeps, DecideKeeps, LiveKeeps, BeforeKeeps, PutKeeps, AfterKeeps, FinalKeeps,
     ReclaimKeeps, ReconcileKeeps DEF Step
<1>5. ASSUME NEW p \in Pass, Fail(p)
      PROVE  BInv'
  BY <1>5, <1>1, FailKeeps
<1>6. ASSUME NEW r \in DOMAIN rows, Expire(r)
      PROVE  BInv'
  BY <1>6, <1>1, ExpireKeeps
<1> QED
  BY <1>2, <1>3, <1>4, <1>5, <1>6, <1>1, StutterKeeps DEF Next

LEMMA Invariant == ASSUME Alone PROVE Spec => []BInv
<1>1. Init => BInv
  BY InitOK
<1>2. BInv /\ [Next]_vars => BInv'
  BY StepKeeps
<1> QED
  BY <1>1, <1>2, PTL DEF Spec

\* The variables keep their types, for any number of passes at a time: rows and audits only of
\* what was claimed, items only of generations that there were (_recover_blocker, scan_once).
THEOREM TypeCorrect == Spec => []TypeOK
<1>1. Init => PassesTyped
  BY InitTyped
<1>2. PassesTyped /\ [Next]_vars => PassesTyped'
  BY StepTyped
<1>3. PassesTyped => TypeOK
  BY DEF PassesTyped
<1> QED
  BY <1>1, <1>2, <1>3, PTL DEF Spec

\* With one pass, QA that a recovery made ready never waits with its item spent, however the
\* recovery failed, expired or was superseded: as long as a row of a recovery runs, its end
\* makes a generation (_recover_blocker of blocker_recovery.py, _recover of
\* external_recovery.py), and each generation is queued once (scan_once of
\* queue_discovery.py).
THEOREM RecoveredQueued == ASSUME Alone PROVE Spec => []RecoveredIsQueued
<1>1. BInv => RecoveredIsQueued
  BY DEF BInv, RecoveredIsQueued, Quiet, PendingOK, Written, Obliged
<1> QED
  BY <1>1, Invariant, PTL

\* With one pass, the labels that a recovery overwrites are never those of a running phase:
\* from its last verification to its write it holds the projection, which a worker needs
\* before it writes RUNNING (write_labels of state_writer.py).
THEOREM WorkerUndisturbed == ASSUME Alone PROVE Spec => UndisturbedWorker
<1> DEFINE Undisturbed == \A p \in Pass : pass[p].at = "put" /\ pass'[p].at # "put"
                                          /\ labels' # labels => labels.status # "running"
<1>1. BInv => Undisturbed
  BY DEF BInv, PassOK, At
<1>2. Spec => [][Undisturbed]_vars
  BY <1>1, Invariant, PTL DEF Spec
<1> QED
  BY <1>2 DEF UndisturbedWorker

=============================================================================
