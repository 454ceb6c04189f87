------------------------- MODULE NativeWorkerProofs -------------------------
(***************************************************************************)
(* Theorems about NativeWorker, for every set of deliveries and leases,    *)
(* every phase, every bound on retries and every combination of faults.    *)
(***************************************************************************)
EXTENDS NativeWorker, TLAPS

-----------------------------------------------------------------------------
(* The inductive invariant.                                                *)

\* What a run carries at the step it is at: reports to publish, no result
\* while it still has to start the agent, a label write with the step after
\* it, a transition to make, a comment to post.
Fits(r, step) ==
    /\ step # "idle" => r.e \in Event
    /\ step \in {"publish", "commit"} => r.result.status = "reports"
    /\ step \in {"start", "started", "agent"} => r.result = NoResult
    /\ step \in {"project", "verify", "put", "verified"} =>
           /\ r.to \in Route
           /\ r.then \in {"finish", "started", "moved"}
           /\ r.then = "started" => r.result = NoResult
    /\ step = "post" =>
           /\ r.then \in {"policy", "marker", "move", "refused"}
           /\ r.note \in Comment
    /\ \/ step \in {"handoff", "policy", "marker", "move"}
       \/ step = "post" /\ r.then # "refused"
       => r.trans \in Route

RunOK(r) == r \in Run /\ Fits(r, r.at)

RunsOK == run \in [Lease -> Run] /\ \A l \in Lease : RunOK(run[l])

\* The run that holds its event's lease has the result its event has saved.
SavedIsRun == \A l \in Lease : run[l].at # "idle" /\ HoldsLease(run[l].e, l)
                 => saved[run[l].e].result = run[l].result

IInv == TypeOK /\ RunsOK /\ SavedIsRun

-----------------------------------------------------------------------------
(* Records.                                                                *)

\* A run that has not begun, and one that has just been claimed.
LEMMA NoRunOK == RunOK(NoRun)
BY DEF RunOK, Fits, NoRun, Run, NoSave, Save, Result, Commit, Step

LEMMA ClaimedOK ==
    ASSUME NEW e \in Event, NEW s \in Save
    PROVE  RunOK([NoRun EXCEPT !.e = e, !.at = "begin", !.cp = s, !.result = s.result])
BY DEF RunOK, Fits, NoRun, Run, NoSave, Save, Result, Commit, Step

\* A transition is a route.
LEMMA TransitionIsRoute ==
    ASSUME NEW l \in Lease, run[l] \in Run PROVE Transitions(l) \subseteq Route
BY DEF Transitions, Targets, Run, Save, Route

\* A comment has the type of a comment.
LEMMA NoteIsComment ==
    ASSUME NEW l \in Lease, RunOK(run[l]), run[l].at \in {"handoff", "policy", "marker"}
    PROVE  Note(l) \in Comment /\ AfterNote(l) \in {"policy", "marker", "move"}
<1>1. run[l].result \in Result /\ run[l].sha \in Commit /\ run[l].trans \in Route
  BY DEF RunOK, Fits, Run
<1>2. Note(l) \in Comment
  BY <1>1 DEF Note, Comment, At
<1>3. AfterNote(l) \in {"policy", "marker", "move"}
  BY DEF AfterNote
<1> QED
  BY <1>2, <1>3

\* One run takes a step, or none does.
LEMMA OneRun ==
    ASSUME RunsOK, NEW l \in Lease, NEW r, RunOK(r), run' = [run EXCEPT ![l] = r]
    PROVE  RunsOK'
<1>1. r \in Run
  BY DEF RunOK
<1>2. run' \in [Lease -> Run]
  BY <1>1 DEF RunsOK
<1>3. ASSUME NEW m \in Lease PROVE RunOK(run'[m])
  BY <1>3 DEF RunsOK
<1> QED
  BY <1>2, <1>3 DEF RunsOK

LEMMA NoRunMoves == RunsOK /\ UNCHANGED run => RunsOK'
BY DEF RunsOK, RunOK

-----------------------------------------------------------------------------
(* Every run stays well formed.                                            *)

\* A run that goes on fits its next step if it did before the step.
LEMMA Proceeds ==
    ASSUME NEW r \in Run, NEW step \in Step, Fits(r, step)
    PROVE  RunOK([r EXCEPT !.at = step])
<1> DEFINE q == [r EXCEPT !.at = step]
<1>1. /\ q \in Run
      /\ q.at = step /\ q.e = r.e /\ q.result = r.result /\ q.to = r.to
      /\ q.then = r.then /\ q.trans = r.trans /\ q.note = r.note
  BY DEF Run
<1> HIDE DEF q
<1>2. RunOK(q)
  BY <1>1 DEF RunOK, Fits
<1> QED
  BY <1>2 DEF q

LEMMA GoesOK ==
    ASSUME RunsOK, NEW l \in Lease, NEW step \in Step, Goes(l, step), Fits(run[l], step)
    PROVE  RunsOK'
<1>1. RunOK([run[l] EXCEPT !.at = step])
  BY Proceeds DEF RunsOK, RunOK
<1>2. run' = [run EXCEPT ![l] = [run[l] EXCEPT !.at = step]]
  BY DEF Goes
<1> QED
  BY <1>1, <1>2, OneRun

\* A label write begins.
LEMMA WritesOK ==
    ASSUME RunsOK, NEW l \in Lease, NEW seen \in Route, NEW to \in Route,
           NEW then \in {"finish", "started", "moved"}, Writes(l, seen, to, then),
           run[l].e \in Event, then = "started" => run[l].result = NoResult
    PROVE  RunsOK'
<1> DEFINE q == [run[l] EXCEPT !.at = "project", !.seen = seen, !.to = to, !.then = then]
<1>a. run[l] \in Run
  BY DEF RunsOK
<1>1. /\ q \in Run
      /\ q.at = "project" /\ q.e = run[l].e /\ q.result = run[l].result
      /\ q.to = to /\ q.then = then
  <2>1. "project" \in Step /\ then \in Step
    BY DEF Step
  <2> QED
    BY <1>a, <2>1 DEF Run
<1>2. run' = [run EXCEPT ![l] = q]
  BY DEF Writes
<1> HIDE DEF q
<1>3. RunOK(q)
  BY <1>1 DEF RunOK, Fits
<1> QED
  BY <1>2, <1>3, OneRun

\* A comment is about to be posted.
LEMMA SaysOK ==
    ASSUME RunsOK, NEW l \in Lease, NEW note \in Comment,
           NEW then \in {"policy", "marker", "move", "refused"}, Says(l, note, then),
           run[l].e \in Event, then # "refused" => run[l].trans \in Route
    PROVE  RunsOK'
<1> DEFINE q == [run[l] EXCEPT !.at = "post", !.note = note, !.then = then]
<1>a. run[l] \in Run
  BY DEF RunsOK
<1>1. /\ q \in Run
      /\ q.at = "post" /\ q.e = run[l].e /\ q.trans = run[l].trans
      /\ q.note = note /\ q.then = then
  <2>1. "post" \in Step /\ then \in Step
    BY DEF Step
  <2> QED
    BY <1>a, <2>1 DEF Run
<1>2. run' = [run EXCEPT ![l] = q]
  BY DEF Says
<1> HIDE DEF q
<1>3. RunOK(q)
  BY <1>1 DEF RunOK, Fits
<1> QED
  BY <1>2, <1>3, OneRun

LEMMA RunsStep == TypeOK /\ RunsOK /\ [Next]_vars => RunsOK'
<1> SUFFICES ASSUME TypeOK, RunsOK, [Next]_vars PROVE RunsOK'
  OBVIOUS
<1>a. ASSUME NEW l \in Lease PROVE RunOK(run[l]) /\ run[l] \in Run
  BY DEF RunsOK, RunOK
<1>1. ASSUME NEW e \in Event, NEW l \in Lease, Claim(e, l) PROVE RunsOK'
  <2>1. saved[e] \in Save
    BY DEF TypeOK
  <2> QED
    BY <1>1, <2>1, ClaimedOK, OneRun DEF Claim
<1>2. ASSUME NEW l \in Lease, Ends(l) PROVE RunsOK'
  <2>1. run' = [run EXCEPT ![l] = NoRun]
    BY <1>2 DEF Ends, Stale, Refused, LosesLease, Fault, Crash, Shutdown, Raises
  <2> QED
    BY <2>1, NoRunOK, OneRun
<1>3. ASSUME NEW l \in Lease, Runs(l) PROVE RunsOK'
  <2>a. RunOK(run[l]) /\ run[l] \in Run
    BY <1>a
  <2>1. CASE Begin(l)
    BY <2>1, <2>a, GoesOK DEF Begin, RunOK, Fits, At, Step
  <2>2. CASE Look(l)
    <3>1. AfterGate(l) \in {"start", "publish", "plan"}
      BY DEF AfterGate, AfterResult
    <3>2. Fits(run[l], AfterGate(l)) /\ Fits(run[l], "refuse")
      BY <2>2, <2>a DEF Look, RunOK, Fits, At, AfterGate, AfterResult
    <3>3. CASE run' = [run EXCEPT ![l].at = "refuse"]
      BY <2>a, <3>2, <3>3, GoesOK DEF Goes, Step
    <3>4. CASE run' = [run EXCEPT ![l].at = AfterGate(l), ![l].live = route]
      <4> DEFINE q == [run[l] EXCEPT !.live = route]
      <4>1. /\ q \in Run
            /\ q.e = run[l].e /\ q.result = run[l].result /\ q.to = run[l].to
            /\ q.then = run[l].then /\ q.trans = run[l].trans /\ q.note = run[l].note
        BY <2>a DEF Run, TypeOK
      <4>2. run' = [run EXCEPT ![l] = [q EXCEPT !.at = AfterGate(l)]]
        BY <2>a, <3>4 DEF Run
      <4> HIDE DEF q
      <4>3. Fits(q, AfterGate(l))
        BY <3>2, <4>1 DEF Fits
      <4>4. RunOK([q EXCEPT !.at = AfterGate(l)])
        BY <3>1, <4>1, <4>3, Proceeds DEF Step
      <4> QED
        BY <4>2, <4>4, OneRun
    <3> QED
      BY <2>2, <3>3, <3>4 DEF Look
  <2>3. CASE Refuse(l)
    <3>1. Gate \in Comment
      BY DEF Gate, Comment, Commit
    <3> QED
      BY <2>3, <2>a, <3>1, SaysOK DEF Refuse, RunOK, Fits, At
  <2>b. CASE Block(l)
    BY <2>b, <2>a, WritesOK DEF Block, RunOK, Fits, At, Route
  <2>4. CASE Start(l)
    <3>1. CASE run[l].live = "running"
      BY <2>4, <2>a, <3>1, GoesOK DEF Start, RunOK, Fits, At, Step
    <3>2. CASE run[l].live # "running"
      BY <2>4, <2>a, <3>2, WritesOK DEF Start, RunOK, Fits, At, Route
    <3> QED
      BY <3>1, <3>2
  <2>5. CASE Started(l)
    BY <2>5, <2>a, GoesOK DEF Started, RunOK, Fits, At, Step
  <2>6. ASSUME NEW s \in {"success", "reports", "failed", "blocked"}, AgentReturns(l, s)
        PROVE  RunsOK'
    <3> DEFINE result == [status |-> s, by |-> l]
               q == [run[l] EXCEPT !.at = AfterResult(s), !.result = result]
    <3>1. result \in Result /\ AfterResult(s) \in {"publish", "plan"}
      BY DEF Result, AfterResult
    <3>2. /\ q \in Run
          /\ q.at = AfterResult(s) /\ q.e = run[l].e /\ q.result.status = s
      <4>1. AfterResult(s) \in Step
        BY <3>1 DEF Step
      <4> HIDE DEF result
      <4>2. q \in Run /\ q.at = AfterResult(s) /\ q.e = run[l].e /\ q.result = result
        BY <2>a, <3>1, <4>1 DEF Run
      <4> QED
        BY <4>2 DEF result
    <3>3. run' = [run EXCEPT ![l] = q]
      BY <2>6 DEF AgentReturns
    <3>4. run[l].e \in Event
      BY <2>6, <2>a DEF AgentReturns, At, RunOK, Fits
    <3> HIDE DEF q
    <3>5. RunOK(q)
      BY <3>1, <3>2, <3>4 DEF RunOK, Fits, AfterResult
    <3> QED
      BY <3>3, <3>5, OneRun
  <2>7. CASE Project(l)
    BY <2>7, <2>a, GoesOK DEF Project, RunOK, Fits, At, Step
  <2>8. CASE VerifyBefore(l)
    BY <2>8, <2>a, GoesOK DEF VerifyBefore, RunOK, Fits, At, Step
  <2>9. CASE Put(l)
    BY <2>9, <2>a, GoesOK DEF Put, RunOK, Fits, At, Step
  <2>10. CASE VerifyAfter(l)
    <3> DEFINE q == [run[l] EXCEPT !.at = run[l].then, !.seen = "none", !.to = "none",
                                   !.then = "none"]
    <3>1. /\ run[l].then \in {"finish", "started", "moved"} /\ run[l].e \in Event
          /\ run[l].then = "started" => run[l].result = NoResult
      BY <2>10, <2>a DEF VerifyAfter, At, RunOK, Fits
    <3>2. /\ q \in Run
          /\ q.at = run[l].then /\ q.e = run[l].e /\ q.result = run[l].result
      <4>1. run[l].then \in Step
        BY <3>1 DEF Step
      <4>2. q \in Run
        BY <2>a, <4>1, ZenonT(40) DEF Run
      <4> QED
        BY <2>a, <4>2 DEF Run
    <3>3. run' = [run EXCEPT ![l] = q]
      BY <2>10 DEF VerifyAfter
    <3> HIDE DEF q
    <3>4. RunOK(q)
      BY <3>1, <3>2 DEF RunOK, Fits
    <3> QED
      BY <3>3, <3>4, OneRun
  <2>11. CASE Publish(l)
    BY <2>11, <2>a, GoesOK DEF Publish, RunOK, Fits, At, Step
  <2>12. CASE CommitReports(l)
    <3>1. run[l].result.by \in Lease
      BY <2>12, <2>a DEF CommitReports, At, RunOK, Fits, Run, Result, NoResult
    <3>2. head' \in Commit
      BY <2>12, <3>1 DEF CommitReports, TypeOK, Commit
    <3> DEFINE q == [run[l] EXCEPT !.at = "published", !.sha = head']
    <3>3. q \in Run /\ q.at = "published" /\ q.e = run[l].e
      <4>1. "published" \in Step
        BY DEF Step
      <4> QED
        BY <2>a, <3>2, <4>1 DEF Run
    <3>4. run' = [run EXCEPT ![l] = q] /\ run[l].e \in Event
      BY <2>12, <2>a DEF CommitReports, At, RunOK, Fits
    <3> HIDE DEF q
    <3>5. RunOK(q)
      BY <3>3, <3>4 DEF RunOK, Fits
    <3> QED
      BY <3>4, <3>5, OneRun
  <2>13. CASE Published(l)
    BY <2>13, <2>a, GoesOK DEF Published, RunOK, Fits, At, Step
  <2>14. CASE Plan(l)
    <3>1. PICK t \in Route : run' = [run EXCEPT ![l].at = "handoff", ![l].live = route,
                                                ![l].trans = t]
      BY <2>14, <2>a, TransitionIsRoute DEF Plan
    <3> DEFINE q == [run[l] EXCEPT !.at = "handoff", !.live = route, !.trans = t]
    <3>2. q \in Run /\ q.at = "handoff" /\ q.e = run[l].e /\ q.trans = t
      <4>1. "handoff" \in Step /\ route \in Route
        BY DEF Step, TypeOK
      <4> QED
        BY <2>a, <4>1 DEF Run
    <3>3. run' = [run EXCEPT ![l] = q] /\ run[l].e \in Event
      BY <2>14, <2>a, <3>1 DEF Plan, At, RunOK, Fits
    <3> HIDE DEF q
    <3>4. RunOK(q)
      BY <3>2, <3>3 DEF RunOK, Fits
    <3> QED
      BY <3>3, <3>4, OneRun
  <2>15. CASE NotePosts(l)
    <3>1. Note(l) \in Comment /\ AfterNote(l) \in {"policy", "marker", "move"}
      BY <2>15, <2>a, NoteIsComment DEF NotePosts
    <3>2. run[l].e \in Event /\ run[l].trans \in Route
      BY <2>15, <2>a DEF NotePosts, RunOK, Fits
    <3>3. CASE Posted(l)
      <4>1. Fits(run[l], AfterNote(l)) /\ AfterNote(l) \in Step
        BY <3>1, <3>2 DEF Fits, Step
      <4> QED
        BY <2>15, <3>3, <4>1, GoesOK DEF NotePosts
    <3>4. CASE ~Posted(l)
      BY <2>15, <3>1, <3>2, <3>4, SaysOK DEF NotePosts
    <3> QED
      BY <3>3, <3>4
  <2>16. CASE Post(l)
    <3> DEFINE q == [run[l] EXCEPT !.at = run[l].then, !.note = <<>>, !.then = "none"]
    <3>1. /\ run[l].then \in {"policy", "marker", "move", "refused"}
          /\ run[l].e \in Event
          /\ run[l].then # "refused" => run[l].trans \in Route
      BY <2>16, <2>a DEF Post, At, RunOK, Fits
    <3>2. q \in Run /\ q.at = run[l].then /\ q.e = run[l].e /\ q.trans = run[l].trans
      <4>1. run[l].then \in Step
        BY <3>1 DEF Step
      <4>2. q \in Run
        BY <2>a, <4>1, ZenonT(40) DEF Run
      <4> QED
        BY <2>a, <4>2 DEF Run
    <3>3. run' = [run EXCEPT ![l] = q]
      BY <2>16 DEF Post
    <3> HIDE DEF q
    <3>4. RunOK(q)
      BY <3>1, <3>2 DEF RunOK, Fits
    <3> QED
      BY <3>3, <3>4, OneRun
  <2>17. CASE Move(l)
    <3>1. CASE run[l].live = "running"
      BY <2>17, <2>a, <3>1, WritesOK DEF Move, RunOK, Fits, At, Route
    <3>2. CASE run[l].live # "running"
      BY <2>17, <2>a, <3>2, GoesOK DEF Move, RunOK, Fits, At, Step
    <3> QED
      BY <3>1, <3>2
  <2>18. CASE Announce(l)
    BY <2>18, <2>a, GoesOK DEF Announce, RunOK, Fits, At, Step
  <2>19. CASE Dispatch(l)
    BY <2>19, <2>a, GoesOK DEF Dispatch, RunOK, Fits, At, Step
  <2>20. CASE Finish(l)
    <3>1. run' = [run EXCEPT ![l] = NoRun]
      BY <2>20 DEF Finish, Done, Raises
    <3> QED
      BY <3>1, NoRunOK, OneRun
  <2> QED
    BY <1>3, <2>1, <2>2, <2>3, <2>b, <2>4, <2>5, <2>6, <2>7, <2>8, <2>9, <2>10, <2>11, <2>12,
       <2>13, <2>14, <2>15, <2>16, <2>17, <2>18, <2>19, <2>20 DEF Runs
<1>4. ASSUME NEW l \in Lease, Expire(l) PROVE RunsOK'
  BY <1>4, NoRunMoves DEF Expire
<1>5. CASE CIPasses \/ NextTakes \/ OtherPush \/ UNCHANGED vars
  BY <1>5, NoRunMoves DEF CIPasses, NextTakes, OtherPush, vars
<1> QED
  BY <1>1, <1>2, <1>3, <1>4, <1>5 DEF Next

-----------------------------------------------------------------------------
(* Type correctness.                                                       *)

\* Only a run that is under way ends.
LEMMA EndsUnderWay ==
    ASSUME NEW l \in Lease, Ends(l) PROVE run[l].at # "idle"
<1>1. SUFFICES ASSUME run[l].at = "idle" PROVE FALSE
  OBVIOUS
<1>2. Expects(l) /\ Requires(l)
  BY <1>1 DEF Expects, Requires, At
<1> QED
  BY <1>1, <1>2 DEF Ends, Stale, Refused, RechecksEvidence, LosesLease, Fault, Crash,
                    Shutdown, At

\* The types of the rows.
RowsOK == /\ status \in [Event -> {"queued", "running", "retry", "done", "failed"}]
          /\ lease \in [Event -> Lease \cup {NoLease}]
          /\ attempts \in [Event -> Nat]
          /\ saved \in [Event -> Save]
          /\ \A e \in Event : status[e] = "running" <=> lease[e] # NoLease

LEMMA FinishesOK ==
    ASSUME RowsOK, NEW l \in Lease, NEW outcome \in {"retry", "done", "failed"},
           run[l].e \in Event, Finishes(l, outcome)
    PROVE  RowsOK'
BY DEF RowsOK, Finishes, HoldsLease, row

LEMMA SavesOK ==
    ASSUME RowsOK, NEW l \in Lease, NEW cp \in Save, run[l].e \in Event, Saves(l, cp)
    PROVE  RowsOK'
BY DEF RowsOK, Saves

LEMMA RowsStep == TypeOK /\ RunsOK /\ [Next]_vars => RowsOK'
<1> SUFFICES ASSUME TypeOK, RunsOK, [Next]_vars PROVE RowsOK'
  OBVIOUS
<1>a. RowsOK
  BY DEF TypeOK, RowsOK
<1>b. ASSUME NEW l \in Lease PROVE run[l] \in Run /\ RunOK(run[l])
  BY DEF RunsOK, RunOK
<1>c. ASSUME UNCHANGED row PROVE RowsOK'
  BY <1>a, <1>c DEF RowsOK, row
<1>1. ASSUME NEW e \in Event, NEW l \in Lease, Claim(e, l) PROVE RowsOK'
  BY <1>1, <1>a, NullAssumption DEF Claim, RowsOK
<1>2. ASSUME NEW l \in Lease, Ends(l) PROVE RowsOK'
  <2>1. run[l].e \in Event
    BY <1>2, <1>b, EndsUnderWay DEF RunOK, Fits
  <2>2. CASE UNCHANGED row
    BY <2>2, <1>c
  <2>3. CASE \E outcome \in {"retry", "failed"} : Finishes(l, outcome)
    BY <2>1, <2>3, <1>a, FinishesOK
  <2> QED
    BY <1>2, <2>2, <2>3 DEF Ends, Stale, Refused, LosesLease, Fault, Crash, Shutdown, Raises
<1>3. ASSUME NEW l \in Lease, Runs(l) PROVE RowsOK'
  <2>a. RunOK(run[l]) /\ run[l] \in Run
    BY <1>b
  <2>1. CASE UNCHANGED row
    BY <2>1, <1>c
  <2>2. CASE Start(l)
    <3>1. [NoSave EXCEPT !.some = TRUE] \in Save
      BY DEF NoSave, Save, Result
    <3> QED
      BY <2>2, <2>a, <3>1, <1>a, SavesOK DEF Start, RunOK, Fits, At
  <2>3. ASSUME NEW s \in {"success", "reports", "failed", "blocked"}, AgentReturns(l, s)
        PROVE  RowsOK'
    <3>1. [some |-> TRUE, result |-> [status |-> s, by |-> l], trans |-> "none"] \in Save
      BY DEF Save, Result
    <3> QED
      BY <2>3, <2>a, <3>1, <1>a, SavesOK DEF AgentReturns, RunOK, Fits, At
  <2>4. CASE Published(l)
    <3>1. [some |-> TRUE, result |-> run[l].result, trans |-> "none"] \in Save
      BY <2>a DEF Save, Run
    <3> QED
      BY <2>4, <2>a, <3>1, <1>a, SavesOK DEF Published, RunOK, Fits, At
  <2>5. CASE Plan(l)
    <3>1. PICK t \in Route : Saves(l, [some |-> TRUE, result |-> run[l].result, trans |-> t])
      BY <2>5, <2>a, TransitionIsRoute DEF Plan
    <3>2. [some |-> TRUE, result |-> run[l].result, trans |-> t] \in Save
      BY <2>a DEF Save, Run
    <3> QED
      BY <2>5, <2>a, <3>1, <3>2, <1>a, SavesOK DEF Plan, RunOK, Fits, At
  <2>6. CASE Finish(l)
    <3>1. run[l].e \in Event
      BY <2>6, <2>a DEF Finish, At, RunOK, Fits
    <3>2. \E outcome \in {"retry", "done", "failed"} : Finishes(l, outcome)
      BY <2>6 DEF Finish, Done, Raises
    <3> QED
      BY <3>1, <3>2, <1>a, FinishesOK
  <2> QED
    BY <1>3, <2>1, <2>2, <2>3, <2>4, <2>5, <2>6
       DEF Runs, Begin, Look, Refuse, Block, Started, Project, VerifyBefore, Put, VerifyAfter,
           Publish, CommitReports, NotePosts, Post, Move, Announce, Dispatch
<1>4. CASE (\E l \in Lease : Expire(l)) \/ CIPasses \/ NextTakes \/ OtherPush \/ UNCHANGED vars
  BY <1>4, <1>c DEF Expire, CIPasses, NextTakes, OtherPush, vars
<1> QED
  BY <1>1, <1>2, <1>3, <1>4 DEF Next

\* The pull request and what was sent to it.
GitHubOK == /\ phase \in Phases
            /\ head \in Commit
            /\ route \in Route
            /\ dispatched \subseteq Event \X Commit
            /\ said \subseteq Comment

LEMMA GitHubStep == TypeOK /\ RunsOK /\ [Next]_vars => GitHubOK'
<1> SUFFICES ASSUME TypeOK, RunsOK, [Next]_vars PROVE GitHubOK'
  OBVIOUS
<1>a. GitHubOK
  BY DEF TypeOK, GitHubOK
<1>b. ASSUME NEW l \in Lease PROVE run[l] \in Run /\ RunOK(run[l])
  BY DEF RunsOK, RunOK
<1>c. ASSUME UNCHANGED <<phase, github>> PROVE GitHubOK'
  BY <1>a, <1>c DEF GitHubOK, github
<1>1. ASSUME NEW l \in Lease, Put(l) PROVE GitHubOK'
  <2>1. run[l].to \in Route
    BY <1>1, <1>b DEF Put, At, RunOK, Fits
  <2> QED
    BY <1>1, <1>a, <2>1 DEF Put, GitHubOK
<1>2. ASSUME NEW l \in Lease, CommitReports(l) PROVE GitHubOK'
  <2>1. run[l].result.by \in Lease
    BY <1>2, <1>b DEF CommitReports, At, RunOK, Fits, Run, Result, NoResult
  <2> QED
    BY <1>2, <1>a, <2>1 DEF CommitReports, GitHubOK, Commit
<1>3. ASSUME NEW l \in Lease, Post(l) PROVE GitHubOK'
  <2>1. run[l].note \in Comment
    BY <1>3, <1>b DEF Post, At, RunOK, Fits
  <2> QED
    BY <1>3, <1>a, <2>1 DEF Post, GitHubOK
<1>4. ASSUME NEW l \in Lease, Dispatch(l) PROVE GitHubOK'
  <2>1. run[l].e \in Event /\ run[l].sha \in Commit
    BY <1>4, <1>b DEF Dispatch, At, RunOK, Fits, Run
  <2> QED
    BY <1>4, <1>a, <2>1 DEF Dispatch, GitHubOK
<1>5. ASSUME NEW l \in Lease, Ends(l) \/ Expire(l) \/ \E e \in Event : Claim(e, l)
      PROVE  GitHubOK'
  BY <1>5, <1>c DEF Ends, Expire, Claim, Stale, Refused, LosesLease, Fault, Crash, Shutdown,
                    Raises
<1>6. ASSUME NEW l \in Lease, Runs(l) PROVE GitHubOK'
  BY <1>6, <1>1, <1>2, <1>3, <1>4, <1>c
     DEF Runs, Begin, Look, Refuse, Block, Start, Started, AgentReturns, Project, VerifyBefore,
         VerifyAfter, Publish, Published, Plan, NotePosts, Move, Announce, Finish, Done, Raises
<1>7. CASE CIPasses \/ NextTakes \/ OtherPush \/ UNCHANGED vars
  BY <1>7, <1>a DEF CIPasses, NextTakes, OtherPush, vars, github, GitHubOK, Route, Commit
<1> QED
  BY <1>5, <1>6, <1>7 DEF Next

LEMMA TypesInit == Init => TypeOK /\ RunsOK
<1> SUFFICES ASSUME Init PROVE TypeOK /\ RunsOK
  OBVIOUS
<1>1. NoRun \in Run /\ NoSave \in Save
  BY NoRunOK DEF RunOK, NoSave, Save, Result
<1>2. RunsOK
  BY <1>1, NoRunOK DEF Init, RunsOK
<1>3. TypeOK
  BY <1>1 DEF Init, TypeOK, Commit, Route, NoRun
<1> QED
  BY <1>2, <1>3

LEMMA TypesStep == TypeOK /\ RunsOK /\ [Next]_vars => TypeOK' /\ RunsOK'
<1> SUFFICES ASSUME TypeOK, RunsOK, [Next]_vars PROVE TypeOK' /\ RunsOK'
  OBVIOUS
<1>1. RunsOK' /\ RowsOK' /\ GitHubOK'
  BY RunsStep, RowsStep, GitHubStep
<1>2. \A l \in Lease : run'[l].at # "idle" => run'[l].e \in Event
  BY <1>1 DEF RunsOK, RunOK, Fits
<1> QED
  BY <1>1, <1>2 DEF TypeOK, RunsOK, RowsOK, GitHubOK

\* The rows, the runs of process() and what they send keep their types: no
\* step writes labels that are no route or saves a checkpoint of another
\* shape, and a row has a lease exactly while it is running.
THEOREM TypeCorrect == Spec => []TypeOK
<1>1. Init => TypeOK /\ RunsOK
  BY TypesInit
<1>2. TypeOK /\ RunsOK /\ [Next]_vars => (TypeOK /\ RunsOK)'
  BY TypesStep
<1> QED
  BY <1>1, <1>2, PTL DEF Spec

-----------------------------------------------------------------------------
(* A saved result is kept.                                                 *)

\* Runs go on or end, leases are given back, nothing is saved.
LEMMA SavedKept ==
    ASSUME RunsOK, SavedIsRun, inForce' \subseteq inForce, UNCHANGED saved,
           \A e \in Event : (status'[e] = status[e] /\ lease'[e] = lease[e])
                            \/ lease'[e] = NoLease,
           \A m \in Lease : run'[m].at # "idle" =>
               /\ run[m].at # "idle"
               /\ run'[m].e = run[m].e
               /\ run'[m].result = run[m].result
    PROVE  SavedIsRun'
<1> SUFFICES ASSUME NEW m \in Lease, run'[m].at # "idle",
                    status'[run'[m].e] = "running", lease'[run'[m].e] = m, m \in inForce'
             PROVE  saved'[run'[m].e].result = run'[m].result
  BY DEF SavedIsRun, HoldsLease
<1>1. /\ run[m].at # "idle" /\ run'[m].e = run[m].e /\ run'[m].result = run[m].result
      /\ run[m].e \in Event
  BY DEF RunsOK, RunOK, Fits
<1>2. HoldsLease(run[m].e, m)
  BY <1>1, NullAssumption DEF HoldsLease
<1> QED
  BY <1>1, <1>2 DEF SavedIsRun

\* Run l saves cp, and goes on with the result in it.
SavesFrom(l, cp) == /\ run[l].at # "idle"
                    /\ Saves(l, cp)
                    /\ run'[l].e = run[l].e
                    /\ run'[l].result = cp.result
                    /\ run[l].result \in {NoResult, cp.result}
                    /\ \A m \in Lease \ {l} : run'[m] = run[m]
                    /\ UNCHANGED inForce

LEMMA SavesResult ==
    ASSUME TypeOK, RunsOK, SavedIsRun, NEW l \in Lease, NEW cp \in Save, SavesFrom(l, cp)
    PROVE  SavedIsRun'
<1> SUFFICES ASSUME NEW m \in Lease, run'[m].at # "idle",
                    status'[run'[m].e] = "running", lease'[run'[m].e] = m, m \in inForce'
             PROVE  saved'[run'[m].e].result = run'[m].result
  BY DEF SavedIsRun, HoldsLease
<1>1. run[l].e \in Event /\ saved' = [saved EXCEPT ![run[l].e] = cp]
  BY DEF SavesFrom, Saves, RunsOK, RunOK, Fits
<1>2. CASE m = l
  BY <1>1, <1>2 DEF SavesFrom, TypeOK
<1>3. CASE m # l
  <2>1. run'[m] = run[m] /\ run[m].e \in Event
    BY <1>3 DEF SavesFrom, RunsOK, RunOK, Fits
  <2>2. HoldsLease(run[m].e, m)
    BY <2>1 DEF HoldsLease, SavesFrom, Saves
  <2>3. run[m].e # run[l].e
    BY <1>3, <2>2 DEF HoldsLease, SavesFrom, Saves
  <2> QED
    BY <1>1, <2>1, <2>2, <2>3 DEF SavedIsRun, TypeOK
<1> QED
  BY <1>2, <1>3

\* The steps that save, and what they save.
Saving(l) == \/ Start(l) \/ Published(l) \/ Plan(l)
             \/ \E s \in {"success", "reports", "failed", "blocked"} : AgentReturns(l, s)

LEMMA SavingSaves ==
    ASSUME TypeOK, RunsOK, NEW l \in Lease, Saving(l)
    PROVE  \E cp \in Save : SavesFrom(l, cp)
<1>a. run[l] \in Run /\ RunOK(run[l]) /\ run \in [Lease -> Run]
  BY DEF RunsOK, RunOK
<1>1. CASE Start(l)
  <2> DEFINE cp == [NoSave EXCEPT !.some = TRUE]
  <2>1. cp \in Save /\ cp.result = NoResult
    BY DEF NoSave, Save, Result
  <2>2. run[l].at # "idle" /\ run[l].result = NoResult /\ Saves(l, cp)
    BY <1>1, <1>a DEF Start, At, RunOK, Fits
  <2>3. /\ run'[l].e = run[l].e /\ run'[l].result = run[l].result
        /\ \A m \in Lease \ {l} : run'[m] = run[m]
    BY <1>1, <1>a DEF Start, Goes, Writes, Run
  <2>4. UNCHANGED inForce
    BY <1>1 DEF Start, own
  <2> QED
    BY <2>1, <2>2, <2>3, <2>4 DEF SavesFrom
<1>2. ASSUME NEW s \in {"success", "reports", "failed", "blocked"}, AgentReturns(l, s)
      PROVE  \E cp \in Save : SavesFrom(l, cp)
  <2> DEFINE cp == [some |-> TRUE, result |-> [status |-> s, by |-> l], trans |-> "none"]
  <2>1. cp \in Save
    BY DEF Save, Result
  <2>2. run[l].at # "idle" /\ run[l].result = NoResult /\ Saves(l, cp)
    BY <1>2, <1>a DEF AgentReturns, At, RunOK, Fits
  <2>3. /\ run'[l].e = run[l].e /\ run'[l].result = cp.result
        /\ \A m \in Lease \ {l} : run'[m] = run[m]
    BY <1>2, <1>a DEF AgentReturns, Run
  <2>4. UNCHANGED inForce
    BY <1>2 DEF AgentReturns, own
  <2> QED
    BY <2>1, <2>2, <2>3, <2>4 DEF SavesFrom
<1>3. CASE Published(l)
  <2> DEFINE cp == [some |-> TRUE, result |-> run[l].result, trans |-> "none"]
  <2>1. cp \in Save
    BY <1>a DEF Save, Run
  <2>2. run[l].at # "idle" /\ Saves(l, cp)
    BY <1>3 DEF Published, At
  <2>3. /\ run'[l].e = run[l].e /\ run'[l].result = run[l].result
        /\ \A m \in Lease \ {l} : run'[m] = run[m]
    BY <1>3, <1>a DEF Published, Goes, Run
  <2>4. UNCHANGED inForce
    BY <1>3 DEF Published, own
  <2> QED
    BY <2>1, <2>2, <2>3, <2>4 DEF SavesFrom
<1>4. CASE Plan(l)
  <2>1. PICK t \in Route :
            /\ Saves(l, [some |-> TRUE, result |-> run[l].result, trans |-> t])
            /\ run' = [run EXCEPT ![l].at = "handoff", ![l].live = route, ![l].trans = t]
    BY <1>4, <1>a, TransitionIsRoute DEF Plan
  <2> DEFINE cp == [some |-> TRUE, result |-> run[l].result, trans |-> t]
  <2>2. cp \in Save
    BY <1>a DEF Save, Run
  <2>3. run[l].at # "idle" /\ UNCHANGED inForce
    BY <1>4 DEF Plan, At, own
  <2>4. /\ run'[l].e = run[l].e /\ run'[l].result = run[l].result
        /\ \A m \in Lease \ {l} : run'[m] = run[m]
    BY <1>a, <2>1 DEF Run
  <2> QED
    BY <2>1, <2>2, <2>3, <2>4 DEF SavesFrom
<1> QED
  BY <1>1, <1>2, <1>3, <1>4 DEF Saving

\* Steps that end a run: its event is given back, or the run just stops.
LEMMA EndingKeeps ==
    ASSUME TypeOK, RunsOK, SavedIsRun, NEW l \in Lease, run' = [run EXCEPT ![l] = NoRun],
           UNCHANGED <<own, row>> \/ \E outcome : Finishes(l, outcome)
    PROVE  SavedIsRun' /\ UNCHANGED saved
<1>1. \A m \in Lease : run'[m].at # "idle" => run'[m] = run[m]
  BY DEF RunsOK, NoRun
<1>2. /\ inForce' \subseteq inForce
      /\ UNCHANGED saved
      /\ \A e \in Event : (status'[e] = status[e] /\ lease'[e] = lease[e])
                          \/ lease'[e] = NoLease
  BY DEF Finishes, Own!End, own, row, TypeOK
<1> QED
  BY <1>1, <1>2, SavedKept

\* Every other step of a run.
LEMMA OthersKeep ==
    ASSUME TypeOK, RunsOK, SavedIsRun, NEW l \in Lease, Runs(l), ~Saving(l), ~Finish(l)
    PROVE  SavedIsRun' /\ UNCHANGED saved
<1>a. run[l] \in Run /\ run \in [Lease -> Run]
  BY DEF RunsOK, RunOK
<1>1. UNCHANGED row /\ UNCHANGED inForce
  BY DEF Runs, Saving, Begin, Look, Refuse, Block, Started, Project, VerifyBefore, Put, VerifyAfter,
         Publish, CommitReports, NotePosts, Post, Move, Announce, Dispatch, own, row,
         Obtains, Own!Take
<1>2. /\ run[l].at # "idle"
      /\ run'[l].e = run[l].e /\ run'[l].result = run[l].result
      /\ \A m \in Lease \ {l} : run'[m] = run[m]
  <2>1. CASE Begin(l) \/ Project(l) \/ Started(l) \/ VerifyBefore(l) \/ Put(l)
             \/ Publish(l) \/ Announce(l) \/ Dispatch(l)
    BY <1>a, <2>1 DEF Begin, Project, Started, VerifyBefore, Put, Publish, Announce,
                      Dispatch, Goes, At, Run
  <2>2. CASE Look(l)
    BY <1>a, <2>2 DEF Look, At, Run
  <2>3. CASE Refuse(l) \/ Block(l) \/ Move(l)
    BY <1>a, <2>3 DEF Refuse, Block, Move, Writes, Says, Goes, At, Run
  <2>4. CASE VerifyAfter(l)
    BY <1>a, <2>4 DEF VerifyAfter, At, Run
  <2>5. CASE CommitReports(l)
    BY <1>a, <2>5 DEF CommitReports, At, Run
  <2>6. CASE NotePosts(l)
    BY <1>a, <2>6 DEF NotePosts, Says, Goes, Run
  <2>7. CASE Post(l)
    BY <1>a, <2>7 DEF Post, At, Run
  <2> QED
    BY <2>1, <2>2, <2>3, <2>4, <2>5, <2>6, <2>7 DEF Runs, Saving
<1>3. \A m \in Lease : run'[m].at # "idle" =>
          run[m].at # "idle" /\ run'[m].e = run[m].e /\ run'[m].result = run[m].result
  BY <1>2
<1> QED
  BY <1>1, <1>3, SavedKept DEF row

\* The invariant is kept, and so is every saved result.
LEMMA SavedStep ==
    IInv /\ [Next]_vars => /\ SavedIsRun'
                           /\ \A e \in Event : saved[e].result # NoResult
                                  => saved'[e].result = saved[e].result
<1> SUFFICES ASSUME IInv, [Next]_vars
             PROVE  /\ SavedIsRun'
                    /\ \A e \in Event : saved[e].result # NoResult
                           => saved'[e].result = saved[e].result
  OBVIOUS
<1>a. TypeOK /\ RunsOK /\ SavedIsRun
  BY DEF IInv
<1>b. SUFFICES \/ SavedIsRun' /\ UNCHANGED saved
               \/ \E l \in Lease, cp \in Save : SavesFrom(l, cp)
  <2>1. ASSUME NEW l \in Lease, NEW cp \in Save, SavesFrom(l, cp), NEW e \in Event,
               saved[e].result # NoResult
        PROVE  saved'[e].result = saved[e].result
    <3>1. saved' = [saved EXCEPT ![run[l].e] = cp] /\ saved[run[l].e].result = run[l].result
      BY <1>a, <2>1 DEF SavesFrom, Saves, SavedIsRun
    <3> QED
      BY <1>a, <2>1, <3>1 DEF SavesFrom, TypeOK
  <2> QED
    BY <1>a, <1>b, <2>1, SavesResult
<1>1. ASSUME NEW e \in Event, NEW l \in Lease, Claim(e, l)
      PROVE  SavedIsRun' /\ UNCHANGED saved
  <2>1. /\ run' = [run EXCEPT ![l] = [NoRun EXCEPT !.e = e, !.at = "begin", !.cp = saved[e],
                                                   !.result = saved[e].result]]
        /\ status' = [status EXCEPT ![e] = "running"]
        /\ lease' = [lease EXCEPT ![e] = l]
        /\ inForce' = inForce \cup {l}
        /\ UNCHANGED saved
    BY <1>1 DEF Claim, Own!Issue
  <2> SUFFICES ASSUME NEW m \in Lease, run'[m].at # "idle",
                    status'[run'[m].e] = "running", lease'[run'[m].e] = m, m \in inForce'
               PROVE  saved[run'[m].e].result = run'[m].result
    BY <2>1 DEF SavedIsRun, HoldsLease
  <2>2. CASE m = l
    <3>1. run'[l].e = e /\ run'[l].result = saved[e].result
      BY <1>a, <2>1 DEF RunsOK, NoRun
    <3> QED
      BY <2>2, <3>1
  <2>3. CASE m # l
    <3>1. run'[m] = run[m] /\ run[m].e \in Event
      BY <1>a, <2>1, <2>3 DEF RunsOK, RunOK, Fits
    <3>2. HoldsLease(run[m].e, m)
      BY <1>a, <2>1, <2>3, <3>1 DEF HoldsLease, TypeOK
    <3> QED
      BY <1>a, <3>1, <3>2 DEF SavedIsRun
  <2> QED
    BY <2>2, <2>3
<1>2. ASSUME NEW l \in Lease, Ends(l) PROVE SavedIsRun' /\ UNCHANGED saved
  <2>1. /\ run' = [run EXCEPT ![l] = NoRun]
        /\ UNCHANGED <<own, row>> \/ \E outcome : Finishes(l, outcome)
    BY <1>2 DEF Ends, Stale, Refused, LosesLease, Fault, Crash, Shutdown, Raises
  <2> QED
    BY <1>a, <2>1, EndingKeeps
<1>3. ASSUME NEW l \in Lease, Finish(l) PROVE SavedIsRun' /\ UNCHANGED saved
  <2>1. /\ run' = [run EXCEPT ![l] = NoRun]
        /\ \E outcome : Finishes(l, outcome)
    BY <1>3 DEF Finish, Done, Raises
  <2> QED
    BY <1>a, <2>1, EndingKeeps
<1>4. ASSUME NEW l \in Lease, Expire(l) PROVE SavedIsRun' /\ UNCHANGED saved
  <2>1. inForce' \subseteq inForce /\ UNCHANGED row /\ UNCHANGED run
    BY <1>4 DEF Expire, Own!End
  <2> QED
    BY <1>a, <2>1, SavedKept DEF row
<1>5. CASE CIPasses \/ NextTakes \/ OtherPush \/ UNCHANGED vars
  <2>1. UNCHANGED <<own, row, run>>
    BY <1>5 DEF CIPasses, NextTakes, OtherPush, vars
  <2> QED
    BY <1>a, <2>1, SavedKept DEF own, row
<1> QED
  BY <1>a, <1>1, <1>2, <1>3, <1>4, <1>5, SavingSaves, OthersKeep DEF Next

LEMMA InvInit == Init => IInv
BY TypesInit DEF Init, IInv, SavedIsRun, NoRun

LEMMA InvStep == IInv /\ [Next]_vars => IInv'
BY TypesStep, SavedStep DEF IInv

\* process() is resumed with the result it saved and the agent is not asked
\* again for that event; a run that comes back late from its agent finds its
\* lease gone and saves nothing.
THEOREM SavedResultIsKept == Spec => ResultIsKept
<1>1. IInv /\ [Next]_vars =>
          [\A e \in Event : saved[e].result # NoResult
               => saved'[e].result = saved[e].result]_vars
  BY SavedStep
<1> QED
  BY <1>1, InvInit, InvStep, PTL DEF Spec, ResultIsKept

-----------------------------------------------------------------------------
(* No handoff, policy record or marker is posted twice.                    *)

Owned == /\ owner \in [{"operation", "projection"} -> Lease \cup {NoLease}]
         /\ inForce \cap ended = {}

\* The gate's comment is the one no run looks for.
Fresh(l) == run[l].note = Gate \/ run[l].note \notin said

\* The run that is about to post has the operation key, and looked for its
\* comment since it got it.
Posting == \A l \in Lease : At(l, "post") => Leased(l) /\ Fresh(l)

PInv == IInv /\ Owned /\ Posting

\* Every step uses the store as the lock that module Ownership promises.
LEMMA OwnStep == [Next]_vars => [Own!Next]_own
<1> SUFFICES ASSUME [Next]_vars PROVE [Own!Next]_own
  OBVIOUS
<1>a. UNCHANGED own => [Own!Next]_own
  OBVIOUS
<1>1. ASSUME NEW e \in Event, NEW l \in Lease, Claim(e, l) PROVE [Own!Next]_own
  BY <1>1 DEF Claim, Own!Next
<1>2. ASSUME NEW l \in Lease, Own!End({l}) PROVE [Own!Next]_own
  BY <1>2 DEF Own!Next
<1>3. ASSUME NEW k \in {"operation", "projection"}, NEW l \in Lease, Obtains(k, l)
      PROVE  [Own!Next]_own
  BY <1>a, <1>3 DEF Obtains, Own!Next
<1>4. ASSUME NEW l \in Lease, NEW outcome, Finishes(l, outcome) PROVE [Own!Next]_own
  BY <1>a, <1>2, <1>4 DEF Finishes
<1>5. ASSUME NEW l \in Lease, Ends(l) PROVE [Own!Next]_own
  BY <1>a, <1>4, <1>5 DEF Ends, Stale, Refused, LosesLease, Fault, Crash, Shutdown, Raises
<1>6. ASSUME NEW l \in Lease, Expire(l) PROVE [Own!Next]_own
  BY <1>2, <1>6 DEF Expire
<1>7. ASSUME NEW l \in Lease, Runs(l) PROVE [Own!Next]_own
  <2>1. CASE Begin(l) \/ Project(l)
    BY <1>3, <2>1 DEF Begin, Project
  <2>2. CASE Finish(l)
    BY <1>4, <2>2 DEF Finish, Done, Raises
  <2>3. CASE ~(Begin(l) \/ Project(l) \/ Finish(l))
    <3>1. UNCHANGED own
      BY <1>7, <2>3
         DEF Runs, Look, Refuse, Block, Start, Started, AgentReturns, VerifyBefore, Put,
             VerifyAfter, Publish, CommitReports, Published, Plan, NotePosts, Post, Move,
             Announce, Dispatch
    <3> QED BY <1>a, <3>1
  <2> QED BY <2>1, <2>2, <2>3
<1>8. CIPasses \/ NextTakes \/ OtherPush \/ UNCHANGED vars => UNCHANGED own
  BY DEF CIPasses, NextTakes, OtherPush, vars
<1> QED BY <1>a, <1>1, <1>5, <1>6, <1>7, <1>8 DEF Next

LEMMA OwnedStep == Owned /\ [Next]_vars => Owned'
<1> SUFFICES ASSUME Owned, [Own!Next]_own PROVE Owned'
  BY OwnStep
<1>1. ASSUME NEW l \in Lease, Own!Issue(l) PROVE Owned'
  BY <1>1 DEF Own!Issue, Owned
<1>2. ASSUME NEW k \in {"operation", "projection"}, NEW l \in Lease, Own!Take(k, l) PROVE Owned'
  BY <1>2 DEF Own!Take, Owned
<1>3. ASSUME NEW L \in SUBSET Lease, Own!End(L) PROVE Owned'
  BY <1>3 DEF Own!End, Owned
<1>4. UNCHANGED own => Owned'
  BY DEF own, Owned
<1> QED BY <1>1, <1>2, <1>3, <1>4 DEF Own!Next

\* Whatever the runs do, and however they overlap, worker(), process() and the projection
\* lock use the store only as the lock it promises to be (Ownership, which LeaseStore
\* implements): one owner of a key, no return of a lease that ended.
THEOREM UsesOwnership == Spec => Own!Spec
<1>1. Init => Own!Init
  BY DEF Init
<1>2. [Next]_vars => [Own!Next]_(Own!vars)
  BY OwnStep DEF own, Own!vars
<1> QED BY <1>1, <1>2, PTL DEF Spec, Own!Spec

\* A lease that a comment is posted under, or labels are written under, stays until the
\* request is answered.
LEMMA LeaseStays ==
    ASSUME TypeOK, RunsOK, Owned, [Next]_vars,
           NEW m \in Lease, run[m].at \in {"post", "put"}, Leased(m), run'[m] = run[m]
    PROVE  Leased(m)'
<1> DEFINE e == run[m].e
<1>0. /\ run[m].at \in {"post", "put"} /\ e \in Event /\ m \in inForce /\ status[e] = "running"
      /\ lease[e] = m /\ owner["operation"] = m /\ m # NoLease
  BY NullAssumption DEF At, Leased, HoldsLease, RunsOK, RunOK, Fits
<1>a. ASSUME m \in inForce', status'[e] = "running", lease'[e] = m, owner'["operation"] = m
      PROVE  Leased(m)'
  BY <1>a DEF Leased, HoldsLease
<1> HIDE DEF e
<1>b. UNCHANGED <<inForce, status, lease>> /\ owner'["operation"] = owner["operation"]
      => Leased(m)'
  BY <1>0, <1>a
<1>1. ASSUME NEW f \in Event, NEW l \in Lease, Claim(f, l) PROVE Leased(m)'
  <2>1. f # e
    BY <1>0, <1>1 DEF Claim, Owned
  <2>2. status'[e] = status[e] /\ lease'[e] = lease[e]
    BY <1>0, <1>1, <2>1 DEF Claim, TypeOK
  <2>3. inForce \subseteq inForce' /\ owner' = owner
    BY <1>1 DEF Claim, Own!Issue
  <2> QED BY <1>0, <1>a, <2>2, <2>3
<1>2. ASSUME NEW l \in Lease, l # m, NEW outcome, Finishes(l, outcome) PROVE Leased(m)'
  <2>1. CASE HoldsLease(run[l].e, l)
    <3>1. run[l].e # e
      BY <1>0, <1>2, <2>1 DEF HoldsLease
    <3>2. status'[e] = status[e] /\ lease'[e] = lease[e]
      BY <1>0, <1>2, <2>1, <3>1 DEF Finishes, TypeOK
    <3>3. m \in inForce' /\ owner'["operation"] = m
      BY <1>0, <1>2, <2>1 DEF Finishes, Own!End
    <3> QED BY <1>0, <1>a, <3>2, <3>3
  <2>2. CASE ~HoldsLease(run[l].e, l)
    BY <1>2, <1>b, <2>2 DEF Finishes, own, row
  <2> QED BY <2>1, <2>2
<1>3. ASSUME NEW l \in Lease, run' = [run EXCEPT ![l] = NoRun] PROVE l # m
  BY <1>0, <1>3 DEF NoRun, RunsOK
<1>4. ASSUME NEW l \in Lease, Ends(l) PROVE Leased(m)'
  <2>1. /\ run' = [run EXCEPT ![l] = NoRun]
        /\ UNCHANGED <<own, row>> \/ \E outcome : Finishes(l, outcome)
    BY <1>4 DEF Ends, Stale, Refused, LosesLease, Fault, Crash, Shutdown, Raises
  <2> QED BY <1>2, <1>3, <1>b, <2>1 DEF own, row
<1>5. ASSUME NEW l \in Lease, Finish(l) PROVE Leased(m)'
  <2>1. /\ run' = [run EXCEPT ![l] = NoRun]
        /\ \E outcome : Finishes(l, outcome)
    BY <1>5 DEF Finish, Done, Raises
  <2> QED BY <1>2, <1>3, <2>1
<1>6. ASSUME NEW l \in Lease, Expire(l) PROVE Leased(m)'
  <2>1. l # m
    BY <1>0, <1>6 DEF Expire, At
  <2>2. m \in inForce' /\ owner'["operation"] = m /\ UNCHANGED row
    BY <1>0, <1>6, <2>1 DEF Expire, Own!End
  <2> QED BY <1>0, <1>a, <2>2 DEF row
<1>7. ASSUME NEW l \in Lease, Begin(l) \/ Project(l) PROVE Leased(m)'
  <2>1. UNCHANGED row /\ inForce' = inForce
    BY <1>7 DEF Begin, Project, Obtains, Own!Take, own
  <2>2. owner'["operation"] = owner["operation"]
    BY <1>0, <1>7 DEF Begin, Project, Obtains, Own!Take, own, Owned
  <2> QED BY <1>b, <2>1, <2>2 DEF row
<1>8. ASSUME NEW l \in Lease, Runs(l), ~(Begin(l) \/ Project(l) \/ Finish(l)) PROVE Leased(m)'
  <2>1. UNCHANGED <<own, status, lease>>
    BY <1>8
       DEF Runs, Look, Refuse, Block, Start, Started, AgentReturns, VerifyBefore, Put, VerifyAfter,
           Publish, CommitReports, Published, Plan, NotePosts, Post, Move, Announce, Dispatch,
           Saves, row
  <2> QED BY <1>b, <2>1 DEF own
<1>9. CIPasses \/ NextTakes \/ OtherPush \/ UNCHANGED vars => UNCHANGED <<own, row>>
  BY DEF CIPasses, NextTakes, OtherPush, vars
<1> QED BY <1>1, <1>4, <1>5, <1>6, <1>7, <1>8, <1>9, <1>b DEF Next, own, row

\* A run begins to post when it looked for its comment and found none, or when
\* the gate refused its start.
LEMMA PostBegins ==
    ASSUME RunsOK, NEW l \in Lease, Runs(l), run'[l].at = "post"
    PROVE  (NotePosts(l) /\ ~Posted(l)) \/ Refuse(l)
<1>a. run[l] \in Run /\ RunOK(run[l]) /\ run \in [Lease -> Run]
  BY DEF RunsOK, RunOK
<1>1. ~(\/ Begin(l) \/ Block(l) \/ Start(l) \/ Started(l) \/ Project(l) \/ VerifyBefore(l)
        \/ Put(l) \/ Publish(l) \/ Published(l) \/ Move(l) \/ Announce(l) \/ Dispatch(l))
  BY <1>a DEF Begin, Block, Start, Started, Project, VerifyBefore, Put, Publish, Published, Move,
              Announce, Dispatch, Goes, Writes, Run
<1>2. ~Look(l)
  <2>1. AfterGate(l) # "post"
    BY DEF AfterGate, AfterResult
  <2> QED BY <1>a, <2>1 DEF Look, Run
<1>3. ASSUME NEW s \in {"success", "reports", "failed", "blocked"} PROVE ~AgentReturns(l, s)
  <2>1. AfterResult(s) # "post"
    BY DEF AfterResult
  <2> QED BY <1>a, <2>1 DEF AgentReturns, Run
<1>4. ~VerifyAfter(l)
  BY <1>a DEF VerifyAfter, At, RunOK, Fits, Run
<1>5. ~CommitReports(l) /\ ~Plan(l)
  <2>1. ~CommitReports(l)
    BY <1>a DEF CommitReports, Run
  <2>2. ASSUME NEW t, run' = [run EXCEPT ![l].at = "handoff", ![l].live = route, ![l].trans = t]
        PROVE  FALSE
    BY <1>a, <2>2 DEF Run
  <2> QED BY <2>1, <2>2 DEF Plan
<1>6. ~Post(l)
  BY <1>a DEF Post, At, RunOK, Fits, Run
<1>7. ~Finish(l)
  BY <1>a DEF Finish, Done, Raises, NoRun
<1>8. NotePosts(l) \/ Refuse(l)
  BY <1>1, <1>2, <1>3, <1>4, <1>5, <1>6, <1>7 DEF Runs
<1>9. AfterNote(l) # "post"
  BY DEF AfterNote
<1>10. NotePosts(l) => ~Posted(l)
  BY <1>a, <1>9 DEF NotePosts, Goes, Run
<1> QED BY <1>8, <1>10

\* A run moves by a step of its own, or it begins or ends.
LEMMA OthersRest ==
    ASSUME RunsOK, NEW l \in Lease, Runs(l), NEW m \in Lease, m # l
    PROVE  run'[m] = run[m]
BY DEF RunsOK, Runs, Begin, Look, Refuse, Block, Start, Started, AgentReturns, Project,
       VerifyBefore, Put, VerifyAfter, Publish, CommitReports, Published, Plan, NotePosts,
       Post, Move, Announce, Dispatch, Finish, Done, Raises, Goes, Writes, Says

LEMMA RunMoves ==
    ASSUME RunsOK, [Next]_vars, NEW m \in Lease
    PROVE  run'[m] = run[m] \/ Runs(m) \/ run'[m].at \in {"idle", "begin"}
<1>1. ASSUME NEW l \in Lease, Ends(l) PROVE run' = [run EXCEPT ![l] = NoRun]
  BY <1>1 DEF Ends, Stale, Refused, LosesLease, Fault, Crash, Shutdown, Raises
<1>2. ASSUME NEW l \in Lease, run' = [run EXCEPT ![l] = NoRun]
      PROVE  run'[m] = run[m] \/ run'[m].at = "idle"
  BY <1>2 DEF RunsOK, NoRun
<1>3. ASSUME NEW e \in Event, NEW l \in Lease, Claim(e, l)
      PROVE  run'[m] = run[m] \/ run'[m].at = "begin"
  BY <1>3 DEF Claim, RunsOK, NoRun
<1>4. (\E l \in Lease : Expire(l)) \/ CIPasses \/ NextTakes \/ OtherPush \/ UNCHANGED vars
      => run' = run
  BY DEF Expire, CIPasses, NextTakes, OtherPush, vars
<1> QED BY <1>1, <1>2, <1>3, <1>4, OthersRest DEF Next

LEMMA PostingStep == PInv /\ [Next]_vars => Posting'
<1> SUFFICES ASSUME PInv, [Next]_vars, NEW m \in Lease, run'[m].at = "post"
             PROVE  Leased(m)' /\ Fresh(m)'
  BY DEF Posting, At
<1>0. TypeOK /\ RunsOK /\ Owned /\ Posting /\ run \in [Lease -> Run] /\ run[m] \in Run
  BY DEF PInv, IInv, RunsOK
<1>1. CASE Runs(m)
  <2>1. (NotePosts(m) /\ ~Posted(m)) \/ Refuse(m)
    BY <1>0, <1>1, PostBegins
  <2>2. PICK note, then :
            /\ Says(m, note, then)
            /\ note = Gate \/ note \notin said
            /\ Leased(m) /\ UNCHANGED <<own, row, said>>
    BY <2>1 DEF NotePosts, Posted, Refuse, github
  <2>3. run'[m].note = note /\ run'[m].e = run[m].e
    BY <1>0, <2>2 DEF Says, Run
  <2>4. Leased(m)'
    BY <2>2, <2>3 DEF Leased, HoldsLease, own, row
  <2> QED BY <2>2, <2>3, <2>4 DEF Fresh
<1>2. ASSUME run'[m] = run[m], said' = said \/ \E l \in Lease : l # m /\ Post(l)
      PROVE  Leased(m)' /\ Fresh(m)'
  <2>1. Leased(m) /\ Fresh(m) /\ At(m, "post")
    BY <1>0, <1>2 DEF Posting, At
  <2>2. ASSUME NEW l \in Lease, l # m PROVE ~Post(l)
    BY <1>0, <2>1, <2>2 DEF Post, Posting, Leased
  <2>3. said' = said
    BY <1>2, <2>2
  <2>4. Leased(m)'
    BY <1>0, <1>2, <2>1, LeaseStays DEF At
  <2> QED BY <1>2, <2>1, <2>3, <2>4 DEF Fresh
<1>3. ASSUME NEW l \in Lease, Runs(l), l # m PROVE Leased(m)' /\ Fresh(m)'
  <2>1. run'[m] = run[m]
    BY <1>0, <1>3, OthersRest
  <2>2. said' = said \/ Post(l)
    BY <1>3
       DEF Runs, Begin, Look, Refuse, Block, Start, Started, AgentReturns, Project, VerifyBefore,
           Put, VerifyAfter, Publish, CommitReports, Published, Plan, NotePosts, Move, Announce,
           Dispatch, Finish, Done, Raises, github
  <2> QED BY <1>2, <1>3, <2>1, <2>2
<1>4. ASSUME NEW l \in Lease, Ends(l) PROVE Leased(m)' /\ Fresh(m)'
  <2>1. run' = [run EXCEPT ![l] = NoRun] /\ said' = said
    BY <1>4 DEF Ends, Stale, Refused, LosesLease, Fault, Crash, Shutdown, Raises, github
  <2>2. l # m
    BY <1>0, <2>1 DEF NoRun
  <2> QED BY <1>0, <1>2, <2>1, <2>2
<1>5. ASSUME NEW e \in Event, NEW l \in Lease, Claim(e, l)
      PROVE  Leased(m)' /\ Fresh(m)'
  <2>1. run' = [run EXCEPT ![l] = [NoRun EXCEPT !.e = e, !.at = "begin", !.cp = saved[e],
                                                !.result = saved[e].result]] /\ said' = said
    BY <1>5 DEF Claim, github
  <2>2. l # m
    BY <1>0, <2>1 DEF NoRun
  <2> QED BY <1>0, <1>2, <2>1, <2>2
<1>6. (\E l \in Lease : Expire(l)) \/ CIPasses \/ NextTakes \/ OtherPush \/ UNCHANGED vars
      => run' = run /\ said' = said
  BY DEF Expire, CIPasses, NextTakes, OtherPush, github, vars
<1> QED BY <1>1, <1>2, <1>3, <1>4, <1>5, <1>6 DEF Next

\* No handoff, policy record or marker is posted twice, by whatever attempts of
\* whatever deliveries: two runs are never between the search and the post
\* (handoff_comment_exists, require_lease).  The comment of the start gate is not
\* among them, a refusal that is tried again posts it again.
THEOREM RecordsPostedOnce == Spec => NoRecordTwice
<1>1. Init => PInv
  BY InvInit, NullAssumption DEF PInv, Init, Own!Init, Owned, Posting, At, NoRun
<1>2. PInv /\ [Next]_vars => PInv'
  BY InvStep, OwnedStep, PostingStep DEF PInv
<1>3. PInv /\ [Next]_vars
        => [\A l \in Lease : At(l, "post") /\ run'[l] # NoRun /\ run'[l].at # "post"
               => run[l].note = Gate \/ run[l].note \notin said]_vars
  BY DEF PInv, Posting, Fresh
<1> QED BY <1>1, <1>2, <1>3, PTL DEF Spec, NoRecordTwice

-----------------------------------------------------------------------------
(* What the comments say when a route is written.                          *)

Success == {"success", "reports"}
Failure == {"failed", "blocked"}

\* What the comments say before the pull request takes a route.
Earned(to) ==
    /\ to \in {"release", "wait"} =>
           /\ \E n \in Handoffs : n[2].status \in Success /\ n[3] = Source
           /\ <<"policy", to, Source>> \in said
    /\ to = "review-again" =>
           \E l \in Lease : /\ <<"handoff", [status |-> "reports", by |-> l], l>> \in said
                            /\ {<<"policy", to, l>>, <<"marker", l>>} \subseteq said
    /\ to = "blocked" =>
           \/ Gate \in said
           \/ \E n \in Handoffs : n[2].status \in Failure /\ n[3] = Source

\* A transition of QA, and the SHA it is for: the reviewed one, or the report commit.
ForSHA(trans, result, sha) ==
    /\ trans \in {"release", "wait", "review-again"} => result.status \in Success /\ phase = "qa"
    /\ trans \in {"release", "wait"} => sha = Source
    /\ trans = "review-again" => sha # Source
    /\ trans = "blocked" => result.status \in Failure

\* A checkpoint with a transition has the result the transition follows from, and a new
\* review is on record only after HEAD left the SHA of the event, which it never has again.
CheckpointOK(cp) ==
    cp.trans # "none" =>
        /\ cp.result # NoResult
        /\ cp.trans \in {"release", "wait", "review-again"} =>
               cp.result.status \in Success /\ phase = "qa"
        /\ cp.trans = "review-again" => head # Source
        /\ cp.trans = "blocked" => cp.result.status \in Failure

\* A run works for the SHA of its event or for the report commit of its result, and its
\* result is the one of the checkpoint it was given.
ResumesOK(r) ==
    /\ r.sha = Source \/ (r.sha = r.result.by /\ r.result.status = "reports")
    /\ CheckpointOK(r.cp)
    /\ r.cp.result # NoResult => r.cp.result = r.result

\* The step a run is at, or will be at when its comment is posted, and what is said by then.
After(r) == IF r.at = "post" THEN r.then ELSE r.at
Saying(r) == IF r.at = "post" THEN said \cup {r.note} ELSE said

\* The comments of a run precede each other and the labels.
NotesOK(r, step, notes) ==
    /\ step \in {"handoff", "policy", "marker", "move"} => ForSHA(r.trans, r.result, r.sha)
    /\ step \in {"policy", "marker", "move"} => <<"handoff", r.result, r.sha>> \in notes
    /\ step = "marker" \/ (step = "move" /\ phase = "qa" /\ r.result.status \in Success)
           => <<"policy", r.trans, r.sha>> \in notes
    /\ step = "move" /\ phase = "qa" /\ r.result.status \in Success /\ r.sha # Source
           => <<"marker", r.sha>> \in notes
    /\ step = "refused" => Gate \in notes

HandoffOK(r) ==
    /\ ResumesOK(r)
    /\ r.at \in {"begin", "look"} => r.result = r.cp.result
    /\ r.at \in {"published", "plan"} => r.result # NoResult
    /\ NotesOK(r, After(r), Saying(r))
    /\ r.at \in {"project", "verify", "put"} => Earned(r.to)

Putting == \A l \in Lease : At(l, "put") => Leased(l)

HInv == /\ PInv
        /\ \A e \in Event : CheckpointOK(saved[e])
        /\ \A l \in Lease : HandoffOK(run[l])
        /\ Putting
        /\ HandedOff

\* HEAD leaves the SHA of the event for good, and comments stay.
Onwards == /\ said \subseteq said'
           /\ phase' = phase
           /\ head # Source => head' # Source

LEMMA NextOnwards == TypeOK /\ RunsOK /\ [Next]_vars => Onwards
<1> SUFFICES ASSUME TypeOK, RunsOK, [Next]_vars PROVE Onwards
  OBVIOUS
<1>1. ASSUME NEW l \in Lease, CommitReports(l) PROVE Onwards
  <2>1. run[l].result.by \in Lease
    BY <1>1 DEF CommitReports, At, RunsOK, RunOK, Fits, Run, Result, NoResult
  <2> QED BY <1>1, <2>1, NullAssumption DEF CommitReports, Onwards
<1>2. ASSUME NEW l \in Lease, Post(l) PROVE Onwards
  BY <1>2 DEF Post, Onwards
<1>3. CASE OtherPush
  BY <1>3, NullAssumption DEF OtherPush, Onwards
<1>4. ASSUME NEW l \in Lease, Runs(l), ~CommitReports(l), ~Post(l) PROVE Onwards
  BY <1>4
     DEF Runs, Begin, Look, Refuse, Block, Start, Started, AgentReturns, Project, VerifyBefore, Put,
         VerifyAfter, Publish, Published, Plan, NotePosts, Move, Announce, Dispatch, Finish, Done,
         Raises, github, Onwards
<1>5. ASSUME NEW l \in Lease, Ends(l) \/ Expire(l) PROVE Onwards
  BY <1>5 DEF Ends, Stale, Refused, LosesLease, Fault, Crash, Shutdown, Raises, Expire, github,
              Onwards
<1>6. ASSUME NEW e \in Event, NEW l \in Lease, Claim(e, l) PROVE Onwards
  BY <1>6 DEF Claim, github, Onwards
<1>7. CASE CIPasses \/ NextTakes \/ UNCHANGED vars
  BY <1>7 DEF CIPasses, NextTakes, vars, github, Onwards
<1> QED BY <1>1, <1>2, <1>3, <1>4, <1>5, <1>6, <1>7 DEF Next

LEMMA EarnedStays == ASSUME Onwards, NEW to, Earned(to) PROVE Earned(to)'
BY DEF Onwards, Earned, Handoffs

LEMMA CheckpointStays == ASSUME Onwards, NEW cp, CheckpointOK(cp) PROVE CheckpointOK(cp)'
BY DEF Onwards, CheckpointOK

LEMMA HandoffStays == ASSUME Onwards, NEW r, HandoffOK(r) PROVE HandoffOK(r)'
<1>1. ResumesOK(r)'
  BY CheckpointStays DEF HandoffOK, ResumesOK
<1>2. NotesOK(r, After(r), Saying(r))'
  <2>1. Saying(r) \subseteq Saying(r)' /\ phase' = phase
    BY DEF Onwards, Saying
  <2>2. After(r)' = After(r)
    BY DEF After
  <2> QED BY <2>1, <2>2 DEF HandoffOK, NotesOK, ForSHA
<1>3. r.at \in {"project", "verify", "put"} => Earned(r.to)'
  BY EarnedStays DEF HandoffOK
<1> QED BY <1>1, <1>2, <1>3 DEF HandoffOK

\* Steps at which a run claims nothing but what it resumed with.
Quiet == {"refuse", "start", "started", "agent", "publish", "commit", "verified", "moved",
          "dispatch", "finish"}

LEMMA QuietOK ==
    ASSUME NEW q, ResumesOK(q), q.at \in Quiet PROVE HandoffOK(q)
BY DEF HandoffOK, NotesOK, Quiet, After

\* A run that only goes on.
LEMMA GoesOn ==
    ASSUME NEW l \in Lease, RunsOK, HandoffOK(run[l]), NEW step, Goes(l, step)
    PROVE  /\ run'[l].at = step /\ ResumesOK(run'[l])
           /\ run'[l].sha = run[l].sha /\ run'[l].result = run[l].result
           /\ run'[l].cp = run[l].cp /\ run'[l].trans = run[l].trans /\ run'[l].to = run[l].to
           /\ run'[l].e = run[l].e
<1>1. /\ run'[l].at = step
      /\ run'[l].sha = run[l].sha /\ run'[l].result = run[l].result
      /\ run'[l].cp = run[l].cp /\ run'[l].trans = run[l].trans /\ run'[l].to = run[l].to
      /\ run'[l].e = run[l].e
  BY DEF Goes, RunsOK, Run
<1> QED BY <1>1 DEF HandoffOK, ResumesOK

\* A label write of a route that was earned.
LEMMA WritesEarned ==
    ASSUME NEW l \in Lease, RunsOK, HandoffOK(run[l]), NEW seen, NEW to, NEW then,
           Writes(l, seen, to, then), Earned(to)
    PROVE  HandoffOK(run'[l])
<1>1. /\ run'[l].at = "project" /\ run'[l].to = to
      /\ run'[l].sha = run[l].sha /\ run'[l].result = run[l].result
      /\ run'[l].cp = run[l].cp
  BY DEF Writes, RunsOK, Run
<1>2. ResumesOK(run'[l])
  BY <1>1 DEF HandoffOK, ResumesOK
<1> QED BY <1>1, <1>2 DEF HandoffOK, NotesOK, After

\* The route of a run that said all it had to say.
LEMMA MoveEarned ==
    ASSUME NEW l \in Lease, RunsOK, HandoffOK(run[l]), At(l, "move")
    PROVE  Earned(run[l].trans)
<1> DEFINE r == run[l]
<1>1. /\ ForSHA(r.trans, r.result, r.sha) /\ <<"handoff", r.result, r.sha>> \in said
      /\ phase = "qa" /\ r.result.status \in Success => <<"policy", r.trans, r.sha>> \in said
      /\ phase = "qa" /\ r.result.status \in Success /\ r.sha # Source
             => <<"marker", r.sha>> \in said
  BY DEF HandoffOK, NotesOK, After, Saying, At
<1>2. CASE r.trans \in {"release", "wait"}
  <2>1. r.sha = Source /\ r.result.status \in Success /\ phase = "qa"
    BY <1>1, <1>2 DEF ForSHA
  <2>2. <<"handoff", r.result, r.sha>> \in Handoffs
    BY <1>1 DEF Handoffs
  <2> QED BY <1>1, <1>2, <2>1, <2>2 DEF Earned
<1>3. CASE r.trans = "review-again"
  <2>1. r.sha # Source /\ r.result.status \in Success /\ phase = "qa"
    BY <1>1, <1>3 DEF ForSHA
  <2>2. r.sha = r.result.by /\ r.result.status = "reports"
    BY <2>1 DEF HandoffOK, ResumesOK
  <2>3. r.result = [status |-> "reports", by |-> r.sha] /\ r.sha \in Lease
    BY <2>2 DEF RunsOK, RunOK, Run, Result, NoResult
  <2> QED BY <1>1, <1>3, <2>1, <2>3 DEF Earned
<1>4. CASE r.trans = "blocked"
  <2>1. r.result.status \in Failure
    BY <1>1, <1>4 DEF ForSHA
  <2>2. r.sha = Source
    BY <2>1 DEF HandoffOK, ResumesOK, Failure
  <2>3. <<"handoff", r.result, r.sha>> \in Handoffs
    BY <1>1 DEF Handoffs
  <2> QED BY <1>4, <2>1, <2>2, <2>3 DEF Earned
<1> QED BY <1>2, <1>3, <1>4 DEF Earned

LEMMA AgentOK ==
    ASSUME HInv, NEW l \in Lease, NEW s \in {"success", "reports", "failed", "blocked"},
           AgentReturns(l, s)
    PROVE  HandoffOK(run'[l])
<1> DEFINE result == [status |-> s, by |-> l]
<1>1. RunsOK /\ HandoffOK(run[l]) /\ run[l].at = "agent" /\ run[l].result = NoResult
  BY DEF HInv, PInv, IInv, AgentReturns, At, RunsOK, RunOK, Fits
<1>2. /\ run'[l].at = AfterResult(s) /\ run'[l].result = result /\ run'[l].sha = run[l].sha
      /\ run'[l].cp = run[l].cp
  BY <1>1 DEF AgentReturns, RunsOK, Run
<1>3. run[l].sha = Source /\ run[l].cp.result = NoResult /\ result # NoResult
  BY <1>1 DEF HandoffOK, ResumesOK, NoResult
<1>4. ResumesOK(run'[l])
  BY <1>1, <1>2, <1>3 DEF HandoffOK, ResumesOK
<1>5. AfterResult(s) \in {"publish", "plan"}
  BY DEF AfterResult
<1> HIDE DEF result
<1> QED BY <1>2, <1>3, <1>4, <1>5 DEF HandoffOK, NotesOK, After

LEMMA LookOK ==
    ASSUME HInv, NEW l \in Lease, Look(l)
    PROVE  HandoffOK(run'[l])
<1>1. RunsOK /\ HandoffOK(run[l]) /\ run[l].at = "look"
  BY DEF HInv, PInv, IInv, Look, At
<1>2. /\ run'[l].at \in {AfterGate(l), "refuse"} /\ run'[l].result = run[l].result
      /\ run'[l].sha = run[l].sha /\ run'[l].cp = run[l].cp
  BY <1>1 DEF Look, RunsOK, Run
<1>3. ResumesOK(run'[l])
  BY <1>1, <1>2 DEF HandoffOK, ResumesOK
<1>4. /\ AfterGate(l) \in {"start", "publish", "plan"}
      /\ AfterGate(l) = "plan" => run[l].result # NoResult
  BY DEF AfterGate, AfterResult
<1> QED BY <1>2, <1>3, <1>4 DEF HandoffOK, NotesOK, After

LEMMA CommitOK ==
    ASSUME HInv, NEW l \in Lease, CommitReports(l)
    PROVE  HandoffOK(run'[l])
<1>1. /\ RunsOK /\ HandoffOK(run[l]) /\ run[l].at = "commit" /\ run[l].result.status = "reports"
      /\ run[l].result # NoResult
  BY DEF HInv, PInv, IInv, CommitReports, At, RunsOK, RunOK, Fits, NoResult
<1>2. head \in {Source, run[l].result.by} /\ head' \in {head, run[l].result.by}
  BY <1>1 DEF CommitReports, Expects, At
<1>3. /\ run'[l].at = "published" /\ run'[l].result = run[l].result
      /\ run'[l].sha = head' /\ run'[l].cp = run[l].cp
  BY <1>1 DEF CommitReports, RunsOK, Run
<1>4. ResumesOK(run'[l])
  BY <1>1, <1>2, <1>3 DEF HandoffOK, ResumesOK
<1> QED BY <1>1, <1>3, <1>4 DEF HandoffOK, NotesOK, After

\* The transition of a resumed run is the one on record, unless it made a commit since; one
\* for a new review is not taken back to the SHA of the event, which HEAD has left.
LEMMA PlanOK ==
    ASSUME HInv, NEW l \in Lease, Plan(l)
    PROVE  /\ HandoffOK(run'[l])
           /\ \A e \in Event : CheckpointOK(saved'[e])
<1> DEFINE r == run[l]
<1>1. RunsOK /\ TypeOK /\ HandoffOK(r) /\ r.at = "plan" /\ r.result # NoResult /\ r \in Run
  BY DEF HInv, PInv, IInv, Plan, At, HandoffOK, RunsOK
<1>2. PICK t \in Transitions(l) :
          /\ Sees(r.sha, {"running", t})
          /\ Saves(l, [some |-> TRUE, result |-> r.result, trans |-> t])
          /\ run' = [run EXCEPT ![l].at = "handoff", ![l].live = route, ![l].trans = t]
  BY DEF Plan
<1>3. r.cp.trans # "none" => CheckpointOK(r.cp) /\ r.cp.result = r.result
  BY <1>1 DEF HandoffOK, ResumesOK, CheckpointOK
<1>4. head = r.sha
  BY <1>2 DEF Sees
<1>5. ForSHA(t, r.result, r.sha)
  <2>1. CASE PostQAReview(l)
    <3>1. t = "review-again"
      BY <1>2, <2>1 DEF Transitions
    <3> QED BY <2>1, <3>1 DEF PostQAReview, Succeeded, ForSHA, Success, Failure
  <2>2. CASE ~PostQAReview(l) /\ r.cp.trans # "none"
    <3>1. t = r.cp.trans
      BY <1>2, <2>2 DEF Transitions
    <3>2. t \in {"release", "wait", "review-again"} => r.result.status \in Success /\ phase = "qa"
      BY <1>3, <2>2, <3>1 DEF CheckpointOK
    <3>3. t \in {"release", "wait", "review-again"} => r.sha = Source
      BY <2>2, <3>2 DEF PostQAReview, Succeeded, Success
    <3>4. t # "review-again"
      BY <1>3, <1>4, <2>2, <3>1, <3>3 DEF CheckpointOK
    <3>5. t = "blocked" => r.result.status \in Failure
      BY <1>3, <2>2, <3>1 DEF CheckpointOK
    <3> QED BY <3>2, <3>3, <3>4, <3>5 DEF ForSHA
  <2>3. CASE ~PostQAReview(l) /\ r.cp.trans = "none"
    <3>1. t \in Targets(l)
      BY <1>2, <2>3 DEF Transitions
    <3>2. Succeeded(l) \/ r.result.status \in Failure
      BY <1>1 DEF Run, Result, Succeeded, Failure
    <3> QED BY <2>3, <3>1, <3>2 DEF Targets, PostQAReview, Succeeded, ForSHA, Success
  <2> QED BY <2>1, <2>2, <2>3
<1>6. /\ run'[l].at = "handoff" /\ run'[l].trans = t /\ run'[l].result = r.result
      /\ run'[l].sha = r.sha /\ run'[l].cp = r.cp
  BY <1>1, <1>2 DEF RunsOK, Run
<1>7. HandoffOK(run'[l])
  <2>1. ResumesOK(run'[l])
    BY <1>1, <1>6 DEF HandoffOK, ResumesOK
  <2> QED BY <1>5, <1>6, <2>1 DEF HandoffOK, NotesOK, After
<1> DEFINE cp == [some |-> TRUE, result |-> r.result, trans |-> t]
<1>8. CheckpointOK(cp)
  BY <1>1, <1>4, <1>5 DEF CheckpointOK, ForSHA
<1>9. saved' = [saved EXCEPT ![r.e] = cp] /\ \A e \in Event : CheckpointOK(saved[e])
  BY <1>2 DEF Saves, HInv
<1> HIDE DEF cp
<1>10. \A e \in Event : CheckpointOK(saved'[e])
  BY <1>1, <1>8, <1>9 DEF TypeOK
<1> QED BY <1>7, <1>10

\* The comments of a run, in their order.
LEMMA NoteFollows ==
    ASSUME NEW l \in Lease, HandoffOK(run[l]), run[l].at \in {"handoff", "policy", "marker"},
           NEW notes, said \cup {Note(l)} \subseteq notes
    PROVE  NotesOK(run[l], AfterNote(l), notes)
<1> DEFINE r == run[l]
<1>0. /\ After(r) = r.at /\ Saying(r) = said /\ NotesOK(r, r.at, said)
      /\ AfterNote(l) \in {"policy", "marker", "move"}
  BY DEF HandoffOK, After, Saying, AfterNote
<1>1. ForSHA(r.trans, r.result, r.sha)
  BY <1>0 DEF NotesOK
<1>2. CASE r.at = "handoff"
  <2>1. Note(l) = <<"handoff", r.result, r.sha>>
    BY <1>2 DEF Note, At
  <2>2. AfterNote(l) = IF Succeeded(l) /\ phase = "qa" THEN "policy" ELSE "move"
    BY <1>2 DEF AfterNote, At
  <2> QED BY <1>1, <2>1, <2>2 DEF NotesOK, Succeeded, Success
<1>3. CASE r.at = "policy"
  <2>1. Note(l) = <<"policy", r.trans, r.sha>>
    BY <1>3 DEF Note, At
  <2>2. AfterNote(l) = IF PostQAReview(l) THEN "marker" ELSE "move"
    BY <1>3 DEF AfterNote, At
  <2>3. <<"handoff", r.result, r.sha>> \in notes
    BY <1>0, <1>3 DEF NotesOK
  <2> QED BY <1>1, <2>1, <2>2, <2>3 DEF NotesOK, PostQAReview, Succeeded, Success
<1>4. CASE r.at = "marker"
  <2>1. Note(l) = <<"marker", r.sha>> /\ AfterNote(l) = "move"
    BY <1>4 DEF Note, AfterNote, At
  <2>2. <<"handoff", r.result, r.sha>> \in notes /\ <<"policy", r.trans, r.sha>> \in notes
    BY <1>0, <1>4 DEF NotesOK
  <2> QED BY <1>1, <2>1, <2>2 DEF NotesOK
<1> QED BY <1>2, <1>3, <1>4

LEMMA NotePostsOK ==
    ASSUME HInv, NEW l \in Lease, NotePosts(l)
    PROVE  HandoffOK(run'[l])
<1>1. /\ RunsOK /\ HandoffOK(run[l]) /\ run[l].at \in {"handoff", "policy", "marker"}
  BY DEF HInv, PInv, IInv, NotePosts
<1>2. AfterNote(l) \in {"policy", "marker", "move"}
  BY DEF AfterNote
<1>3. CASE Posted(l)
  <2>1. Goes(l, AfterNote(l)) /\ Note(l) \in said
    BY <1>3 DEF NotePosts, Posted
  <2>2. NotesOK(run[l], AfterNote(l), said)
    BY <1>1, <2>1, NoteFollows
  <2>3. /\ run'[l].at = AfterNote(l) /\ ResumesOK(run'[l]) /\ run'[l].sha = run[l].sha
        /\ run'[l].result = run[l].result /\ run'[l].trans = run[l].trans
    BY <1>1, <2>1, GoesOn
  <2>4. NotesOK(run'[l], AfterNote(l), said)
    BY <2>2, <2>3 DEF NotesOK
  <2> QED BY <1>2, <2>3, <2>4 DEF HandoffOK, After, Saying
<1>4. CASE ~Posted(l)
  <2>1. /\ run'[l].at = "post" /\ run'[l].note = Note(l) /\ run'[l].then = AfterNote(l)
        /\ run'[l].sha = run[l].sha /\ run'[l].result = run[l].result
        /\ run'[l].trans = run[l].trans /\ run'[l].cp = run[l].cp
    BY <1>1, <1>4 DEF NotePosts, Says, RunsOK, Run
  <2>2. ResumesOK(run'[l])
    BY <1>1, <2>1 DEF HandoffOK, ResumesOK
  <2>3. NotesOK(run[l], AfterNote(l), said \cup {Note(l)})
    BY <1>1, NoteFollows
  <2>4. NotesOK(run'[l], AfterNote(l), said \cup {Note(l)})
    BY <2>1, <2>3 DEF NotesOK
  <2> QED BY <2>1, <2>2, <2>4 DEF HandoffOK, After, Saying
<1> QED BY <1>3, <1>4

\* The comment is there, and the run is where it was to be then.
LEMMA PostOK ==
    ASSUME HInv, NEW l \in Lease, Post(l)
    PROVE  LET q == run'[l] IN
           /\ ResumesOK(q)
           /\ q.at \in {"policy", "marker", "move", "refused"}
           /\ NotesOK(q, q.at, said')
<1>1. /\ RunsOK /\ HandoffOK(run[l]) /\ run[l].at = "post"
      /\ run[l].then \in {"policy", "marker", "move", "refused"}
  BY DEF HInv, PInv, IInv, Post, At, RunsOK, RunOK, Fits
<1>2. /\ run'[l].at = run[l].then
      /\ run'[l].sha = run[l].sha /\ run'[l].result = run[l].result
      /\ run'[l].trans = run[l].trans /\ run'[l].cp = run[l].cp
  BY <1>1 DEF Post, RunsOK, Run
<1>3. ResumesOK(run'[l])
  BY <1>1, <1>2 DEF HandoffOK, ResumesOK
<1>4. NotesOK(run[l], run[l].then, said')
  BY <1>1 DEF HandoffOK, After, Saying, Post
<1>5. NotesOK(run'[l], run[l].then, said')
  BY <1>2, <1>4 DEF NotesOK
<1> QED BY <1>1, <1>2, <1>3, <1>5

\* The other steps of a run.
LEMMA OthersOK ==
    ASSUME HInv, NEW l \in Lease, Runs(l), ~Look(l), ~CommitReports(l), ~Plan(l), ~NotePosts(l),
           ~Post(l), ~Finish(l)
    PROVE  HandoffOK(run'[l])
<1>a. RunsOK /\ HandoffOK(run[l])
  BY DEF HInv, PInv, IInv
<1>1. CASE Begin(l)
  <2>1. run[l].result = run[l].cp.result /\ Goes(l, "look")
    BY <1>a, <1>1 DEF Begin, At, HandoffOK
  <2> QED BY <1>a, <2>1, GoesOn DEF HandoffOK, NotesOK, After
<1>2. CASE Refuse(l)
  <2>1. /\ run'[l].at = "post" /\ run'[l].note = Gate /\ run'[l].then = "refused"
        /\ run'[l].sha = run[l].sha /\ run'[l].result = run[l].result
        /\ run'[l].cp = run[l].cp
    BY <1>a, <1>2 DEF Refuse, Says, RunsOK, Run
  <2>2. ResumesOK(run'[l])
    BY <1>a, <2>1 DEF HandoffOK, ResumesOK
  <2> QED BY <2>1, <2>2 DEF HandoffOK, NotesOK, After, Saying
<1>b. CASE Block(l)
  <2>1. Gate \in said
    BY <1>a, <1>b DEF Block, At, HandoffOK, NotesOK, After, Saying
  <2>2. Earned("blocked")
    BY <2>1 DEF Earned
  <2> QED BY <1>a, <1>b, <2>2, WritesEarned DEF Block
<1>3. CASE Start(l)
  <2>1. CASE Goes(l, "started")
    BY <1>a, <2>1, GoesOn, QuietOK DEF Quiet
  <2>2. CASE Writes(l, "todo", "running", "started")
    BY <1>a, <2>2, WritesEarned DEF Earned
  <2> QED BY <1>3, <2>1, <2>2 DEF Start
<1>4. CASE Started(l) \/ Put(l) \/ Publish(l) \/ Announce(l) \/ Dispatch(l)
  <2>1. \E step \in Quiet : Goes(l, step)
    BY <1>4 DEF Started, Put, Publish, Announce, Dispatch, Quiet
  <2> QED BY <1>a, <2>1, GoesOn, QuietOK
<1>5. ASSUME NEW s \in {"success", "reports", "failed", "blocked"}, AgentReturns(l, s)
      PROVE  HandoffOK(run'[l])
  BY <1>5, AgentOK
<1>6. CASE Project(l) \/ VerifyBefore(l)
  <2>1. /\ \E step \in {"verify", "put"} : Goes(l, step)
        /\ Earned(run[l].to)
    BY <1>a, <1>6 DEF Project, VerifyBefore, At, HandoffOK
  <2> QED BY <1>a, <2>1, GoesOn DEF HandoffOK, NotesOK, After
<1>7. CASE VerifyAfter(l)
  <2>1. run[l].then \in Quiet
    BY <1>a, <1>7 DEF VerifyAfter, At, RunsOK, RunOK, Fits, Quiet
  <2>2. /\ run'[l].at = run[l].then /\ run'[l].sha = run[l].sha /\ run'[l].cp = run[l].cp
        /\ run'[l].result = run[l].result
    BY <1>a, <1>7 DEF VerifyAfter, RunsOK, Run
  <2>3. ResumesOK(run'[l])
    BY <1>a, <2>2 DEF HandoffOK, ResumesOK
  <2> QED BY <2>1, <2>2, <2>3, QuietOK
<1>8. CASE Published(l)
  <2>1. run[l].result # NoResult /\ Goes(l, "plan")
    BY <1>a, <1>8 DEF Published, At, HandoffOK
  <2> QED BY <1>a, <2>1, GoesOn DEF HandoffOK, NotesOK, After
<1>9. CASE Move(l)
  <2>1. CASE Writes(l, "running", run[l].trans, "moved")
    BY <1>a, <1>9, <2>1, MoveEarned, WritesEarned DEF Move
  <2>2. CASE Goes(l, "moved")
    BY <1>a, <2>2, GoesOn, QuietOK DEF Quiet
  <2> QED BY <1>9, <2>1, <2>2 DEF Move
<1> QED BY <1>1, <1>2, <1>b, <1>3, <1>4, <1>5, <1>6, <1>7, <1>8, <1>9 DEF Runs

\* A step changes one run at most, and rows are saved by a run that plans, or without a
\* transition.
LEMMA HandoffStep ==
    HInv /\ [Next]_vars => /\ \A e \in Event : CheckpointOK(saved[e])'
                           /\ \A m \in Lease : HandoffOK(run[m])'
<1> SUFFICES ASSUME HInv, [Next]_vars
             PROVE  /\ \A e \in Event : CheckpointOK(saved[e])'
                    /\ \A m \in Lease : HandoffOK(run[m])'
  OBVIOUS
<1>0. /\ TypeOK /\ RunsOK /\ \A e \in Event : CheckpointOK(saved[e])
      /\ \A m \in Lease : HandoffOK(run[m])
  BY DEF HInv, PInv, IInv
<1>a. Onwards
  BY <1>0, NextOnwards
<1>b. ASSUME NEW m \in Lease, HandoffOK(run'[m]) PROVE HandoffOK(run[m])'
  <2>1. PICK q : q = run'[m]
    OBVIOUS
  <2>2. HandoffOK(q)'
    BY <1>a, <1>b, <2>1, HandoffStays
  <2> QED BY <2>1, <2>2
<1>c. ASSUME NEW e \in Event, CheckpointOK(saved'[e]) PROVE CheckpointOK(saved[e])'
  BY <1>a, <1>c DEF Onwards, CheckpointOK
<1>d. ASSUME NEW m \in Lease, run'[m] = run[m] PROVE HandoffOK(run[m])'
  BY <1>0, <1>b, <1>d
<1>e. saved' = saved => \A e \in Event : CheckpointOK(saved[e])'
  BY <1>0, <1>c
<1>f. HandoffOK(NoRun)
  BY DEF HandoffOK, ResumesOK, NotesOK, CheckpointOK, After, NoRun, NoSave
<1>g. ASSUME NEW l \in Lease, run' = [run EXCEPT ![l] = NoRun], NEW m \in Lease
      PROVE  HandoffOK(run[m])'
  BY <1>0, <1>b, <1>d, <1>f, <1>g DEF RunsOK
<1>1. ASSUME NEW l \in Lease, Runs(l), NEW m \in Lease, m # l PROVE HandoffOK(run[m])'
  <2>1. run'[m] = run[m]
    BY <1>1, <1>0, OthersRest
  <2> QED BY <1>d, <2>1
<1>2. ASSUME NEW l \in Lease, Runs(l) PROVE HandoffOK(run[l])'
  <2>1. CASE Post(l)
    <3>1. PICK q : q = run'[l]
      OBVIOUS
    <3>2. /\ ResumesOK(q)
          /\ q.at \in {"policy", "marker", "move", "refused"}
          /\ NotesOK(q, q.at, said')
      BY <2>1, <3>1, PostOK
    <3>3. ResumesOK(q)'
      BY <1>a, <3>2, CheckpointStays DEF ResumesOK
    <3>4. NotesOK(q, q.at, said)'
      BY <1>a, <3>2 DEF Onwards, NotesOK, ForSHA
    <3>5. HandoffOK(q)'
      BY <3>2, <3>3, <3>4 DEF HandoffOK, After, Saying
    <3> QED BY <3>1, <3>5
  <2>2. CASE Finish(l)
    BY <1>g, <2>2 DEF Finish, Done, Raises
  <2>3. CASE ~Post(l) /\ ~Finish(l)
    BY <1>2, <1>b, <2>3, LookOK, CommitOK, PlanOK, NotePostsOK, OthersOK
  <2> QED BY <2>1, <2>2, <2>3
<1>3. ASSUME NEW l \in Lease, Runs(l), NEW e \in Event PROVE CheckpointOK(saved[e])'
  <2>1. CASE Plan(l)
    BY <1>c, <2>1, PlanOK
  <2>2. ASSUME NEW cp, Saves(l, cp), cp.trans = "none" PROVE CheckpointOK(saved[e])'
    BY <1>0, <1>c, <2>2 DEF Saves, TypeOK, CheckpointOK
  <2>3. CASE Start(l) \/ (\E s \in {"success", "reports", "failed", "blocked"} : AgentReturns(l, s))
             \/ Published(l)
    BY <2>2, <2>3 DEF Start, AgentReturns, Published, NoSave
  <2>4. CASE Finish(l)
    BY <1>e, <2>4 DEF Finish, Done, Raises, Finishes, row
  <2>5. CASE ~Plan(l) /\ ~Start(l) /\ ~Published(l) /\ ~Finish(l)
             /\ ~\E s \in {"success", "reports", "failed", "blocked"} : AgentReturns(l, s)
    <3>1. saved' = saved
      BY <1>3, <2>5
         DEF Runs, Begin, Look, Refuse, Block, Started, Project, VerifyBefore, Put, VerifyAfter,
             Publish, CommitReports, NotePosts, Post, Move, Announce, Dispatch, row
    <3> QED BY <1>e, <3>1
  <2> QED BY <2>1, <2>3, <2>4, <2>5
<1>4. ASSUME NEW l \in Lease, Ends(l)
      PROVE  saved' = saved /\ \A m \in Lease : HandoffOK(run[m])'
  <2>1. run' = [run EXCEPT ![l] = NoRun] /\ saved' = saved
    BY <1>4 DEF Ends, Stale, Refused, LosesLease, Fault, Crash, Shutdown, Raises, Finishes, row
  <2> QED BY <1>g, <2>1
<1>5. ASSUME NEW e \in Event, NEW l \in Lease, Claim(e, l), NEW m \in Lease
      PROVE  HandoffOK(run[m])'
  <2> DEFINE q == [NoRun EXCEPT !.e = e, !.at = "begin", !.cp = saved[e],
                                !.result = saved[e].result]
  <2>1. run' = [run EXCEPT ![l] = q]
    BY <1>5 DEF Claim
  <2>2. q.at = "begin" /\ q.cp = saved[e] /\ q.result = saved[e].result /\ q.sha = Source
    BY DEF NoRun
  <2> HIDE DEF q
  <2>3. HandoffOK(q)
    BY <1>0, <2>2 DEF HandoffOK, ResumesOK, NotesOK, After
  <2> QED BY <1>0, <1>b, <1>d, <2>1, <2>3 DEF RunsOK
<1>6. (\E l \in Lease : Expire(l)) \/ CIPasses \/ NextTakes \/ OtherPush \/ UNCHANGED vars
      => run' = run /\ saved' = saved
  BY DEF Expire, CIPasses, NextTakes, OtherPush, row, vars
<1>7. (\E e \in Event, l \in Lease : Claim(e, l)) => saved' = saved
  BY DEF Claim
<1>8. \A m \in Lease : HandoffOK(run[m])'
  BY <1>1, <1>2, <1>4, <1>5, <1>6, <1>d DEF Next
<1>9. \A e \in Event : CheckpointOK(saved[e])'
  BY <1>3, <1>4, <1>6, <1>7, <1>e DEF Next
<1> QED BY <1>8, <1>9

\* Labels are written under a lease that was checked, and that stays until they are.
LEMMA PuttingStep == HInv /\ [Next]_vars => Putting'
<1> SUFFICES ASSUME HInv, [Next]_vars, NEW m \in Lease, run'[m].at = "put" PROVE Leased(m)'
  BY DEF Putting, At
<1>0. TypeOK /\ RunsOK /\ Owned /\ Putting /\ run \in [Lease -> Run] /\ run[m] \in Run
  BY DEF HInv, PInv, IInv, RunsOK
<1>1. CASE Runs(m)
  <2>1. VerifyBefore(m)
    <3>1. ~(\/ Begin(m) \/ Block(m) \/ Start(m) \/ Started(m) \/ Project(m) \/ Put(m)
            \/ Publish(m) \/ Published(m) \/ Move(m) \/ Announce(m) \/ Dispatch(m))
      BY <1>0 DEF Begin, Block, Start, Started, Project, Put, Publish, Published, Move, Announce,
                  Dispatch, Goes, Writes, Run
    <3>2. AfterGate(m) # "put" /\ AfterNote(m) # "put" /\ \A s : AfterResult(s) # "put"
      BY DEF AfterGate, AfterNote, AfterResult
    <3>3. ~Look(m) /\ ~NotePosts(m) /\ ~\E s \in {"success", "reports", "failed", "blocked"} :
                                            AgentReturns(m, s)
      BY <1>0, <3>2 DEF Look, NotePosts, AgentReturns, Goes, Says, Run
    <3>6. ~Refuse(m)
      BY <1>0 DEF Refuse, Says, Run
    <3>4. ~VerifyAfter(m) /\ ~Post(m)
      BY <1>0 DEF VerifyAfter, Post, At, RunsOK, RunOK, Fits, Run
    <3>5. ~CommitReports(m) /\ ~Plan(m) /\ ~Finish(m)
      <4>1. ASSUME NEW t, run' = [run EXCEPT ![m].at = "handoff", ![m].live = route,
                                              ![m].trans = t]
            PROVE  FALSE
        BY <1>0, <4>1 DEF Run
      <4>2. ~CommitReports(m)
        BY <1>0 DEF CommitReports, Run
      <4>3. ~Finish(m)
        BY <1>0 DEF Finish, Done, Raises, NoRun
      <4> QED BY <4>1, <4>2, <4>3 DEF Plan
    <3> QED BY <1>1, <3>1, <3>3, <3>4, <3>5, <3>6 DEF Runs
  <2>2. Leased(m) /\ UNCHANGED <<own, row>> /\ run'[m].e = run[m].e
    BY <1>0, <2>1 DEF VerifyBefore, Verified, Goes, Run
  <2> QED BY <2>2 DEF Leased, HoldsLease, own, row
<1>2. ASSUME run'[m] = run[m] PROVE Leased(m)'
  BY <1>0, <1>2, LeaseStays DEF Putting, At
<1> QED BY <1>0, <1>1, <1>2, RunMoves

LEMMA HandedOffStep == HInv /\ [Next]_vars => HandedOff'
<1> SUFFICES ASSUME HInv, [Next]_vars PROVE HandedOff'
  OBVIOUS
<1>0. TypeOK /\ RunsOK /\ HandedOff /\ \A l \in Lease : HandoffOK(run[l])
  BY DEF HInv, PInv, IInv
<1>a. Onwards
  BY <1>0, NextOnwards
<1>b. ASSUME NEW to, to = route', Earned(to) PROVE HandedOff'
  <2>1. Earned(to)'
    BY <1>a, <1>b, EarnedStays
  <2>2. to \in {"release", "wait"} =>
            /\ (\E n \in Handoffs : n[2].status \in {"success", "reports"} /\ n[3] = Source)'
            /\ <<"policy", to, Source>> \in said'
    BY <2>1 DEF Earned, Success
  <2>3. to = "review-again" =>
            \E l \in Lease :
                /\ <<"handoff", [status |-> "reports", by |-> l], l>> \in said'
                /\ {<<"policy", to, l>>, <<"marker", l>>} \subseteq said'
    BY <2>1 DEF Earned
  <2>4. to = "blocked" =>
            \/ Gate \in said'
            \/ (\E n \in Handoffs : n[2].status \in {"failed", "blocked"} /\ n[3] = Source)'
    BY <2>1 DEF Earned, Failure, Gate
  <2> QED BY <1>b, <2>2, <2>3, <2>4 DEF HandedOff, Gate
<1>c. Earned(route)
  BY <1>0 DEF HandedOff, Earned, Success, Failure
<1>1. CASE route' = route
  BY <1>b, <1>c, <1>1
<1>2. ASSUME NEW l \in Lease, Put(l) PROVE HandedOff'
  BY <1>0, <1>b, <1>2 DEF Put, At, HandoffOK
<1>3. CASE NextTakes
  <2>1. Earned("elsewhere") /\ route' = "elsewhere"
    BY <1>3 DEF NextTakes, Earned
  <2> QED BY <1>b, <2>1
<1>4. ASSUME NEW l \in Lease, Runs(l), ~Put(l) PROVE route' = route
  BY <1>4
     DEF Runs, Begin, Look, Refuse, Block, Start, Started, AgentReturns, Project, VerifyBefore,
         VerifyAfter, Publish, CommitReports, Published, Plan, NotePosts, Post, Move, Announce,
         Dispatch, Finish, Done, Raises, github
<1>5. ASSUME NEW l \in Lease, Ends(l) \/ Expire(l) PROVE route' = route
  BY <1>5 DEF Ends, Stale, Refused, LosesLease, Fault, Crash, Shutdown, Raises, Expire, github
<1>6. (\E e \in Event, l \in Lease : Claim(e, l)) \/ CIPasses \/ OtherPush \/ UNCHANGED vars
      => route' = route
  BY DEF Claim, CIPasses, OtherPush, vars, github
<1> QED BY <1>1, <1>2, <1>3, <1>4, <1>5, <1>6 DEF Next

LEMMA HInvInit == Init => HInv
<1> SUFFICES ASSUME Init PROVE HInv
  OBVIOUS
<1>1. PInv
  BY InvInit, NullAssumption DEF PInv, Init, Own!Init, Owned, Posting, At, NoRun
<1>2. \A e \in Event : CheckpointOK(saved[e])
  BY DEF Init, CheckpointOK, NoSave
<1>3. \A l \in Lease : HandoffOK(run[l])
  BY DEF Init, HandoffOK, ResumesOK, NotesOK, CheckpointOK, After, NoRun, NoSave
<1>4. Putting /\ HandedOff
  BY DEF Init, Putting, At, NoRun, HandedOff
<1> QED BY <1>1, <1>2, <1>3, <1>4 DEF HInv

LEMMA HInvStep == HInv /\ [Next]_vars => HInv'
<1> SUFFICES ASSUME HInv, [Next]_vars PROVE HInv'
  OBVIOUS
<1>1. PInv'
  BY InvStep, OwnedStep, PostingStep DEF HInv, PInv
<1> QED BY <1>1, HandoffStep, PuttingStep, HandedOffStep DEF HInv

\* The labels that QA leaves on the pull request follow the comments that account for them,
\* whatever attempt of whatever delivery wrote them: process() posts before it moves, and a
\* resumed run takes the transition on record only for the SHA it was decided for.
THEOREM HandoffBeforeLabels == Spec => []HandedOff
<1>1. HInv => HandedOff
  BY DEF HInv
<1> QED BY <1>1, HInvInit, HInvStep, PTL DEF Spec

-----------------------------------------------------------------------------
(* Nobody moves the labels while the agent works.                          *)

Working == {"agent", "publish", "commit", "published", "plan"}

UInv == HInv /\ UndisturbedRun

\* A run has the leases it has from its beginning.
LEMMA LeasedBefore ==
    ASSUME TypeOK, RunsOK, Owned, [Next]_vars,
           NEW m \in Lease, run[m].at \in Working, run'[m] = run[m], Leased(m)'
    PROVE  Leased(m)
<1> DEFINE e == run[m].e
<1>0. /\ run[m].at \in Working /\ e \in Event /\ m \in inForce' /\ status'[e] = "running"
      /\ lease'[e] = m /\ owner'["operation"] = m /\ m # NoLease
  BY NullAssumption DEF Leased, HoldsLease, RunsOK, RunOK, Fits, Working
<1>a. ASSUME m \in inForce, status[e] = "running", lease[e] = m, owner["operation"] = m
      PROVE  Leased(m)
  BY <1>a DEF Leased, HoldsLease
<1> HIDE DEF e
<1>b. UNCHANGED <<own, status, lease>> => Leased(m)
  BY <1>0, <1>a DEF own
<1>1. ASSUME NEW f \in Event, NEW l \in Lease, Claim(f, l) PROVE Leased(m)
  <2>1. l # m
    BY <1>0, <1>1 DEF Claim, RunsOK, NoRun, Working
  <2>2. f # e
    BY <1>0, <1>1, <2>1 DEF Claim, TypeOK
  <2>3. status'[e] = status[e] /\ lease'[e] = lease[e]
    BY <1>0, <1>1, <2>2 DEF Claim, TypeOK
  <2>4. inForce' = inForce \cup {l} /\ owner' = owner
    BY <1>1 DEF Claim, Own!Issue
  <2> QED BY <1>0, <1>a, <2>1, <2>3, <2>4
<1>2. ASSUME NEW l \in Lease, Own!End({l}) PROVE m \in inForce /\ owner["operation"] = m
  BY <1>0, <1>2 DEF Own!End, Owned
<1>3. ASSUME NEW l \in Lease, run[l].at # "idle", NEW outcome, Finishes(l, outcome)
      PROVE  Leased(m)
  <2>1. CASE HoldsLease(run[l].e, l)
    <3>1. run[l].e \in Event
      BY <1>3 DEF RunsOK, RunOK, Fits
    <3>2. run[l].e # e
      BY <1>0, <1>3, <2>1, <3>1 DEF Finishes, TypeOK
    <3>3. status'[e] = status[e] /\ lease'[e] = lease[e]
      BY <1>0, <1>3, <2>1, <3>2 DEF Finishes, TypeOK
    <3> QED BY <1>0, <1>2, <1>3, <1>a, <2>1, <3>3 DEF Finishes
  <2>2. CASE ~HoldsLease(run[l].e, l)
    BY <1>3, <1>b, <2>2 DEF Finishes, row
  <2> QED BY <2>1, <2>2
<1>4. ASSUME NEW l \in Lease, Ends(l) \/ Finish(l) PROVE Leased(m)
  <2>1. \/ UNCHANGED <<own, row>>
        \/ run[l].at # "idle" /\ \E outcome : Finishes(l, outcome)
    BY <1>4, EndsUnderWay DEF Ends, Stale, Refused, LosesLease, Fault, Crash, Shutdown, Finish,
                               Done, Raises, At
  <2> QED BY <1>3, <1>b, <2>1 DEF row
<1>5. ASSUME NEW l \in Lease, Expire(l) PROVE Leased(m)
  BY <1>0, <1>2, <1>5, <1>a DEF Expire, row
<1>6. ASSUME NEW l \in Lease, Begin(l) \/ Project(l) PROVE Leased(m)
  <2>1. l # m
    BY <1>0, <1>6 DEF Begin, Project, At, Working
  <2>2. owner["operation"] = m /\ UNCHANGED inForce
    BY <1>0, <1>6, <2>1 DEF Begin, Project, Obtains, Own!Take, Owned, own
  <2>3. UNCHANGED row
    BY <1>6 DEF Begin, Project
  <2> QED BY <1>0, <1>a, <2>2, <2>3 DEF row
<1>7. ASSUME NEW l \in Lease, Runs(l), ~(Begin(l) \/ Project(l) \/ Finish(l)) PROVE Leased(m)
  <2>1. UNCHANGED <<own, status, lease>>
    BY <1>7
       DEF Runs, Look, Refuse, Block, Start, Started, AgentReturns, VerifyBefore, Put, VerifyAfter,
           Publish, CommitReports, Published, Plan, NotePosts, Post, Move, Announce, Dispatch,
           Saves, row
  <2> QED BY <1>b, <2>1
<1>8. CIPasses \/ NextTakes \/ OtherPush \/ UNCHANGED vars => UNCHANGED <<own, row>>
  BY DEF CIPasses, NextTakes, OtherPush, vars
<1> QED BY <1>1, <1>4, <1>5, <1>6, <1>7, <1>8, <1>b DEF Next, row

LEMMA RouteStays ==
    ASSUME HInv, [Next]_vars, NEW m \in Lease, run[m].at \in Working, Leased(m), route = "running"
    PROVE  route' = "running"
<1>1. ASSUME NEW l \in Lease PROVE ~Put(l)
  <2>1. SUFFICES ASSUME Put(l) PROVE FALSE
    OBVIOUS
  <2>2. Leased(l) /\ l # m
    BY <2>1 DEF HInv, Putting, Put, At, Working
  <2> QED BY <2>2 DEF Leased
<1>2. ~NextTakes
  BY DEF NextTakes
<1>3. ASSUME NEW l \in Lease, Runs(l), ~Put(l) PROVE route' = route
  BY <1>3
     DEF Runs, Begin, Look, Refuse, Block, Start, Started, AgentReturns, Project, VerifyBefore,
         VerifyAfter, Publish, CommitReports, Published, Plan, NotePosts, Post, Move, Announce,
         Dispatch, Finish, Done, Raises, github
<1>4. ASSUME NEW l \in Lease, Ends(l) \/ Expire(l) PROVE route' = route
  BY <1>4 DEF Ends, Stale, Refused, LosesLease, Fault, Crash, Shutdown, Raises, Expire, github
<1>5. (\E e \in Event, l \in Lease : Claim(e, l)) \/ CIPasses \/ OtherPush \/ UNCHANGED vars
      => route' = route
  BY DEF Claim, CIPasses, OtherPush, vars, github
<1> QED BY <1>1, <1>2, <1>3, <1>4, <1>5 DEF Next

\* A run comes to its agent when the labels say RUNNING, and to its publication from there
\* or with a result it was resumed with.
LEMMA WorksOn ==
    ASSUME HInv, NEW m \in Lease, Runs(m), run'[m].at \in Working
    PROVE  \/ route' = "running" \/ run'[m].cp.result # NoResult
           \/ /\ run[m].at \in Working /\ run'[m].cp = run[m].cp /\ route' = route
              /\ Leased(m)' => Leased(m)
<1>0. RunsOK /\ run \in [Lease -> Run] /\ run[m] \in Run /\ RunOK(run[m]) /\ HandoffOK(run[m])
  BY DEF HInv, PInv, IInv, RunsOK, RunOK
<1>1. ~(\/ Begin(m) \/ Block(m) \/ Start(m) \/ Project(m) \/ VerifyBefore(m) \/ Put(m)
        \/ Move(m) \/ Announce(m) \/ Dispatch(m))
  BY <1>0 DEF Begin, Block, Start, Project, VerifyBefore, Put, Move, Announce, Dispatch, Goes,
              Writes, Run, Working
<1>2. ~NotePosts(m) /\ ~Refuse(m) /\ ~Post(m) /\ ~VerifyAfter(m)
  <2>1. ~VerifyAfter(m)
    BY <1>0 DEF VerifyAfter, At, RunOK, Fits, Run, Working
  <2>2. ~Post(m)
    BY <1>0 DEF Post, At, RunOK, Fits, Run, Working
  <2>3. AfterNote(m) \notin Working
    BY DEF AfterNote, Working
  <2>4. ~NotePosts(m)
    BY <1>0, <2>3 DEF NotePosts, Goes, Says, Run, Working
  <2>5. ~Refuse(m)
    BY <1>0 DEF Refuse, Says, Run, Working
  <2> QED BY <2>1, <2>2, <2>4, <2>5
<1>3. ~Plan(m) /\ ~Finish(m)
  <2>1. ASSUME NEW t, run' = [run EXCEPT ![m].at = "handoff", ![m].live = route, ![m].trans = t]
        PROVE  FALSE
    BY <1>0, <2>1 DEF Run, Working
  <2>2. ~Finish(m)
    BY <1>0 DEF Finish, Done, Raises, NoRun, Working
  <2> QED BY <2>1, <2>2 DEF Plan
<1>4. CASE Look(m)
  <2>1. /\ run[m].result = run[m].cp.result /\ run'[m].cp = run[m].cp
        /\ run'[m].at \in {AfterGate(m), "refuse"}
    BY <1>0, <1>4 DEF HandoffOK, Look, At, Run
  <2>2. AfterGate(m) # "start" => run[m].result # NoResult
    BY DEF AfterGate
  <2> QED BY <2>1, <2>2 DEF Working
<1>5. CASE Started(m)
  BY <1>5 DEF Started, Expects, At, Sees, github
<1>6. ASSUME NEW s \in {"success", "reports", "failed", "blocked"}, AgentReturns(m, s)
      PROVE  /\ run[m].at \in Working /\ run'[m].cp = run[m].cp /\ route' = route
             /\ Leased(m)' => Leased(m)
  <2>1. /\ run[m].at = "agent" /\ run'[m].cp = run[m].cp /\ run'[m].e = run[m].e
        /\ UNCHANGED <<own, route, status, lease>>
    BY <1>0, <1>6 DEF AgentReturns, At, Saves, Run, github
  <2> QED BY <2>1 DEF Working, Leased, HoldsLease, own
<1>7. CASE Publish(m) \/ Published(m)
  <2>1. /\ run[m].at \in {"publish", "published"} /\ run'[m].cp = run[m].cp
        /\ run'[m].e = run[m].e /\ UNCHANGED <<own, route, status, lease>>
    BY <1>0, <1>7 DEF Publish, Published, At, Goes, Saves, Run, github, row
  <2> QED BY <2>1 DEF Working, Leased, HoldsLease, own
<1>8. CASE CommitReports(m)
  <2>1. /\ run[m].at = "commit" /\ run'[m].cp = run[m].cp /\ run'[m].e = run[m].e
        /\ UNCHANGED <<own, route, status, lease>>
    BY <1>0, <1>8 DEF CommitReports, At, Run, row
  <2> QED BY <2>1 DEF Working, Leased, HoldsLease, own
<1> QED BY <1>1, <1>2, <1>3, <1>4, <1>5, <1>6, <1>7, <1>8 DEF Runs

LEMMA UndisturbedStep == UInv /\ [Next]_vars => UndisturbedRun'
<1> SUFFICES ASSUME UInv, [Next]_vars, NEW m \in Lease, run'[m].at \in Working, Leased(m)'
             PROVE  route' = "running" \/ run'[m].cp.result # NoResult
  BY DEF UndisturbedRun, Working
<1>0. HInv /\ TypeOK /\ RunsOK /\ Owned
  BY DEF UInv, HInv, PInv, IInv
<1>1. ASSUME run[m].at \in Working, Leased(m), run'[m].cp = run[m].cp
      PROVE  route' = "running" \/ run'[m].cp.result # NoResult
  <2>1. route = "running" \/ run[m].cp.result # NoResult
    BY <1>1 DEF UInv, UndisturbedRun, Working
  <2> QED BY <1>0, <1>1, <2>1, RouteStays
<1>2. CASE Runs(m)
  BY <1>0, <1>1, <1>2, WorksOn
<1>3. CASE run'[m] = run[m]
  BY <1>0, <1>1, <1>3, LeasedBefore
<1>4. run'[m].at \notin {"idle", "begin"}
  BY DEF Working
<1> QED BY <1>0, <1>2, <1>3, <1>4, RunMoves

\* As long as its lease is in force, a run that was told RUNNING works on a pull request
\* that stays RUNNING until its result is handed over (process(), keep_lease, write_labels).
THEOREM WorkUndisturbed == Spec => []UndisturbedRun
<1>1. Init => UInv
  BY HInvInit DEF UInv, UndisturbedRun, Init, NoRun
<1>2. UInv /\ [Next]_vars => UInv'
  BY HInvStep, UndisturbedStep DEF UInv
<1>3. UInv => UndisturbedRun
  BY DEF UInv
<1> QED BY <1>1, <1>2, <1>3, PTL DEF Spec
=============================================================================
