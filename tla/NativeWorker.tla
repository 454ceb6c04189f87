---------------------------- MODULE NativeWorker ----------------------------
(***************************************************************************)
(* The in-process worker of orchestrator/main.py: worker() claims an event *)
(* of the queue, process() takes one pull request through one phase, with  *)
(* a checkpoint that lets a later attempt resume under a new lease.        *)
(*                                                                         *)
(* A run is one execution of process() under one lease; it may go on after *)
(* its lease ended, so runs of several leases may overlap.  A step is what *)
(* process() does between two awaits, reads with only checks between them  *)
(* being one step; an outward write is a step of its own, in flight since  *)
(* the check before it.  Events carry the same binding: webhook and scan   *)
(* deliveries of one READY state.  The store is module Ownership.          *)
(***************************************************************************)
EXTENDS Naturals

CONSTANTS Phases,             \* phases a behaviour may be about
          Event,              \* deliveries in the queue
          Lease, NoLease,
          Source, Other,      \* the event's SHA, a commit of somebody else
          MaxRetries,         \* settings.max_retries
          Faults              \* what goes wrong: requests or the agent fail, the
                              \* process dies or is shut down, others push, the
                              \* evidence of the start is gone

ASSUME PhaseAssumption == Phases \subseteq {"prototype", "qa", "deploy"}
ASSUME NullAssumption == /\ NoLease \notin Lease /\ {Source, Other} \cap Lease = {}
                         /\ Source # Other
ASSUME FaultAssumption == Faults \subseteq {"request", "process", "push", "evidence"}

VARIABLES owner, inForce, ended,   \* Ownership, of the operation and projection keys
          phase,
          head, route,             \* the pull request: HEAD, canonical labels
          said,                    \* comments posted by the worker
          ci,                      \* the report commit is green
          dispatched,              \* keys of repository dispatches
          status, lease, attempts, saved,  \* the events' rows
          run                      \* the run under each lease

own == <<owner, inForce, ended>>
row == <<status, lease, attempts, saved>>
github == <<head, route, said, ci, dispatched>>
vars == <<own, phase, github, row, run>>

Own == INSTANCE Ownership WITH Key <- {"operation", "projection"}

\* A report commit is named by the result it publishes, a result by its run.
Commit == {Source, Other} \cup Lease

NoResult == [status |-> "none", by |-> NoLease]
\* "reports" is a success with report files to publish.
Result == {NoResult}
          \cup [status : {"success", "reports", "failed", "blocked"}, by : Lease]

Route == {"todo", "running", "blocked", "next", "release", "wait",
          "review-again", "elsewhere"}

\* The checkpoint: absent, or the start intent, the result, the transition.
NoSave == [some |-> FALSE, result |-> NoResult, trans |-> "none"]
Save == [some : BOOLEAN, result : Result, trans : Route \cup {"none"}]

Comment == ({"handoff"} \X Result \X Commit)
           \cup ({"policy"} \X Route \X Commit)
           \cup ({"marker", "gate"} \X Commit)

\* The comment of a start that the gate refused.
Gate == <<"gate", Source>>

\* Its event, its next step, the checkpoint it was given, its result, the
\* SHA it works for, the route it read, its transition, the label write or
\* comment in flight and the step after it.
NoRun == [e |-> "none", at |-> "idle", cp |-> NoSave, result |-> NoResult,
          sha |-> Source, live |-> "none", trans |-> "none",
          seen |-> "none", to |-> "none", note |-> <<>>, then |-> "none"]

Step == {"idle", "begin", "look", "refuse", "refused", "start", "started", "agent",
         "project", "verify", "put", "verified", "publish", "commit", "published",
         "plan", "handoff", "policy", "marker", "post", "move", "moved",
         "dispatch", "finish"}

Run == [e : Event \cup {"none"}, at : Step, cp : Save, result : Result, sha : Commit,
        live : Route \cup {"none"}, trans : Route \cup {"none"},
        seen : Route \cup {"none"}, to : Route \cup {"none"},
        note : Comment \cup {<<>>}, then : Step \cup {"none"}]

TypeOK == /\ phase \in Phases
          /\ head \in Commit
          /\ route \in Route
          /\ dispatched \subseteq Event \X Commit
          /\ status \in [Event -> {"queued", "running", "retry", "done", "failed"}]
          /\ lease \in [Event -> Lease \cup {NoLease}]
          /\ attempts \in [Event -> Nat]
          /\ saved \in [Event -> Save]
          /\ run \in [Lease -> Run]
          /\ said \subseteq Comment
          /\ \A e \in Event : status[e] = "running" <=> lease[e] # NoLease
          /\ \A l \in Lease : run[l].at # "idle" => run[l].e \in Event

Init == /\ Own!Init
        /\ phase \in Phases
        /\ head = Source
        /\ route = "todo"
        /\ said = {}
        /\ ci = FALSE
        /\ dispatched = {}
        /\ status = [e \in Event |-> "queued"]
        /\ lease = [e \in Event |-> NoLease]
        /\ attempts = [e \in Event |-> 0]
        /\ saved = [e \in Event |-> NoSave]
        /\ run = [l \in Lease |-> NoRun]

-----------------------------------------------------------------------------
(* The store, as process() asks for it.                                    *)

HoldsLease(e, l) == status[e] = "running" /\ lease[e] = l /\ l \in inForce

\* require_lease
Leased(l) == HoldsLease(run[l].e, l) /\ owner["operation"] = l

Obtains(k, l) == IF owner[k] = l THEN UNCHANGED own ELSE Own!Take(k, l)

\* Mutant of Saves: a run that lost its lease still saves.
SavesUnfenced(l, cp) == /\ saved' = [saved EXCEPT ![run[l].e] = cp]
                        /\ UNCHANGED <<status, lease, attempts>>

Saves(l, cp) == /\ HoldsLease(run[l].e, l)
                /\ saved' = [saved EXCEPT ![run[l].e] = cp]
                /\ UNCHANGED <<status, lease, attempts>>

\* Mutant of Finishes: the row keeps its lease.
FinishesLeased(l, outcome) ==
    /\ Own!End({l})
    /\ status' = [status EXCEPT ![run[l].e] = outcome]
    /\ UNCHANGED <<lease, attempts, saved>>

\* finish; a lost lease leaves the row as it is.
Finishes(l, outcome) ==
    LET e == run[l].e IN
    IF HoldsLease(e, l)
    THEN /\ Own!End({l})
         /\ status' = [status EXCEPT ![e] = outcome]
         /\ lease' = [lease EXCEPT ![e] = NoLease]
         /\ UNCHANGED <<attempts, saved>>
    ELSE UNCHANGED <<own, row>>

\* The exception handler of worker(): a stale state is not tried again.
Raises(l, stale) ==
    /\ Finishes(l, IF ~stale /\ attempts[run[l].e] < MaxRetries THEN "retry" ELSE "failed")
    /\ run' = [run EXCEPT ![l] = NoRun]
    /\ UNCHANGED <<phase, github>>

Done(l) == /\ Finishes(l, "done")
           /\ run' = [run EXCEPT ![l] = NoRun]
           /\ UNCHANGED <<phase, github>>

At(l, step) == run[l].at = step
Goes(l, step) == run' = [run EXCEPT ![l].at = step]
Sees(sha, routes) == head = sha /\ route \in routes

-----------------------------------------------------------------------------
(* What process() decides from the phase and the result.                   *)

Succeeded(l) == run[l].result.status \in {"success", "reports"}

\* next_labels; the policy text of a QA task decides between two.
Targets(l) == IF ~Succeeded(l) THEN {"blocked"}
              ELSE IF phase = "prototype" THEN {"next"}
              ELSE IF phase = "qa" THEN {"release", "wait"}
              ELSE {"running"}

\* Mutant of PostQAReview: a report commit is transitioned like its parent.
NoPostQAReview(l) == FALSE

\* post_qa_review_needed
PostQAReview(l) == Succeeded(l) /\ phase = "qa" /\ run[l].sha # Source

Transitions(l) == IF PostQAReview(l) THEN {"review-again"}
                  ELSE IF run[l].cp.trans # "none" THEN {run[l].cp.trans}
                  ELSE Targets(l)

\* The routes a resumed run accepts.
Allowed(cp) == {"running"} \cup (IF cp.result = NoResult THEN {"todo"} ELSE {})
                           \cup (IF cp.trans = "none" THEN {} ELSE {cp.trans})

AfterResult(s) == IF s = "reports" THEN "publish" ELSE "plan"

AfterGate(l) == IF run[l].result = NoResult THEN "start"
                ELSE AfterResult(run[l].result.status)

\* The comment of each step, as the search for an earlier one identifies it.
Note(l) == CASE At(l, "handoff") -> <<"handoff", run[l].result, run[l].sha>>
             [] At(l, "policy")  -> <<"policy", run[l].trans, run[l].sha>>
             [] OTHER            -> <<"marker", run[l].sha>>

AfterNote(l) == CASE At(l, "handoff") -> IF Succeeded(l) /\ phase = "qa" THEN "policy" ELSE "move"
                  [] At(l, "policy")  -> IF PostQAReview(l) THEN "marker" ELSE "move"
                  [] OTHER            -> "move"

Announces(l) == /\ Succeeded(l)
                /\ ~PostQAReview(l)
                /\ phase = "qa" => run[l].trans = "release"

Moved(l) == run[l].live = run[l].trans

\* What a step needs of the pull request; without it the run ends as stale.
Expects(l) ==
    LET r == run[l] IN
    CASE At(l, "look")     -> IF r.cp.some THEN route \in Allowed(r.cp)
                                           ELSE Sees(Source, {"todo"})
      [] r.at \in {"refuse", "refused"} -> Sees(Source, {"todo"})
      [] At(l, "start")    -> Sees(Source, {r.live})
      [] At(l, "started")  -> Sees(Source, {"running"})
      [] At(l, "publish")  -> r.cp.some \/ Sees(Source, {"running"})
      [] At(l, "commit")   -> head \in {Source, r.result.by}
      [] At(l, "plan")     -> \E t \in Transitions(l) : Sees(r.sha, {"running", t})
      [] r.at \in {"handoff", "policy"} ->
                              Note(l) \in said \/ Moved(l) \/ Sees(r.sha, {"running"})
      [] At(l, "marker")   -> ~ci \/ Note(l) \in said \/ Sees(r.sha, {"running"})
      [] At(l, "move")     -> r.live # "running" \/ Sees(r.sha, {"running"})
      [] r.at \in {"verify", "verified"} -> head = r.sha
      [] At(l, "moved")    -> (Moved(l) /\ ~Announces(l)) \/ Sees(r.sha, {r.trans})
      [] OTHER             -> TRUE

\* What a step needs besides, for want of which the event is tried again.
Requires(l) ==
    LET r == run[l] IN
    CASE r.at \in {"handoff", "policy"} -> Note(l) \in said \/ ~Moved(l)
      [] At(l, "marker")   -> ci
      [] At(l, "project")  -> owner["projection"] \in {NoLease, l}
      [] At(l, "verify")   -> route = r.seen
      [] At(l, "verified") -> route = r.to
      [] OTHER             -> TRUE

-----------------------------------------------------------------------------
(* Start.                                                                  *)

Claim(e, l) ==
    /\ status[e] \in {"queued", "retry"} \/ lease[e] \in ended
    /\ Own!Issue(l)
    /\ owner' = owner
    /\ status' = [status EXCEPT ![e] = "running"]
    /\ lease' = [lease EXCEPT ![e] = l]
    /\ attempts' = [attempts EXCEPT ![e] = @ + 1]
    /\ run' = [run EXCEPT ![l] = [NoRun EXCEPT !.e = e, !.at = "begin", !.cp = saved[e],
                                               !.result = saved[e].result]]
    /\ UNCHANGED <<phase, github, saved>>

Begin(l) == /\ At(l, "begin")
            /\ HoldsLease(run[l].e, l)
            /\ Obtains("operation", l)
            /\ Goes(l, "look")
            /\ UNCHANGED <<phase, github, row>>

\* The evidence the phase starts from holds, or not any more.
Look(l) == /\ At(l, "look")
           /\ Expects(l)
           /\ \/ run' = [run EXCEPT ![l].at = AfterGate(l), ![l].live = route]
              \/ "evidence" \in Faults /\ run' = [run EXCEPT ![l].at = "refuse"]
           /\ UNCHANGED <<own, phase, github, row>>

\* The label write that follows, and the step after it.
Writes(l, seen, to, then) ==
    run' = [run EXCEPT ![l].at = "project", ![l].seen = seen, ![l].to = to, ![l].then = then]

\* The comment request that follows, and the step after it.
Says(l, note, then) ==
    run' = [run EXCEPT ![l].at = "post", ![l].note = note, ![l].then = then]

\* The gate's comment is posted without a search for an earlier one.
Refuse(l) == /\ At(l, "refuse")
             /\ Expects(l)
             /\ Leased(l)
             /\ Says(l, Gate, "refused")
             /\ UNCHANGED <<own, phase, github, row>>

\* It blocks the task only after a second look.
Block(l) == /\ At(l, "refused")
            /\ Expects(l)
            /\ Leased(l)
            /\ Writes(l, "todo", "blocked", "finish")
            /\ UNCHANGED <<own, phase, github, row>>

Start(l) == /\ At(l, "start")
            /\ Expects(l)
            /\ Leased(l)
            /\ Saves(l, [NoSave EXCEPT !.some = TRUE])
            /\ IF run[l].live = "running" THEN Goes(l, "started")
                                          ELSE Writes(l, "todo", "running", "started")
            /\ UNCHANGED <<own, phase, github>>

Started(l) == /\ At(l, "started")
              /\ Expects(l)
              /\ Leased(l)
              /\ Goes(l, "agent")
              /\ UNCHANGED <<own, phase, github, row>>

AgentReturns(l, s) ==
    LET result == [status |-> s, by |-> l] IN
    /\ At(l, "agent")
    /\ Saves(l, [some |-> TRUE, result |-> result, trans |-> "none"])
    /\ run' = [run EXCEPT ![l].at = AfterResult(s), ![l].result = result]
    /\ UNCHANGED <<own, phase, github>>

-----------------------------------------------------------------------------
(* Label writes, write_labels of state_writer.py.                          *)

Project(l) == /\ At(l, "project")
              /\ HoldsLease(run[l].e, l)
              /\ Obtains("projection", l)
              /\ Goes(l, "verify")
              /\ UNCHANGED <<phase, github, row>>

\* Mutant of Verified: labels are compared, leases are not.
VerifiedUnfenced(l) == Expects(l) /\ Requires(l)

Verified(l) == Expects(l) /\ Requires(l) /\ Leased(l) /\ owner["projection"] = l

VerifyBefore(l) == /\ At(l, "verify")
                   /\ Verified(l)
                   /\ Goes(l, "put")
                   /\ UNCHANGED <<own, phase, github, row>>

Put(l) == /\ At(l, "put")
          /\ route' = run[l].to
          /\ Goes(l, "verified")
          /\ UNCHANGED <<own, phase, head, said, ci, dispatched, row>>

VerifyAfter(l) == /\ At(l, "verified")
                  /\ Verified(l)
                  /\ run' = [run EXCEPT ![l].at = run[l].then, ![l].seen = "none",
                                        ![l].to = "none", ![l].then = "none"]
                  /\ UNCHANGED <<own, phase, github, row>>

-----------------------------------------------------------------------------
(* Publication and handoff.                                                *)

Publish(l) == /\ At(l, "publish")
              /\ Expects(l)
              /\ Leased(l)
              /\ Goes(l, "commit")
              /\ UNCHANGED <<own, phase, github, row>>

\* update_pr_files: reports that change nothing make no commit, a commit of
\* an earlier attempt is recognised.
CommitReports(l) ==
    /\ At(l, "commit")
    /\ Expects(l)
    /\ head' \in {head, run[l].result.by}
    /\ run' = [run EXCEPT ![l].at = "published", ![l].sha = head']
    /\ UNCHANGED <<own, phase, route, said, ci, dispatched, row>>

\* The checkpoint after a publication holds no transition.
Published(l) == /\ At(l, "published")
                /\ Saves(l, [some |-> TRUE, result |-> run[l].result, trans |-> "none"])
                /\ Goes(l, "plan")
                /\ UNCHANGED <<own, phase, github>>

Plan(l) == /\ At(l, "plan")
           /\ \E t \in Transitions(l) :
                /\ Sees(run[l].sha, {"running", t})
                /\ Saves(l, [some |-> TRUE, result |-> run[l].result, trans |-> t])
                /\ run' = [run EXCEPT ![l].at = "handoff", ![l].live = route, ![l].trans = t]
           /\ UNCHANGED <<own, phase, github>>

\* Mutant of Posted: every attempt posts.
NeverPosted(l) == FALSE

\* A comment already there is not posted again.
Posted(l) == Note(l) \in said

NotePosts(l) == /\ run[l].at \in {"handoff", "policy", "marker"}
                /\ Expects(l)
                /\ Requires(l)
                /\ IF Posted(l) THEN Goes(l, AfterNote(l))
                   ELSE Leased(l) /\ Says(l, Note(l), AfterNote(l))
                /\ UNCHANGED <<own, phase, github, row>>

Post(l) == /\ At(l, "post")
           /\ said' = said \cup {run[l].note}
           /\ run' = [run EXCEPT ![l].at = run[l].then, ![l].note = <<>>, ![l].then = "none"]
           /\ UNCHANGED <<own, phase, head, route, ci, dispatched, row>>

Move(l) == /\ At(l, "move")
           /\ Expects(l)
           /\ IF run[l].live = "running"
              THEN Leased(l) /\ Writes(l, "running", run[l].trans, "moved")
              ELSE Goes(l, "moved")
           /\ UNCHANGED <<own, phase, github, row>>

Announce(l) == /\ At(l, "moved")
               /\ Announces(l)
               /\ Expects(l)
               /\ Leased(l)
               /\ Goes(l, "dispatch")
               /\ UNCHANGED <<own, phase, github, row>>

Dispatch(l) == /\ At(l, "dispatch")
               /\ dispatched' = dispatched \cup {<<run[l].e, run[l].sha>>}
               /\ Goes(l, "finish")
               /\ UNCHANGED <<own, phase, head, route, said, ci, row>>

\* A failed result is raised after its labels are written.
Finish(l) == \/ /\ At(l, "finish")
                /\ Done(l)
             \/ /\ At(l, "moved")
                /\ ~Announces(l)
                /\ Expects(l)
                /\ IF run[l].result.status = "failed" THEN Raises(l, FALSE) ELSE Done(l)

-----------------------------------------------------------------------------
(* How a run ends otherwise.                                               *)

Stale(l) == ~Expects(l) /\ Raises(l, TRUE)

\* QA evidence may have changed while QA ran.
RechecksEvidence(l) == At(l, "move") /\ phase = "qa" /\ Succeeded(l) /\ ~PostQAReview(l)

Refused(l) == \/ /\ Expects(l)
                 /\ ~Requires(l)
                 /\ Raises(l, FALSE)
              \/ /\ "evidence" \in Faults
                 /\ RechecksEvidence(l)
                 /\ Raises(l, FALSE)
              \/ /\ At(l, "begin")
                 /\ owner["operation"] \notin {NoLease, l}
                 /\ Raises(l, TRUE)

\* keep_lease cancels a run that lost its lease, or a check stops it.
LosesLease(l) == /\ ~At(l, "idle")
                 /\ ~HoldsLease(run[l].e, l)
                 /\ Raises(l, TRUE)

\* A request or the agent fails.
Fault(l) == "request" \in Faults /\ ~At(l, "idle") /\ Raises(l, FALSE)

\* The process is killed, or shut down in good order.
Crash(l) == /\ "process" \in Faults
            /\ ~At(l, "idle")
            /\ run' = [run EXCEPT ![l] = NoRun]
            /\ UNCHANGED <<own, phase, github, row>>

Shutdown(l) == /\ "process" \in Faults
               /\ ~At(l, "idle")
               /\ Finishes(l, "retry")
               /\ run' = [run EXCEPT ![l] = NoRun]
               /\ UNCHANGED <<phase, github>>

\* A lease runs out, not while a write checked under it is in flight.
Expire(l) == /\ ~\E s \in {"put", "commit", "post", "dispatch"} : At(l, s)
             /\ Own!End({l})
             /\ UNCHANGED <<phase, github, row, run>>

-----------------------------------------------------------------------------
(* The surroundings.                                                       *)

CIPasses == /\ head \in Lease
            /\ ~ci
            /\ ci' = TRUE
            /\ UNCHANGED <<own, phase, head, route, said, dispatched, row, run>>

\* The worker of the next phase takes the pull request.
NextTakes == /\ route \in {"next", "release", "review-again"}
             /\ route' = "elsewhere"
             /\ UNCHANGED <<own, phase, head, said, ci, dispatched, row, run>>

OtherPush == /\ "push" \in Faults
             /\ head # Other
             /\ head' = Other
             /\ UNCHANGED <<own, phase, route, said, ci, dispatched, row, run>>

-----------------------------------------------------------------------------

Runs(l) == \/ Begin(l) \/ Look(l) \/ Refuse(l) \/ Block(l) \/ Start(l) \/ Started(l)
           \/ \E s \in {"success", "reports", "failed", "blocked"} : AgentReturns(l, s)
           \/ Project(l) \/ VerifyBefore(l) \/ Put(l) \/ VerifyAfter(l)
           \/ Publish(l) \/ CommitReports(l) \/ Published(l) \/ Plan(l)
           \/ NotePosts(l) \/ Post(l) \/ Move(l)
           \/ Announce(l) \/ Dispatch(l) \/ Finish(l)

Ends(l) == Stale(l) \/ Refused(l) \/ LosesLease(l) \/ Fault(l) \/ Crash(l) \/ Shutdown(l)

Next == \/ \E e \in Event, l \in Lease : Claim(e, l)
        \/ \E l \in Lease : Runs(l) \/ Ends(l) \/ Expire(l)
        \/ CIPasses \/ NextTakes \/ OtherPush

Spec == Init /\ [][Next]_vars

-----------------------------------------------------------------------------
(* Properties.                                                             *)

Handoffs == {n \in said : n[1] = "handoff"}

\* QA leaves the pull request for release or the owner's decision only with
\* the handoff of a success at the SHA that was reviewed and the record of
\* the policy that chose this route; after a report commit it leaves it for a
\* new review only, with the comments of that commit.  It is blocked with the
\* handoff of a failure or the comment of the start gate.  Whatever attempt of
\* whatever delivery wrote the labels, and whatever the others posted.
HandedOff ==
    /\ route \in {"release", "wait"} =>
           /\ \E n \in Handoffs : n[2].status \in {"success", "reports"} /\ n[3] = Source
           /\ <<"policy", route, Source>> \in said
    /\ route = "review-again" =>
           \E l \in Lease : /\ <<"handoff", [status |-> "reports", by |-> l], l>> \in said
                            /\ {<<"policy", route, l>>, <<"marker", l>>} \subseteq said
    /\ route = "blocked" =>
           \/ Gate \in said
           \/ \E n \in Handoffs : n[2].status \in {"failed", "blocked"} /\ n[3] = Source

\* A result of the agent that was saved is the result of its event for ever:
\* no later attempt of it works anew, and no earlier one, back late from its
\* agent, replaces it.
ResultIsKept ==
    [][\A e \in Event : saved[e].result # NoResult => saved'[e].result = saved[e].result]_vars

\* No handoff, no policy record and no marker is posted twice: a later attempt
\* finds the earlier one, and no two attempts are between the search and the
\* post.  The gate's comment has no search: a refusal that is tried again,
\* because its label write failed or its process died, posts it again.
NoRecordTwice ==
    [][\A l \in Lease : At(l, "post") /\ run'[l] # NoRun /\ run'[l].at # "post"
           => run[l].note = Gate \/ run[l].note \notin said]_vars

\* While the agent works under a lease that is in force, and until its result
\* is handed over, no other delivery or attempt moves the labels.
UndisturbedRun ==
    \A l \in Lease :
        run[l].at \in {"agent", "publish", "commit", "published", "plan"} /\ Leased(l)
            => route = "running" \/ run[l].cp.result # NoResult

=============================================================================
