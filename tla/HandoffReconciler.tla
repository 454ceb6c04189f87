------------------------- MODULE HandoffReconciler -------------------------
(***************************************************************************)
(* The jobs of GitHub Actions that keep the labels of one pull request in  *)
(* step with its evidence when no shared service does: the handoff         *)
(* reconciler (.github/workflows/handoff-reconciler.yml), and of the       *)
(* watchdog (agent-watchdog.yml) the steps that decide from evidence, with *)
(* the decisions of EvidenceGates.                                         *)
(*                                                                         *)
(* A job reads the pull request, its comments and its CI runs, decides,    *)
(* reads the pull request again and, if nothing moved, writes.  Workers,   *)
(* people and CI are the environment: they comment, push and change labels *)
(* at any moment, between any two requests of a job too.                   *)
(***************************************************************************)
EXTENDS EvidenceGates

CONSTANTS Sha, Base, Final,    \* commits, the first, and the last that is pushed
          Starts,              \* what there may be at first: HEAD, comments and labels
          Posted,              \* the comments still to come: kinds with results
          Gaps,                \* seconds that may pass between two comments
          MaxMoves, MaxFails   \* moves of the environment, failed runs of a job

ASSUME ShaAssumption == {Base, Final} \subseteq Sha
\* The ids of comments grow with the time.
Comments == [kind : Kind, result : Result, sha : Sha, at : Nat]
Ordered(l) == \A i, j \in DOMAIN l : i < j => l[i].at <= l[j].at

ASSUME StartsAssumption ==
    /\ \A start \in Starts : /\ start.head \in Sha /\ start.labels \subseteq Label
                             /\ start.log \in Seq(Comments) /\ Ordered(start.log)
    /\ Posted \subseteq [kind : Kind, result : Result]
ASSUME BoundsAssumption == Gaps \subseteq Nat /\ MaxMoves \in Nat /\ MaxFails \in Nat

VARIABLES head, labels, log, ci,
          dirty,               \* the branch conflicts with its base
          moves,               \* of the environment so far
          job,                 \* the run of the reconciler and that of the watchdog
          sent, noted,         \* SHAs QA was dispatched for; those with a comment on it
          fails

github == <<head, labels, log, ci, dirty, moves>>
vars == <<github, job, sent, noted, fails>>

Job == {"reconciler", "watchdog"}
NoJob == [at |-> "idle", sha |-> Base, labels |-> {}, dirty |-> FALSE, seen |-> 0,
          decision |-> Noop]

TypeOK ==
    /\ head \in Sha
    /\ log \in Seq(Comments) /\ Ordered(log)
    /\ labels \subseteq Label
    /\ ci \subseteq Sha
    /\ dirty \in BOOLEAN
    /\ moves \in 0..MaxMoves
    /\ fails \in 0..MaxFails
    /\ job \in [Job -> [at : {"idle", "ci", "check", "mark", "put", "dispatch", "note"},
                       sha : Sha, labels : SUBSET Label, dirty : BOOLEAN, seen : Nat,
                       decision : Decision]]
    /\ \A j \in Job : job[j].seen <= Len(log)
    /\ noted \subseteq sent
    /\ sent \subseteq Sha

At(l) == IF l = <<>> THEN 1 ELSE l[Len(l)].at
Comment(kind, result, sha, at) == [kind |-> kind, result |-> result, sha |-> sha, at |-> at]

Init == /\ \E start \in Starts :
               head = start.head /\ log = start.log /\ labels = start.labels
        /\ ci \in SUBSET {head}
        /\ dirty = FALSE
        /\ moves = 0
        /\ job = [j \in Job |-> NoJob]
        /\ sent = {} /\ noted = {} /\ fails = 0

-----------------------------------------------------------------------------
(* The environment *)

Moves == /\ moves < MaxMoves
         /\ moves' = moves + 1
         /\ UNCHANGED <<job, sent, noted, fails>>

\* A comment about HEAD, or a late handoff of an earlier commit.
Post == /\ \E what \in Posted, sha \in {head, Base}, gap \in Gaps :
               /\ sha = head \/ what.kind \in Handoff
               /\ log' = Append(log, Comment(what.kind, what.result, sha, At(log) + gap))
        /\ UNCHANGED <<head, labels, ci, dirty>> /\ Moves

\* A run of CI succeeds, or another one begins, which may fail.
Ci == /\ \/ head \notin ci /\ ci' = ci \cup {head}
         \/ head \in ci /\ ci' = ci \ {head}
      /\ UNCHANGED <<head, labels, log, dirty>> /\ Moves

Push == /\ head # Final
        /\ head' = Final
        /\ dirty' \in BOOLEAN
        /\ UNCHANGED <<labels, log, ci>> /\ Moves

\* A worker takes a ready phase; the watchdog gives up on one that runs, and QA on
\* missing evidence; a person adds a blocker of content.
Relabel ==
    /\ \/ /\ "status:todo" \in labels
          /\ labels' = (labels \ {"status:todo"}) \cup {"status:running"}
       \/ /\ "status:running" \in labels
          /\ \E code \in {"watchdog:timeout"} \cup
                         (IF "phase:qa" \in labels THEN {"recovery:qa-evidence"} ELSE {}) :
                 labels' = (labels \ {"status:running"}) \cup {"status:blocked", code}
       \/ \E b \in Blockers : b \notin labels /\ labels' = labels \cup {b}
    /\ UNCHANGED <<head, log, ci, dirty>> /\ Moves

-----------------------------------------------------------------------------
(* The jobs *)

Sets(j, run) == job' = [job EXCEPT ![j] = run]
Goes(j, at) == Sets(j, [job[j] EXCEPT !.at = at])

\* What the watchdog searches for; the reconciler reads every open pull request.
Concerns(j) ==
    \/ j = "reconciler"
    \/ "agent:workreview" \in labels /\ \/ "phase:escalation-repair" \in labels
                                        \/ {"phase:code-review", "status:running"} \subseteq labels

\* The pull request and its comments: labels that moved between the two requests are
\* found by the check before the write.
Read(j) == /\ job[j].at = "idle"
           /\ Concerns(j)
           /\ Sets(j, [at |-> "ci", sha |-> head, labels |-> labels, dirty |-> dirty,
                       seen |-> Len(log), decision |-> Noop])
           /\ UNCHANGED <<github, sent, noted, fails>>

\* late: the period of grace, which each of the watchdog's steps has, is over.
Decisions(j, late) ==
    LET r == job[j]
        comments == SubSeq(log, 1, r.seen)
    IN IF j = "reconciler" THEN {DecideReconciliation(r.labels, comments, ci, r.sha)}
       ELSE {DecideReclaim(r.labels, comments, ci, r.sha, late),
             DecideRepairRecovery(r.labels, comments, ci, r.sha, r.dirty, late)}

Decide(j) == /\ job[j].at = "ci"
             /\ \E late \in BOOLEAN : \E d \in Decisions(j, late) :
                    Sets(j, IF d.action = "noop" THEN NoJob
                            ELSE [job[j] EXCEPT !.decision = d, !.at = "check"])
             /\ UNCHANGED <<github, sent, noted, fails>>

\* Nothing moved since the decision; before a marker, and again after it.
Unmoved(j) == head = job[j].sha /\ labels = job[j].labels

Check(j) == /\ job[j].at = "check"
            /\ IF ~Unmoved(j) THEN Sets(j, NoJob)
               ELSE Goes(j, IF job[j].decision.marker THEN "mark"
                            ELSE IF job[j].decision.action = "ensure_qa_dispatch" THEN "dispatch"
                            ELSE "put")
            /\ UNCHANGED <<github, sent, noted, fails>>

Mark(j) == /\ job[j].at = "mark"
           /\ \E gap \in Gaps :
                  log' = Append(log, Comment("marker", "passed", job[j].sha, At(log) + gap))
           /\ Sets(j, [job[j] EXCEPT !.at = "check", !.decision.marker = FALSE])
           /\ UNCHANGED <<head, labels, ci, dirty, moves, sent, noted, fails>>

Put(j) == /\ job[j].at = "put"
          /\ labels' = job[j].decision.after
          /\ IF job[j].decision.action = "reconcile" /\ QAReady \subseteq labels'
             THEN Goes(j, "dispatch") ELSE Sets(j, NoJob)
          /\ UNCHANGED <<head, log, ci, dirty, moves, sent, noted, fails>>

\* (A bug.) The note comes before the dispatch.
DispatchNotesFirst(j) ==
    /\ job[j].at = "dispatch"
    /\ IF job[j].sha \in noted THEN Sets(j, NoJob) /\ UNCHANGED noted
       ELSE noted' = noted \cup {job[j].sha} /\ Goes(j, "note")
    /\ UNCHANGED <<github, sent, fails>>

Dispatch(j) == /\ job[j].at = "dispatch"
               /\ IF job[j].sha \in noted THEN Sets(j, NoJob) /\ UNCHANGED sent
                  ELSE sent' = sent \cup {job[j].sha} /\ Goes(j, "note")
               /\ UNCHANGED <<github, noted, fails>>

NoteDispatch(j) == /\ job[j].at = "note"
                   /\ noted' = noted \cup {job[j].sha}
                   /\ Sets(j, NoJob)
                   /\ UNCHANGED <<github, sent, fails>>

\* A request fails, or the runner: the next schedule starts over.
Fail(j) == /\ job[j].at # "idle"
           /\ fails < MaxFails
           /\ fails' = fails + 1
           /\ Sets(j, NoJob)
           /\ UNCHANGED <<github, sent, noted>>

Step(j) == \/ Read(j) \/ Decide(j) \/ Check(j)
           \/ Mark(j) \/ Put(j) \/ Dispatch(j) \/ NoteDispatch(j)
Next == \/ Post \/ Ci \/ Push \/ Relabel
        \/ \E j \in Job : Step(j) \/ Fail(j)

Spec == Init /\ [][Next]_vars
FairSpec == Spec /\ \A j \in Job : WF_vars(Step(j))

-----------------------------------------------------------------------------
(* Safety *)

\* Independent review as the comments are read from first to last: a claim begins it, a
\* review of a claimed commit passes or not, and a repair or requeueing undoes both.
Unreviewed == [claimed |-> FALSE, passed |-> FALSE]
Reviewing(s, c) ==
    CASE c.kind = "claim" -> [claimed |-> TRUE, passed |-> FALSE]
      [] c.kind \in {"repair", "requeue", "marker"} -> Unreviewed
      [] c.kind = "code_review" -> [s EXCEPT !.passed = s.claimed /\ c.result = "passed"]
      [] OTHER -> s
Review(comments, sha) ==
    LET after[n \in 0..Len(comments)] ==
            IF n = 0 THEN Unreviewed
            ELSE IF comments[n].sha # sha THEN after[n - 1]
            ELSE Reviewing(after[n - 1], comments[n])
    IN after[Len(comments)]

\* The gates, which compare the newest claim, review and repair by time and id, accept a
\* review when reading the comments in order accepts it (independent_review_pass), the
\* gate of QA, which chooses its comment otherwise, as well (validate_qa_evidence).
ReviewedByHistory ==
    \A sha \in Sha :
        /\ ReviewPassed(log, sha) <=> Review(log, sha).passed
        /\ ValidateQAEvidence(log, ci, sha) <=> Review(log, sha).passed /\ sha \in ci

Puts(j) == job[j].at = "put" /\ job'[j].at # "put" /\ labels' # labels
Seen(j) == SubSeq(log, 1, job[j].seen)

\* Whatever was posted, pushed and relabelled meanwhile, a job makes QA ready only when
\* the comments it read hold a standing review of the commit that it read.
QAOnlyReviewed ==
    [][\A j \in Job : Puts(j) /\ QAReady \subseteq labels' =>
           Review(Seen(j), job[j].sha).passed]_vars

\* A job hands a pull request to its owner only after a policy, QA that succeeded, and a
\* review of the same commit that stands after all of them were read.
OwnerWaitEarned ==
    [][\A j \in Job : Puts(j) /\ OwnerWait(labels') =>
           /\ Review(Seen(j), job[j].sha).passed
           /\ \E p, q \in 1..job[j].seen :
                  /\ log[p].kind = "policy" /\ log[q].kind = "qa" /\ Succeeds(log[q])
                  /\ log[p].sha = job[j].sha /\ log[q].sha = job[j].sha]_vars

\* What a person had decided when the reconciler read it stays: a blocker of content
\* with the block, and the wait for the owner.
HumanDecisionsStay ==
    [][Puts("reconciler") =>
           LET read == job["reconciler"].labels
           IN /\ read \cap Blockers \subseteq labels'
              /\ read \cap Blockers # {} /\ "status:blocked" \in read => "status:blocked" \in labels'
              /\ OwnerWait(read) => OwnerWait(labels')]_vars

-----------------------------------------------------------------------------
(* Liveness: the jobs are scheduled again and again; their failures, and the moves of
   the environment, are bounded *)

\* The foremost handoff of HEAD is its standing review, and CI passed.
ReviewStands ==
    /\ head \in ci
    /\ Review(log, head).passed
    /\ \E i \in DOMAIN log : /\ log[i].kind = "code_review" /\ log[i].sha = head
                             /\ \A k \in i+1..Len(log) :
                                    log[k].kind = "implementation" => log[k].sha # head

\* A review that comes to stand is followed: QA has the pull request, the owner, or a
\* block; a lost run, and a late handoff of an earlier commit, do not hide it.
ReviewIsFollowed ==
    <>[]ReviewStands =>
    <>[](\/ {"agent:workbuddy", "phase:qa"} \subseteq labels
         \/ OwnerWait(labels) \/ "status:blocked" \in labels)

\* QA that stays ready was dispatched, also when the run that made it ready was lost.
QAIsDispatched ==
    <>[](ReviewStands /\ labels \cap STATE_LABELS = QAReady /\ labels \cap Waiting = {})
    => <>[](head \in sent)

\* The jobs do not undo each other's labels for ever: when the environment leaves the
\* pull request alone, they come to rest.
JobsSettle == <>[](\A j \in Job : job[j].at # "put")

=============================================================================
