--------------------------- MODULE EvidenceGates ---------------------------
(***************************************************************************)
(* What the comments and the CI runs of a pull request entitle it to:      *)
(* handoff_gate.py, evidence_gate.py, and the decisions about labels of    *)
(* scripts/reconcile_handoff_state.py, scripts/plan_repair_recovery.py and *)
(* scripts/plan_review_reclaim.py.  They are pure functions of what a      *)
(* caller read, and so are the operators here.                             *)
(*                                                                         *)
(* Labels are the set of their names.  A log is the sequence of comments   *)
(* of one task by trusted authors, in the order of their ids; a comment    *)
(* has the second of its creation, which several may share, the SHA it     *)
(* names, a kind and a result.  ci is the set of the SHAs whose latest CI   *)
(* run has completed with success.                                         *)
(***************************************************************************)
EXTENDS Naturals, Sequences

\* The four handoffs, and the marked records: a claim of the review, a repair, an
\* observation that a repair waits, a requeueing of the review, the marker of
\* commits made after QA, and the resolved policy.
Handoff == {"prototype_validation", "implementation", "code_review", "qa"}
Kind == Handoff \cup {"claim", "repair", "wait", "requeue", "marker", "policy"}

\* A success without blockers; a success whose checks do not include the review; a
\* failure.  A repair record that passed awaits CI, one of a conflict says so too; a
\* policy that passed leaves the release to the owner.
Result == {"passed", "unchecked", "conflict", "failed"}

STATE_LABELS == {"agent:chatgpt", "agent:workreview", "agent:workbuddy",
                 "phase:prototype", "phase:implementation", "phase:code-review",
                 "phase:escalation-repair", "phase:qa",
                 "status:todo", "status:running", "status:blocked"}
Waiting == {"status:review", "approval:production-required"}
Approved == "approval:production-approved"
Blockers == {"blocker:content"}
Label == STATE_LABELS \cup Waiting \cup Blockers \cup
             {Approved, "watchdog:timeout", "recovery:qa-evidence", "recovery:repair-ci"}
OwnerWait(labels) == Waiting \subseteq labels
Route(agent, phase, status) == {agent, phase, status}
ReviewReady == Route("agent:workreview", "phase:code-review", "status:todo")
QAReady == Route("agent:workbuddy", "phase:qa", "status:todo")

-----------------------------------------------------------------------------
(* Order and choice of comments *)

Before(log, i, j) == \/ log[i].at < log[j].at
                     \/ log[i].at = log[j].at /\ i < j
Newest(log, S) == CHOOSE i \in S : \A j \in S \ {i} : Before(log, j, i)
Of(log, kinds, sha) == {i \in DOMAIN log : log[i].kind \in kinds /\ log[i].sha = sha}

\* (A bug.) A late handoff of an earlier commit hides those of the current one.
ForemostByTime(log, kinds, sha) == Newest(log, {i \in DOMAIN log : log[i].kind \in kinds})

\* Handoffs of the current SHA come first, among them the newest.
Foremost(log, kinds, sha) ==
    Newest(log, IF Of(log, kinds, sha) # {} THEN Of(log, kinds, sha)
                ELSE {i \in DOMAIN log : log[i].kind \in kinds})
Succeeds(comment) == comment.result \in {"passed", "unchecked"}

SuccessfulCurrentCi(ci, sha) == sha \in ci

\* (A bug.) Commits made after QA do not undo the review.
IndependentReviewPassDespiteMarker(log, i, sha) ==
    LET claims == Of(log, {"claim"}, sha)
    IN /\ log[i].result = "passed"
       /\ claims # {} /\ Before(log, Newest(log, claims), i)
       /\ \A j \in Of(log, {"repair", "requeue"}, sha) : Before(log, j, Newest(log, claims))

\* (A bug.) Nothing undoes a review.
IndependentReviewPassForGood(log, i, sha) ==
    log[i].result = "passed" /\ \E j \in Of(log, {"claim"}, sha) : Before(log, j, i)

\* A review counts when it follows a claim of the review that follows every repair
\* and requeueing.
IndependentReviewPass(log, i, sha) ==
    LET claims == Of(log, {"claim"}, sha)
        invalidated == Of(log, {"repair", "requeue", "marker"}, sha)
    IN /\ log[i].result = "passed"
       /\ claims # {}
       /\ Before(log, Newest(log, claims), i)
       /\ \A j \in invalidated : Before(log, j, Newest(log, claims))

ValidateHandoff(log, kind, sha) ==
    /\ \E i \in DOMAIN log : log[i].kind = kind
    /\ LET i == Foremost(log, {kind}, sha) IN Succeeds(log[i]) /\ log[i].sha = sha

ReviewPassed(log, sha) ==
    /\ Of(log, {"code_review"}, sha) # {}
    /\ IndependentReviewPass(log, Newest(log, Of(log, {"code_review"}, sha)), sha)

ValidateQAEvidence(log, ci, sha) ==
    /\ ValidateHandoff(log, "code_review", sha)
    /\ ReviewPassed(log, sha)
    /\ SuccessfulCurrentCi(ci, sha)

\* (A bug.) The policy alone decides.
OwnerWaitEvidenceOfPolicy(log, sha) == Of(log, {"policy"}, sha) # {}

OwnerWaitEvidence(log, sha) ==
    \A kind \in {"policy", "qa"} :
        LET records == Of(log, {kind}, sha)
        IN records # {} /\ Succeeds(log[Newest(log, records)])

-----------------------------------------------------------------------------
(* decide_reconciliation *)

Decision ==
    [action : {"noop", "converge_owner_wait", "requeue_post_qa_review", "reconcile",
               "ensure_qa_dispatch", "requeue_review", "block", "requeue"},
     after : SUBSET Label, marker : BOOLEAN]
Noop == [action |-> "noop", after |-> {}, marker |-> FALSE]
Decides(action, after) == [action |-> action, after |-> after, marker |-> FALSE]

\* The review of the final commit is asked for again, with its marker if it has none.
FinalReviewDue(labels) ==
    /\ \/ /\ {"agent:workbuddy", "phase:qa"} \subseteq labels
          /\ labels \cap {"status:running", "status:todo"} # {}
       \/ ReviewReady \subseteq labels
    /\ labels \cap (Waiting \cup {"status:blocked", Approved}) = {}
Marked(log, sha) == Of(log, {"marker"}, sha) # {}

RequeuePostQA(labels, log, sha) ==
    [action |-> "requeue_post_qa_review", marker |-> ~Marked(log, sha),
     after |-> (labels \ STATE_LABELS) \cup ReviewReady]

\* (A bug.) The labels are written also when they are there.
ConvergeOwnerWaitAgain(labels) ==
    IF labels \cap {Approved, "status:blocked"} # {} THEN Noop
    ELSE Decides("converge_owner_wait", (labels \ STATE_LABELS) \cup Waiting)

ConvergeOwnerWait(labels) ==
    LET canonical == (labels \ STATE_LABELS) \cup Waiting
    IN IF labels \cap {Approved, "status:blocked"} # {} \/ canonical = labels
       THEN Noop ELSE Decides("converge_owner_wait", canonical)

\* Of the blockers only a timeout, and missing evidence of QA that is now there.
Resolved(labels, phase) ==
    IF "status:blocked" \notin labels THEN {}
    ELSE IF phase = "phase:qa" /\ "recovery:qa-evidence" \in labels
                               /\ "watchdog:timeout" \notin labels
         THEN {"recovery:qa-evidence"} ELSE {"watchdog:timeout"}
\* (A bug.) A blocker of content does not matter when there is a timeout too.
UnblockableByTimeout(labels, phase) ==
    "status:blocked" \in labels => Resolved(labels, phase) \subseteq labels

Unblockable(labels, phase) ==
    "status:blocked" \in labels =>
        /\ Resolved(labels, phase) \subseteq labels
        /\ "recovery:qa-evidence" \in labels => "recovery:qa-evidence" \in Resolved(labels, phase)
        /\ labels \cap Blockers = {}

\* The foremost handoff of the implementation or of the review leads on.
Follows(labels, log, ci, sha, i) ==
    LET target == IF log[i].kind = "implementation"
                  THEN {"agent:workreview", "phase:code-review"} ELSE {"agent:workbuddy", "phase:qa"}
        phase == IF log[i].kind = "implementation" THEN "phase:code-review" ELSE "phase:qa"
        status == IF target \cup {"status:running"} \subseteq labels /\ "status:blocked" \notin labels
                  THEN "status:running" ELSE "status:todo"
        canonical == target \cup {status}
    IN IF \/ ~Succeeds(log[i]) \/ log[i].sha # sha
          \/ log[i].kind = "code_review" /\ ~IndependentReviewPass(log, i, sha)
          \/ ~Unblockable(labels, phase)
          \/ ~SuccessfulCurrentCi(ci, sha)
       THEN Noop
       ELSE IF labels \cap STATE_LABELS = canonical
       THEN IF canonical = QAReady THEN Decides("ensure_qa_dispatch", {}) ELSE Noop
       ELSE Decides("reconcile", (labels \ (STATE_LABELS \cup Resolved(labels, phase))) \cup canonical)

DecideReconciliation(labels, log, ci, sha) ==
    LET accepted == SuccessfulCurrentCi(ci, sha) /\ OwnerWaitEvidence(log, sha)
        requeue == RequeuePostQA(labels, log, sha)
        relevant == {"implementation", "code_review"}
    IN IF accepted /\ ReviewPassed(log, sha) THEN ConvergeOwnerWait(labels)
       ELSE IF accepted /\ FinalReviewDue(labels) /\ (requeue.after # labels \/ requeue.marker)
       THEN requeue
       ELSE IF \/ labels \cap Waiting # {}
               \/ \A i \in DOMAIN log : log[i].kind \notin relevant
       THEN Noop
       ELSE Follows(labels, log, ci, sha, Foremost(log, relevant, sha))

-----------------------------------------------------------------------------
(* decide_repair_recovery and decide_reclaim; late, stale: their periods of grace *)

Exactly(labels, agent, phase, statuses) ==
    \E s \in statuses : labels \cap (STATE_LABELS \cup Waiting) = Route(agent, phase, s)

\* A repair that waits for CI, of this SHA; of any, once it is blocked; blocked before
\* there was a label for it, only by a recorded conflict.
Legacy(labels) == "status:blocked" \in labels /\ "recovery:repair-ci" \notin labels
RepairRecords(labels, log, sha) ==
    {i \in DOMAIN log : /\ log[i].kind \in {"repair", "wait"}
                        /\ log[i].result \in {"passed", "conflict"}
                        /\ Legacy(labels) => log[i].kind = "wait" /\ log[i].result = "conflict"
                        /\ log[i].sha = sha \/ "status:blocked" \in labels}

DecideRepairRecovery(labels, log, ci, sha, dirty, late) ==
    IF \/ ~Exactly(labels, "agent:workreview", "phase:escalation-repair",
                   {"status:todo", "status:running", "status:blocked"})
       \/ Legacy(labels) /\ labels \cap (Blockers \cup {"watchdog:timeout"}) # {}
       \/ RepairRecords(labels, log, sha) = {}
    THEN Noop
    ELSE IF SuccessfulCurrentCi(ci, sha) /\ ~dirty
    THEN Decides("requeue_review",
                 (labels \ {"status:todo", "status:running", "status:blocked",
                            "phase:escalation-repair", "recovery:repair-ci"}) \cup ReviewReady)
    ELSE IF "status:blocked" \in labels \/ ~late THEN Noop
    ELSE Decides("block", (labels \ {"status:todo", "status:running"})
                              \cup {"status:blocked", "recovery:repair-ci"})

DecideReclaim(labels, log, ci, sha, stale) ==
    IF /\ Exactly(labels, "agent:workreview", "phase:code-review", {"status:running"})
       /\ SuccessfulCurrentCi(ci, sha)
       /\ Of(log, {"code_review"}, sha) = {}
       /\ stale
    THEN Decides("requeue", (labels \ {"status:running"}) \cup {"status:todo"})
    ELSE Noop

=============================================================================
