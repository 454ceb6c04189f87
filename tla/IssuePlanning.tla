--------------------------- MODULE IssuePlanning ---------------------------
(***************************************************************************)
(* From an issue to the pull request of its plan: the intake scan          *)
(* (issue_intake.py), the issue lease (state_store.py), the publication    *)
(* reserved for the issue (planning_publication.py), its recovery          *)
(* (planning_recovery.py), and the planner that publishes                  *)
(* (scripts/shared_planning_publish.py), for one issue.                    *)
(*                                                                         *)
(* A run is a planner with the request it has at the service, or the       *)
(* service's own cycle of scan and recovery; a step is what it does        *)
(* between two awaits.  The death of a planner in the middle of a request  *)
(* that the service then completes is its death after that request.  A     *)
(* planner presents one random token as its lease, and makes one commit,   *)
(* the plan, which bears its name.                                         *)
(***************************************************************************)
EXTENDS Naturals, FiniteSets

CONSTANTS Revision, Ready,     \* revisions of the issue, those open to planners
          Closed,              \* the issue is closed
          Planner, Nobody,
          Service,             \* the discovery cycle
          Pull, NoPull,        \* pull requests
          MaxEvents            \* how often others interfere, or a cycle fails

ASSUME RevisionAssumption == Ready \subseteq Revision /\ Closed \notin Revision
ASSUME NullAssumption == /\ {Nobody, Service} \cap Planner = {}
                         /\ Nobody # Service
                         /\ NoPull \notin Pull
ASSUME EventsAssumption == MaxEvents \in Nat

VARIABLES issue,               \* the issue on GitHub: its revision, or Closed
          others,              \* what open pull requests of others say of it
          branch,              \* the plan it was created with; further commits
          pull,                \* the pull requests of the branch
          events,              \* how often others interfered
          intake,              \* the issue's row
          pub,                 \* the row of its publication
          run

github == <<issue, others, branch, pull, events>>
store == <<intake, pub>>
vars == <<github, store, run>>

NoBranch == [plan |-> Nobody, grown |-> FALSE]
NoPub == [status |-> "none", owner |-> Nobody, plan |-> Nobody,
          revision |-> Closed, pull |-> NoPull]

\* Its next step and the one after it; the revision it works for and the one
\* it read; the owner of the publication, the plan and the pull request it
\* deals with.
NoRun == [at |-> "idle", then |-> "none", goal |-> "none", revision |-> Closed,
          saw |-> Closed, owner |-> Nobody, plan |-> Nobody, pull |-> NoPull]

Step == {"idle", "gone", "list", "observe", "claim", "plan", "renew", "reserve",
         "history", "take", "branch", "pull", "create", "check", "handoff", "confirm",
         "look", "verify", "put", "projected", "record", "rows", "recover"}

Revisions == Revision \cup {Closed}
Owner == Planner \cup {Nobody}
Runner == Planner \cup {Service}

Branches == [plan : Owner, grown : BOOLEAN]
Pulls == [state : {"absent", "open", "closed"}, handoff : BOOLEAN,
          route : {"none", "ready", "taken", "held"}]
Intakes == [status : {"unseen", "awaiting_planner", "leased", "not_ready", "linked",
                      "needs_link_resolution", "closed"},
            revision : Revisions, lease : Owner, live : BOOLEAN, linked : BOOLEAN]
Pubs == [status : {"none", "prepared", "applied"}, owner : Owner, plan : Owner,
         revision : Revisions, pull : Pull \cup {NoPull}]
Runs == [at : Step, then : Step \cup {"none"}, goal : Step \cup {"none"},
         revision : Revisions, saw : Revisions, owner : Owner, plan : Owner,
         pull : Pull \cup {NoPull}]

TypeOK == /\ issue \in Revisions
          /\ others \in {"silent", "cite", "close"}
          /\ branch \in Branches
          /\ pull \in [Pull -> Pulls]
          /\ events \in 0..MaxEvents
          /\ intake \in Intakes /\ (intake.status = "leased" <=> intake.lease # Nobody)
          /\ pub \in Pubs /\ (pub.status = "applied" <=> pub.pull # NoPull)
          /\ run \in [Runner -> Runs]

Init == /\ issue \in Revision
        /\ others = "silent"
        /\ branch = NoBranch
        /\ pull = [p \in Pull |-> [state |-> "absent", handoff |-> FALSE, route |-> "none"]]
        /\ events = 0
        /\ intake = [status |-> "unseen", revision |-> Closed, lease |-> Nobody,
                     live |-> FALSE, linked |-> FALSE]
        /\ pub = NoPub
        /\ run = [r \in Runner |-> NoRun]

-----------------------------------------------------------------------------
(* Steps.                                                                  *)

At(r, step) == run[r].at = step
Goes(r, step) == run' = [run EXCEPT ![r].at = step]
Opened == {p \in Pull : pull[p].state = "open"}
Created == {p \in Pull : pull[p].state # "absent"}

\* The request begins with a scan, and goes on with step then.
Scans(r, then, goal) ==
    run' = [run EXCEPT ![r].at = "list", ![r].then = then, ![r].goal = goal]

\* The planner stops for good; the service comes back in its next cycle.
Stopped(r) == IF r = Service THEN NoRun ELSE [NoRun EXCEPT !.at = "gone"]

Live == intake.status = "leased" /\ intake.live

-----------------------------------------------------------------------------
(* scan_issues: the issues, then the pull requests, then the rows.         *)

ListIssues(r) == /\ At(r, "list")
                 /\ run' = [run EXCEPT ![r].at = "observe", ![r].saw = issue]
                 /\ UNCHANGED <<github, store>>

Strong == Cardinality(Opened) + (IF others = "close" THEN 1 ELSE 0)
Associated == Strong > 0 \/ others = "cite"

\* The disposition of a revision that is in the list of open issues.
Disposition(revision) ==
    IF Strong = 1 /\ others # "cite" THEN "linked"
    ELSE IF Associated THEN "needs_link_resolution"
    ELSE IF revision \in Ready THEN "awaiting_planner" ELSE "not_ready"

\* Mutant of Observed: an association that is gone is forgotten.
ObservedAfresh(revision, status) == status

\* An association that was ever recorded is not forgotten.
Observed(revision, status) ==
    IF intake.linked /\ status = "awaiting_planner" THEN "needs_link_resolution" ELSE status

Resets(revision, status) ==
    [status |-> status, revision |-> revision, lease |-> Nobody, live |-> FALSE,
     linked |-> intake.linked \/ Associated]

\* observe_issue; a lease survives the same revision without association.
Observe(r) ==
    LET saw == run[r].saw
        status == Observed(saw, Disposition(saw))
    IN
    /\ At(r, "observe")
    /\ intake' =
         IF saw = Closed
         THEN IF intake.status \in {"unseen", "closed"} THEN intake
              ELSE [intake EXCEPT !.status = "closed", !.lease = Nobody, !.live = FALSE]
         ELSE IF saw = intake.revision /\ status = "awaiting_planner"
                 /\ intake.status = "leased"
              THEN intake
              ELSE Resets(saw, status)
    /\ run' = [run EXCEPT ![r].at = run[r].then, ![r].then = "none", ![r].saw = Closed]
    /\ UNCHANGED <<github, pub>>

-----------------------------------------------------------------------------
(* The issue lease.                                                        *)

\* A planner is dispatched for a row that is claimable.
Begin(r) == /\ At(r, "idle")
            /\ r \in Planner
            /\ pub.status # "prepared"
            /\ intake.status \in {"awaiting_planner", "leased"} /\ ~Live
            /\ run' = [run EXCEPT ![r].at = "list", ![r].then = "claim",
                                  ![r].revision = intake.revision]
            /\ UNCHANGED <<github, store>>

Grants(r) == intake' = [intake EXCEPT !.status = "leased", !.lease = r, !.live = TRUE]

\* claim_issue
Claim(r) == /\ At(r, "claim")
            /\ intake.revision = run[r].revision
            /\ ~Live
            /\ pub.status # "prepared"
            /\ intake.status \in {"awaiting_planner", "leased"}
            /\ intake.lease # r
            /\ Grants(r)
            /\ Goes(r, "plan")
            /\ UNCHANGED <<github, pub>>

\* The agent wrote the plan; the lease is renewed before it is committed.
Plan(r) == /\ At(r, "plan")
           /\ Scans(r, "renew", "reserve")
           /\ UNCHANGED <<github, store>>

Leased(r) == Live /\ intake.revision = run[r].revision /\ intake.lease = r

\* renew_issue; what follows is a write to GitHub, or another request.
Renew(r) == /\ At(r, "renew")
            /\ Leased(r)
            /\ IF run[r].goal = "reserve" THEN Scans(r, "reserve", "none")
               ELSE run' = [run EXCEPT ![r].at = run[r].goal, ![r].goal = "none"]
            /\ UNCHANGED <<github, store>>

-----------------------------------------------------------------------------
(* The reservation of a publication, and its takeover.                     *)

\* With the lease and the plan in hand: a heartbeat, then the branch.
Continues(r, plan) == [run[r] EXCEPT !.at = "list", !.then = "renew", !.goal = "branch",
                                     !.owner = Nobody, !.plan = plan]

\* prepare-publication: one intent per issue, for ever.
Reserve(r) == /\ At(r, "reserve")
              /\ Leased(r)
              /\ pub.status = "none"
              /\ pub' = [NoPub EXCEPT !.status = "prepared", !.owner = r, !.plan = r,
                                      !.revision = run[r].revision]
              /\ run' = [run EXCEPT ![r] = Continues(r, r)]
              /\ UNCHANGED <<github, intake>>

\* Another planner is dispatched for a publication that nobody completes.
Resume(r) == /\ At(r, "idle")
             /\ r \in Planner
             /\ pub.status = "prepared"
             /\ ~Live
             /\ run' = [run EXCEPT ![r].at = "list", ![r].then = "history",
                                   ![r].revision = pub.revision, ![r].owner = pub.owner]
             /\ UNCHANGED <<github, store>>

\* A branch with any history of pull requests is left to its owner.
History(r) == /\ At(r, "history")
              /\ Created = {}
              /\ branch = NoBranch \/ branch = [plan |-> pub.plan, grown |-> FALSE]
              /\ Goes(r, "take")
              /\ UNCHANGED <<github, store>>

Take(r) == /\ At(r, "take")
           /\ issue = run[r].revision
           /\ pub.status = "prepared" /\ pub.owner = run[r].owner
           /\ intake.revision = run[r].revision
           /\ intake.status \in {"awaiting_planner", "leased"} /\ ~Live
           /\ intake.lease # r
           /\ pub' = [pub EXCEPT !.owner = r]
           /\ Grants(r)
           /\ run' = [run EXCEPT ![r] = Continues(r, pub.plan)]
           /\ UNCHANGED github

-----------------------------------------------------------------------------
(* The planner's writes to GitHub, which the lease does not fence.         *)

\* ensure_branch; GitHub creates a branch once.
EnsureBranch(r) ==
    LET planned == [plan |-> run[r].plan, grown |-> FALSE] IN
    /\ At(r, "branch")
    /\ branch \in {NoBranch, planned}
    /\ branch' = planned
    /\ Scans(r, "renew", "pull")
    /\ UNCHANGED <<issue, others, pull, events, store>>

\* ensure_pr: what is there, open or closed, then the pull request.
FindPull(r) ==
    /\ At(r, "pull")
    /\ \/ Created = {} /\ Goes(r, "create")
       \/ \E p \in Opened : /\ Created = {p}
                            /\ run' = [run EXCEPT ![r].at = "check", ![r].pull = p]
    /\ UNCHANGED <<github, store>>

\* GitHub has one open pull request of a branch at a time.
CreatePull(r, p) == /\ At(r, "create")
                    /\ Opened = {}
                    /\ pull[p].state = "absent"
                    /\ pull' = [pull EXCEPT ![p].state = "open"]
                    /\ run' = [run EXCEPT ![r].at = "check", ![r].pull = p]
                    /\ UNCHANGED <<issue, others, branch, events, store>>

CheckPull(r) == /\ At(r, "check")
                /\ branch = [plan |-> run[r].plan, grown |-> FALSE]
                /\ Goes(r, "handoff")
                /\ UNCHANGED <<github, store>>

\* ensure_handoff; a second one with the same content counts as the first.
Handoff(r) == /\ At(r, "handoff")
              /\ pull' = [pull EXCEPT ![run[r].pull].handoff = TRUE]
              /\ Goes(r, "confirm")
              /\ UNCHANGED <<issue, others, branch, events, store>>

-----------------------------------------------------------------------------
(* verify_publication, for the planner and for the recovery.               *)

Confirm(r) == /\ At(r, "confirm")
              /\ pub.owner = r /\ pub.revision = run[r].revision
              /\ pub.pull \in {NoPull, run[r].pull}
              /\ run' = [run EXCEPT ![r].at = "look", ![r].owner = r]
              /\ UNCHANGED <<github, store>>

\* recover_publications: the pending row, then the open pull requests; not
\* while a planner works on it.
Pending == pub.status = "prepared"

Rows == /\ At(Service, "rows")
        /\ Pending
        /\ run' = [run EXCEPT ![Service] = [@ EXCEPT !.at = "recover", !.owner = pub.owner,
                                                     !.revision = pub.revision]]
        /\ UNCHANGED <<github, store>>

Orphaned(p) == ~Live /\ Opened = {p} /\ others = "silent"

Recover(p) == /\ At(Service, "recover")
              /\ Orphaned(p)
              /\ run' = [run EXCEPT ![Service].at = "look", ![Service].pull = p]
              /\ UNCHANGED <<github, store>>

\* The issue is as it was, the pull request is the only one about it, and is
\* what was reserved; the recovery also accepts commits on top of the plan,
\* which it does not make ready.
Matches(r) ==
    LET p == run[r].pull IN
    /\ issue = run[r].revision
    /\ Opened = {p} /\ others = "silent"
    /\ IF branch.grown THEN r = Service /\ pull[p].route # "held"
                       ELSE pull[p].route \in {"none", "ready"}

Look(r) == /\ At(r, "look")
           /\ Matches(r)
           /\ Goes(r, IF branch.grown \/ pull[run[r].pull].route = "ready"
                      THEN "record" ELSE "verify")
           /\ UNCHANGED <<github, store>>

\* Mutant of Unchanged: the labels are read again, the HEAD is not.
LabelsUnchanged(r, route) == pull[run[r].pull].route = route

Unchanged(r, route) == ~branch.grown /\ pull[run[r].pull].route = route

Verify(r) == /\ At(r, "verify")
             /\ Unchanged(r, "none")
             /\ Goes(r, "put")
             /\ UNCHANGED <<github, store>>

Put(r) == /\ At(r, "put")
          /\ pull' = [pull EXCEPT ![run[r].pull].route = "ready"]
          /\ Goes(r, "projected")
          /\ UNCHANGED <<issue, others, branch, events, store>>

Projected(r) == /\ At(r, "projected")
                /\ Unchanged(r, "ready")
                /\ Goes(r, "record")
                /\ UNCHANGED <<github, store>>

\* Mutants of Holds: whoever is leasing the issue does not matter; a lease is
\* required.
HoldsForAnybody(r) == intake.revision = run[r].revision
HoldsOnlyLeased(r) == /\ intake.revision = run[r].revision
                      /\ intake.lease = run[r].owner

\* Nobody but the owner that the run read has the issue on lease, even an
\* expired one.
Holds(r) == /\ intake.revision = run[r].revision
            /\ intake.status = "leased" => intake.lease = run[r].owner

Recordable(r) == /\ issue = run[r].revision
                 /\ pub.revision = run[r].revision /\ pub.pull \in {NoPull, run[r].pull}
                 /\ Holds(r)

Record(r) == /\ At(r, "record")
             /\ Recordable(r)
             /\ pub' = [pub EXCEPT !.status = "applied", !.pull = run[r].pull]
             /\ intake' = [intake EXCEPT !.status = "linked", !.lease = Nobody,
                                         !.live = FALSE, !.linked = TRUE]
             /\ run' = [run EXCEPT ![r] = Stopped(r)]
             /\ UNCHANGED github

-----------------------------------------------------------------------------
(* The cycle, failures, and what others do.                                *)

Cycle == /\ At(Service, "idle")
         /\ Scans(Service, "rows", "none")
         /\ UNCHANGED <<github, store>>

\* A check refuses the planner, a request fails, the planner dies.
GivesUp(r) == /\ run[r].at \notin {"idle", "gone"}
              /\ run' = [run EXCEPT ![r] = Stopped(r)]
              /\ UNCHANGED <<github, store>>

\* The recovery waits for its next cycle: the publication cannot be confirmed.
Waits == /\ \/ At(Service, "rows") /\ ~Pending
            \/ At(Service, "recover") /\ \A p \in Pull : ~Orphaned(p)
            \/ At(Service, "look") /\ ~Matches(Service)
            \/ At(Service, "verify") /\ ~Unchanged(Service, "none")
            \/ At(Service, "projected") /\ ~Unchanged(Service, "ready")
            \/ At(Service, "record") /\ ~Recordable(Service)
         /\ run' = [run EXCEPT ![Service] = NoRun]
         /\ UNCHANGED <<github, store>>

Lapse == /\ Live
         /\ intake' = [intake EXCEPT !.live = FALSE]
         /\ UNCHANGED <<github, pub, run>>

Touched == events < MaxEvents /\ events' = events + 1

\* A request of the cycle fails, and the cycle goes on with what comes after
\* the scan or after the recovery; a restart is a failure of the recovery.
Fail == /\ Touched
        /\ ~At(Service, "idle")
        /\ \/ run' = [run EXCEPT ![Service] = NoRun]
           \/ /\ run[Service].at \in {"list", "observe"}
              /\ run' = [run EXCEPT ![Service] = [NoRun EXCEPT !.at = "rows"]]
        /\ UNCHANGED <<issue, others, branch, pull, store>>

Edit(revision) == /\ Touched
                  /\ issue' = revision
                  /\ issue' # issue
                  /\ UNCHANGED <<others, branch, pull, store, run>>

Others(say) == /\ Touched
               /\ others' = say
               /\ others' # others
               /\ UNCHANGED <<issue, branch, pull, store, run>>

\* GitHub does not fence a label write: nobody comes between its check and it.
Unfenced == \E r \in Runner : At(r, "put")

\* A commit on top of the plan.
Push == /\ branch # NoBranch /\ ~branch.grown
        /\ ~Unfenced
        /\ Touched
        /\ branch' = [branch EXCEPT !.grown = TRUE]
        /\ UNCHANGED <<issue, others, pull, store, run>>

Close(p) == /\ Touched
            /\ pull[p].state = "open"
            /\ pull' = [pull EXCEPT ![p].state = "closed"]
            /\ UNCHANGED <<issue, others, branch, store, run>>

\* The prototype worker takes the pull request; the owner asks for approval.
Relabel(p, route) == /\ Touched
                     /\ ~Unfenced
                     /\ pull[p].state = "open"
                     /\ pull[p].route # route
                     /\ route = "taken" => pull[p].route = "ready"
                     /\ pull' = [pull EXCEPT ![p].route = route]
                     /\ UNCHANGED <<issue, others, branch, store, run>>

Published(r) == \/ EnsureBranch(r) \/ FindPull(r)
                \/ \E p \in Pull : CreatePull(r, p)
                \/ CheckPull(r) \/ Handoff(r)

Verifies(r) == Look(r) \/ Verify(r) \/ Put(r) \/ Projected(r) \/ Record(r)

Works(r) == \/ Begin(r) \/ Claim(r) \/ Plan(r) \/ Renew(r) \/ Reserve(r)
            \/ Resume(r) \/ History(r) \/ Take(r)
            \/ Published(r) \/ Confirm(r) \/ Verifies(r)
            \/ ListIssues(r) \/ Observe(r) \/ GivesUp(r)

Serves == \/ Cycle \/ ListIssues(Service) \/ Observe(Service) \/ Verifies(Service)
          \/ Rows \/ \E p \in Pull : Recover(p)
          \/ Waits

Next == \/ \E r \in Planner : Works(r)
        \/ Serves \/ Fail
        \/ Lapse \/ Push
        \/ \E revision \in Revisions : Edit(revision)
        \/ \E say \in {"silent", "cite", "close"} : Others(say)
        \/ \E p \in Pull : Close(p) \/ \E route \in {"taken", "held"} : Relabel(p, route)

Spec == Init /\ [][Next]_vars

\* The cycle goes on, and a lease that nobody renews runs out.
Fairness == WF_vars(Serves) /\ WF_vars(Lapse)

FairSpec == Spec /\ Fairness

-----------------------------------------------------------------------------
(* Properties.                                                             *)

\* An issue that was ever seen with a pull request of its own is not planned
\* again, whatever became of that pull request and whichever scan, perhaps
\* one that read before it appeared, comes last.
NeverReplanned == intake.linked => intake.status \notin {"awaiting_planner", "leased"}

\* A publication is completed by the planner that has the issue on lease, and
\* by another, or the recovery, only when nobody has: not by one that began
\* to confirm before its work was taken over.
CompletedByOwner ==
    [][pub.status = "prepared" /\ pub'.status = "applied" /\ Live
        => At(intake.lease, "record") /\ run'[intake.lease].at = "gone"]_vars

\* A pull request is made ready for the prototype at the very commit that
\* was reserved for the issue, and only if it carried no state before, such
\* as one its owner put on it, or one of a prototype that already began.
ReadyIsReserved ==
    [][\A p \in Pull : pull'[p].route = "ready" /\ pull[p].route # "ready"
         => /\ pull[p].route = "none"
            /\ branch = [plan |-> pub.plan, grown |-> FALSE]]_vars

\* A plan that was published and whose planner is gone is confirmed by the
\* service, if nobody changes the issue or the pull request.
Confirmable(p) == /\ Opened = {p} /\ others = "silent"
                  /\ issue = pub.revision
                  /\ ~branch.grown
                  /\ pull[p].route \in {"none", "ready"}

AbandonedIsConfirmed ==
    <>[](\E p \in Pull : Confirmable(p)) => <>(pub.status = "applied")
=============================================================================
