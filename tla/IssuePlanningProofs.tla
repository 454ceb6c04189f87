------------------------ MODULE IssuePlanningProofs ------------------------
(***************************************************************************)
(* Theorems about IssuePlanning, for every set of planners, revisions and  *)
(* pull requests and any number of interferences.                          *)
(***************************************************************************)
EXTENDS IssuePlanning, TLAPS

-----------------------------------------------------------------------------
(* The inductive invariant.                                                *)

Verifying == {"look", "verify", "put", "projected", "record"}
Dealing == {"check", "handoff", "confirm"} \cup Verifying

\* A scan knows what comes after it, a heartbeat what it is for.
Sched(r) ==
    /\ run[r].at \in {"list", "observe"} <=> run[r].then # "none"
    /\ run[r].then \in {"none"} \cup IF r = Service THEN {"rows"}
                                     ELSE {"claim", "history", "renew", "reserve"}
    /\ run[r].at = "renew" \/ run[r].then = "renew" =>
           run[r].goal \in {"reserve", "branch", "pull"}
    /\ run[r].goal # "none" => run[r].at = "renew" \/ run[r].then = "renew"

\* A planner publishes the plan that is reserved, on the branch that has it.
Planned(r) ==
    /\ run[r].plan \in {Nobody, pub.plan}
    /\ run[r].goal \in {"branch", "pull"} \/ run[r].at \in {"branch", "pull", "create"} =>
           run[r].plan # Nobody
    /\ run[r].goal = "pull" \/ run[r].at \in {"pull", "create"} => branch.plan # Nobody

Publication == /\ pub.status = "none" <=> pub.plan = Nobody
               /\ branch.plan \in {Nobody, pub.plan}
               /\ Created # {} => branch.plan # Nobody

\* The pull request that a run deals with was created; nobody touches what is
\* between the last check and the label request.
Dealt(r) ==
    /\ run[r].at \in Dealing => run[r].pull \in Created
    /\ run[r].at = "put" => ~branch.grown /\ pull[run[r].pull].route \in {"none", "ready"}

\* A planner that has not taken the issue yet is not the owner of anything.
Starting(r) == \/ run[r].at \in {"idle", "claim", "history", "take"}
               \/ run[r].then \in {"claim", "history"}

Owners == /\ \A r \in Planner : Starting(r) => r # pub.owner /\ r # run[Service].owner
          /\ \A r \in Planner : run[r].at \in Verifying => run[r].owner = r
          /\ run[Service].at \in Verifying /\ Live => intake.lease # run[Service].owner

IInv == /\ TypeOK /\ NeverReplanned /\ Publication /\ Owners
        /\ \A r \in Runner : Sched(r) /\ Planned(r) /\ Dealt(r)

-----------------------------------------------------------------------------
(* Types.                                                                  *)

LEMMA Nulls ==
    /\ Nobody \notin Planner /\ Service \notin Planner /\ Nobody # Service /\ NoPull \notin Pull
    /\ Planner \subseteq Runner /\ Service \in Runner
BY NullAssumption DEF Runner

LEMMA NoRunType == NoRun \in Runs /\ [NoRun EXCEPT !.at = "gone"] \in Runs
                   /\ [NoRun EXCEPT !.at = "rows"] \in Runs
BY DEF NoRun, Runs, Step, Revisions, Owner

LEMMA StoppedType == ASSUME NEW r \in Runner PROVE Stopped(r) \in Runs
BY NoRunType DEF Stopped

LEMMA StepNames ==
    {"idle", "gone", "list", "observe", "claim", "plan", "renew", "reserve", "history", "take",
     "branch", "pull", "create", "check", "handoff", "confirm", "look", "verify", "put",
     "projected", "record", "rows", "recover"} \subseteq Step
BY DEF Step

LEMMA ReadsType ==
    ASSUME TypeOK, NEW r \in Runner
    PROVE  /\ run[r] \in Runs /\ run[r].then \in Step \cup {"none"}
           /\ run[r].goal \in Step \cup {"none"} /\ run[r].plan \in Owner
           /\ run[r].owner \in Owner /\ run[r].revision \in Revisions
           /\ run[r].saw \in Revisions /\ run[r].pull \in Pull \cup {NoPull}
           /\ run[r].at \in Step
BY DEF TypeOK, Runs

\* A run that is at a step of its own.
LEMMA RunType ==
    ASSUME TypeOK, NEW r \in Runner, NEW x \in Runs, run' = [run EXCEPT ![r] = x]
    PROVE  run' \in [Runner -> Runs]
BY DEF TypeOK

LEMMA ObserveType ==
    ASSUME TypeOK, NEW r \in Runner, Sched(r), Observe(r)
    PROVE  /\ run' \in [Runner -> Runs] /\ intake' \in Intakes
           /\ intake'.status = "leased" <=> intake'.lease # Nobody
<1>1. run[r].then \in Step
  <2>1. run[r].then # "none"
    BY DEF Observe, At, Sched
  <2> QED BY <2>1, ReadsType
<1>2. [run[r] EXCEPT !.at = run[r].then, !.then = "none", !.saw = Closed] \in Runs
  <2>1. run[r] \in Runs
    BY ReadsType
  <2> QED BY <1>1, <2>1 DEF Runs, Revisions
<1>3. run' = [run EXCEPT ![r] = [run[r] EXCEPT !.at = run[r].then, !.then = "none",
                                             !.saw = Closed]]
  BY DEF Observe, TypeOK
<1>4. run' \in [Runner -> Runs]
  BY <1>2, <1>3, RunType
<1> DEFINE status == Observed(run[r].saw, Disposition(run[r].saw))
<1>5. status \in {"linked", "needs_link_resolution", "awaiting_planner", "not_ready"}
  BY DEF Observed, Disposition
<1>6. Resets(run[r].saw, status) \in Intakes
  <2>1. Associated \in BOOLEAN /\ intake.linked \in BOOLEAN
    BY DEF Associated, TypeOK, Intakes
  <2> QED BY <1>5, <2>1, ReadsType DEF Resets, Intakes, Owner
<1>7. \/ intake' = intake
      \/ intake' = [intake EXCEPT !.status = "closed", !.lease = Nobody, !.live = FALSE]
      \/ intake' = Resets(run[r].saw, status)
  BY DEF Observe
<1>8. intake' \in Intakes
  <2>1. intake \in Intakes
    BY DEF TypeOK
  <2>2. [intake EXCEPT !.status = "closed", !.lease = Nobody, !.live = FALSE] \in Intakes
    BY <2>1 DEF Intakes, Owner
  <2> QED BY <1>6, <1>7, <2>1, <2>2
<1>9. intake'.status = "leased" <=> intake'.lease # Nobody
  <2>1. Resets(run[r].saw, status).status = status /\ Resets(run[r].saw, status).lease = Nobody
    BY DEF Resets
  <2>2. intake \in Intakes /\ (intake.status = "leased" <=> intake.lease # Nobody)
    BY DEF TypeOK
  <2> HIDE DEF status
  <2> QED BY <1>5, <1>7, <2>1, <2>2 DEF Intakes
<1> QED BY <1>4, <1>8, <1>9

\* The steps of a run that change its record only.
Walks(r) == \/ ListIssues(r) \/ Begin(r) \/ Plan(r) \/ Renew(r) \/ Resume(r) \/ History(r)
            \/ FindPull(r) \/ CheckPull(r) \/ Confirm(r) \/ Look(r) \/ Verify(r) \/ Projected(r)

LEMMA WalksType ==
    ASSUME TypeOK, NEW r \in Runner, Sched(r), Walks(r) PROVE run' \in [Runner -> Runs]
<1> USE StepNames, ReadsType
<1>0. run[r] \in Runs /\ run \in [Runner -> Runs] /\ issue \in Revisions
  BY DEF TypeOK
<1>1. CASE ListIssues(r)
  BY <1>0, <1>1 DEF ListIssues, Runs
<1>2. CASE Begin(r)
  <2>1. intake.revision \in Revisions
    BY DEF TypeOK, Intakes
  <2> QED BY <1>0, <1>2, <2>1 DEF Begin, Runs
<1>3. CASE Plan(r)
  BY <1>0, <1>3 DEF Plan, Scans, Runs
<1>4. CASE Renew(r)
  <2>1. run[r].goal \in {"reserve", "branch", "pull"}
    BY <1>4 DEF Renew, At, Sched
  <2> QED BY <1>0, <1>4, <2>1 DEF Renew, Scans, Runs
<1>5. CASE Resume(r)
  <2>1. pub.revision \in Revisions /\ pub.owner \in Owner
    BY DEF TypeOK, Pubs
  <2> QED BY <1>0, <1>5, <2>1 DEF Resume, Runs
<1>6. CASE FindPull(r)
  <2>1. Opened \subseteq Pull
    BY DEF Opened
  <2> QED BY <1>0, <1>6, <2>1 DEF FindPull, Goes, Runs
<1>7. CASE Confirm(r)
  <2>1. r \in Owner
    BY <1>7, ReadsType DEF Confirm, TypeOK, Pubs
  <2> QED BY <1>0, <1>7, <2>1 DEF Confirm, Runs
<1>8. ASSUME NEW step \in Step, Goes(r, step) PROVE run' \in [Runner -> Runs]
  BY <1>0, <1>8 DEF Goes, Runs
<1>9. CASE History(r) \/ CheckPull(r) \/ Look(r) \/ Verify(r) \/ Projected(r)
  BY <1>8, <1>9 DEF History, CheckPull, Look, Verify, Projected
<1> QED BY <1>1, <1>2, <1>3, <1>4, <1>5, <1>6, <1>7, <1>9 DEF Walks

LEMMA InitType == Init => TypeOK
<1> SUFFICES ASSUME Init PROVE TypeOK
  OBVIOUS
<1>1. intake \in Intakes /\ pub \in Pubs
  BY DEF Init, NoPub, Intakes, Pubs, Revisions, Owner
<1>2. pull \in [Pull -> Pulls] /\ branch \in Branches
  BY DEF Init, NoBranch, Pulls, Branches, Owner
<1>3. run \in [Runner -> Runs]
  BY NoRunType DEF Init
<1> QED BY <1>1, <1>2, <1>3, EventsAssumption DEF Init, TypeOK, NoPub, Revisions

LEMMA GrantType ==
    ASSUME TypeOK, NEW r \in Planner, Grants(r)
    PROVE  /\ intake' \in Intakes /\ intake'.status = "leased" /\ intake'.lease = r
           /\ intake'.live /\ intake'.linked = intake.linked
           /\ intake'.revision = intake.revision
BY DEF Grants, TypeOK, Intakes, Owner

LEMMA ContinuesType ==
    ASSUME TypeOK, NEW r \in Planner, NEW plan \in Owner
    PROVE  Continues(r, plan) \in Runs
<1>1. run[r] \in Runs
  BY Nulls, ReadsType
<1> QED BY <1>1, StepNames DEF Continues, Runs, Owner

LEMMA NextType ==
    ASSUME TypeOK, \A r \in Runner : Sched(r), \A r \in Runner : Dealt(r), [Next]_vars
    PROVE  TypeOK'
<1>0. /\ issue \in Revisions /\ others \in {"silent", "cite", "close"} /\ branch \in Branches
      /\ pull \in [Pull -> Pulls] /\ events \in 0..MaxEvents
      /\ intake \in Intakes /\ (intake.status = "leased" <=> intake.lease # Nobody)
      /\ pub \in Pubs /\ (pub.status = "applied" <=> pub.pull # NoPull)
      /\ run \in [Runner -> Runs]
  BY DEF TypeOK
<1> USE Nulls
<1>1. ASSUME NEW r \in Runner, Walks(r) PROVE TypeOK'
  <2>1. run' \in [Runner -> Runs]
    BY <1>1, WalksType
  <2>2. UNCHANGED <<github, store>>
    BY <1>1 DEF Walks, ListIssues, Begin, Plan, Renew, Resume, History, FindPull, CheckPull,
                Confirm, Look, Verify, Projected
  <2> QED BY <1>0, <2>1, <2>2 DEF github, store, TypeOK
<1>2. ASSUME NEW r \in Runner, Observe(r) PROVE TypeOK'
  BY <1>0, <1>2, ObserveType DEF Observe, github, TypeOK
<1>3. ASSUME NEW r \in Planner, Claim(r) PROVE TypeOK'
  <2>1. run' \in [Runner -> Runs]
    BY <1>0, <1>3, StepNames DEF Claim, Goes, Runs
  <2> QED BY <1>0, <1>3, <2>1, GrantType DEF Claim, github, TypeOK
<1>4. ASSUME NEW r \in Planner, Reserve(r) PROVE TypeOK'
  <2>1. run' \in [Runner -> Runs]
    BY <1>0, <1>4, ContinuesType DEF Reserve, Owner
  <2>2. pub' \in Pubs /\ pub'.status = "prepared" /\ pub'.pull = NoPull
    <3>1. run[r].revision \in Revisions /\ r \in Owner
      BY ReadsType DEF Owner
    <3> QED BY <1>4, <3>1 DEF Reserve, NoPub, Pubs
  <2> QED BY <1>0, <1>4, <2>1, <2>2 DEF Reserve, github, TypeOK
<1>5. ASSUME NEW r \in Planner, Take(r) PROVE TypeOK'
  <2>1. run' \in [Runner -> Runs]
    BY <1>0, <1>5, ContinuesType DEF Take, Pubs
  <2>2. pub' \in Pubs /\ pub'.status = pub.status /\ pub'.pull = pub.pull
    BY <1>0, <1>5 DEF Take, Pubs, Owner
  <2> QED BY <1>0, <1>5, <2>1, <2>2, GrantType DEF Take, github, TypeOK
<1>6. ASSUME NEW r \in Planner, EnsureBranch(r) PROVE TypeOK'
  <2>1. run' \in [Runner -> Runs]
    BY <1>0, <1>6, StepNames DEF EnsureBranch, Scans, Runs
  <2>2. branch' \in Branches
    BY <1>6, ReadsType DEF EnsureBranch, Branches
  <2> QED BY <1>0, <1>6, <2>1, <2>2 DEF EnsureBranch, store, TypeOK
<1>7. ASSUME NEW r \in Planner, NEW p \in Pull, CreatePull(r, p) PROVE TypeOK'
  <2>1. run' \in [Runner -> Runs]
    BY <1>0, <1>7, StepNames DEF CreatePull, Runs
  <2>2. pull' \in [Pull -> Pulls]
    BY <1>0, <1>7 DEF CreatePull, Pulls
  <2> QED BY <1>0, <1>7, <2>1, <2>2 DEF CreatePull, store, TypeOK
<1>8. ASSUME NEW r \in Planner, Handoff(r) PROVE TypeOK'
  <2>1. run' \in [Runner -> Runs]
    BY <1>0, <1>8, StepNames DEF Handoff, Goes, Runs
  <2>2. pull' \in [Pull -> Pulls]
    BY <1>0, <1>8 DEF Handoff, Pulls
  <2> QED BY <1>0, <1>8, <2>1, <2>2 DEF Handoff, store, TypeOK
<1>9. ASSUME NEW r \in Runner, Put(r) PROVE TypeOK'
  <2>1. run' \in [Runner -> Runs]
    BY <1>0, <1>9, StepNames DEF Put, Goes, Runs
  <2>2. pull' \in [Pull -> Pulls]
    BY <1>0, <1>9 DEF Put, Pulls
  <2> QED BY <1>0, <1>9, <2>1, <2>2 DEF Put, store, TypeOK
<1>10. ASSUME NEW r \in Runner, Record(r) PROVE TypeOK'
  <2>1. run' \in [Runner -> Runs]
    BY <1>0, <1>10, StoppedType DEF Record
  <2>2. run[r].pull \in Pull
    BY <1>10 DEF Record, At, Dealt, Dealing, Verifying, Created
  <2>3. pub' \in Pubs /\ pub'.status = "applied" /\ pub'.pull # NoPull
    BY <1>0, <1>10, <2>2 DEF Record, Pubs
  <2>4. intake' \in Intakes /\ intake'.status = "linked" /\ intake'.lease = Nobody
    BY <1>0, <1>10 DEF Record, Intakes, Owner
  <2> QED BY <1>0, <1>10, <2>1, <2>3, <2>4 DEF Record, github, TypeOK
<1>11. ASSUME NEW r \in Planner, GivesUp(r) PROVE TypeOK'
  BY <1>0, <1>11, StoppedType DEF GivesUp, github, store, TypeOK
<1>12. CASE Cycle \/ Rows \/ Waits \/ \E p \in Pull : Recover(p)
  <2>1. run' \in [Runner -> Runs]
    <3>1. run[Service] \in Runs /\ pub.owner \in Owner /\ pub.revision \in Revisions
      BY <1>0 DEF Pubs
    <3>2. CASE Cycle
      BY <1>0, <3>1, <3>2, StepNames DEF Cycle, Scans, Runs
    <3>3. CASE Rows
      BY <1>0, <3>1, <3>3, StepNames DEF Rows, Runs
    <3>4. CASE Waits
      BY <1>0, <3>4, NoRunType DEF Waits
    <3>5. ASSUME NEW p \in Pull, Recover(p) PROVE run' \in [Runner -> Runs]
      BY <1>0, <3>1, <3>5, StepNames DEF Recover, Runs
    <3> QED BY <1>12, <3>2, <3>3, <3>4, <3>5
  <2> QED BY <1>0, <1>12, <2>1 DEF Cycle, Rows, Waits, Recover, github, store, TypeOK
<1>13. CASE Lapse
  <2>1. intake' \in Intakes /\ intake'.status = intake.status /\ intake'.lease = intake.lease
    BY <1>0, <1>13 DEF Lapse, Intakes
  <2> QED BY <1>0, <1>13, <2>1 DEF Lapse, github, TypeOK
<1>14. Touched => events' \in 0..MaxEvents
  BY <1>0, EventsAssumption DEF Touched
<1>15. CASE Fail
  <2>1. run' \in [Runner -> Runs]
    BY <1>0, <1>15, NoRunType DEF Fail
  <2> QED BY <1>0, <1>14, <1>15, <2>1 DEF Fail, store, TypeOK
<1>16. CASE Push
  <2>1. branch' \in Branches
    BY <1>0, <1>16 DEF Push, Branches
  <2> QED BY <1>0, <1>14, <1>16, <2>1 DEF Push, store, TypeOK
<1>17. ASSUME NEW revision \in Revisions, Edit(revision) PROVE TypeOK'
  BY <1>0, <1>14, <1>17 DEF Edit, store, TypeOK
<1>18. ASSUME NEW say \in {"silent", "cite", "close"}, Others(say) PROVE TypeOK'
  BY <1>0, <1>14, <1>18 DEF Others, store, TypeOK
<1>19. ASSUME NEW p \in Pull, Close(p) \/ \E route \in {"taken", "held"} : Relabel(p, route)
       PROVE  TypeOK'
  <2>1. pull' \in [Pull -> Pulls]
    BY <1>0, <1>19 DEF Close, Relabel, Pulls
  <2> QED BY <1>0, <1>14, <1>19, <2>1 DEF Close, Relabel, store, TypeOK
<1>20. CASE UNCHANGED vars
  BY <1>0, <1>20 DEF vars, github, store, TypeOK
<1> QED BY <1>1, <1>2, <1>3, <1>4, <1>5, <1>6, <1>7, <1>8, <1>9, <1>10, <1>11, <1>12, <1>13,
           <1>15, <1>16, <1>17, <1>18, <1>19, <1>20
        DEF Next, Works, Serves, Published, Verifies, Walks

-----------------------------------------------------------------------------
(* Never planned again.                                                    *)

LEMMA NextNeverReplanned == TypeOK /\ NeverReplanned /\ [Next]_vars => NeverReplanned'
<1> SUFFICES ASSUME TypeOK, NeverReplanned, [Next]_vars PROVE NeverReplanned'
  OBVIOUS
<1>0. intake \in Intakes
  BY DEF TypeOK
<1>1. ASSUME NEW r \in Runner, Observe(r) PROVE NeverReplanned'
  <2> DEFINE status == Observed(run[r].saw, Disposition(run[r].saw))
  <2>1. intake.linked \/ Associated => status \notin {"awaiting_planner", "leased"}
    BY DEF Observed, Disposition
  <2>2. \/ intake' = intake
        \/ intake' = [intake EXCEPT !.status = "closed", !.lease = Nobody, !.live = FALSE]
        \/ intake' = Resets(run[r].saw, status)
    BY <1>1 DEF Observe
  <2>3. /\ Resets(run[r].saw, status).status = status
        /\ Resets(run[r].saw, status).linked = (intake.linked \/ Associated)
    BY DEF Resets
  <2> HIDE DEF status
  <2> QED BY <1>0, <2>1, <2>2, <2>3 DEF NeverReplanned, Intakes
<1>2. ASSUME NEW r \in Planner, Grants(r), intake.status \in {"awaiting_planner", "leased"}
      PROVE  NeverReplanned'
  BY <1>2, GrantType DEF NeverReplanned
<1>3. ASSUME NEW r \in Runner, Record(r) PROVE NeverReplanned'
  BY <1>0, <1>3 DEF Record, NeverReplanned, Intakes
<1>4. CASE Lapse
  BY <1>0, <1>4 DEF Lapse, NeverReplanned, Intakes
<1>5. CASE UNCHANGED intake
  BY <1>5 DEF NeverReplanned
<1>6. ASSUME NEW r \in Planner, Works(r) PROVE NeverReplanned'
  <2>1. CASE Claim(r) \/ Take(r)
    BY <1>2, <2>1 DEF Claim, Take
  <2>2. CASE Observe(r) \/ Record(r)
    BY <1>1, <1>3, <2>2, Nulls
  <2>3. CASE ~(Claim(r) \/ Take(r) \/ Observe(r) \/ Record(r))
    BY <1>5, <1>6, <2>3
       DEF Works, Published, Verifies, Begin, Plan, Renew, Reserve, Resume, History, EnsureBranch,
           FindPull, CreatePull, CheckPull, Handoff, Confirm, Look, Verify, Put, Projected,
           ListIssues, GivesUp, store
  <2> QED BY <2>1, <2>2, <2>3
<1>7. CASE Serves
  <2>1. CASE Observe(Service) \/ Record(Service)
    BY <1>1, <1>3, <2>1, Nulls
  <2>2. CASE ~(Observe(Service) \/ Record(Service))
    BY <1>5, <1>7, <2>2
       DEF Serves, Verifies, Cycle, ListIssues, Look, Verify, Put, Projected, Rows, Recover, Waits,
           store
  <2> QED BY <2>1, <2>2
<1>8. CASE ~(Serves \/ Lapse \/ \E r \in Planner : Works(r))
  BY <1>5, <1>8 DEF Next, Fail, Push, Edit, Others, Close, Relabel, store, vars
<1> QED BY <1>4, <1>6, <1>7, <1>8

-----------------------------------------------------------------------------
(* Steps of a run, one at a time.                                          *)

LEMMA NextSched ==
    ASSUME TypeOK, \A r \in Runner : Sched(r), [Next]_vars, NEW q \in Runner
    PROVE  Sched(q)'
<1> USE Nulls
<1>0. run \in [Runner -> Runs] /\ Sched(q) /\ run[q] \in Runs
  BY DEF TypeOK
<1>1. NoRun.at = "idle" /\ NoRun.then = "none" /\ NoRun.goal = "none"
  BY DEF NoRun
<1>2. ASSUME NEW r \in Runner, Walks(r) PROVE Sched(q)'
  <2>1. CASE r # q
    BY <1>0, <1>2, <2>1
       DEF Walks, ListIssues, Begin, Plan, Renew, Resume, History, FindPull, CheckPull, Confirm,
           Look, Verify, Projected, Goes, Scans, Sched
  <2>2. CASE r = q
    <3>1. CASE ListIssues(q)
      BY <1>0, <3>1 DEF ListIssues, At, Sched, Runs
    <3>2. CASE Begin(q) \/ Resume(q)
      BY <1>0, <3>2 DEF Begin, Resume, At, Sched, Runs
    <3>3. CASE Plan(q)
      BY <1>0, <2>2, <3>3 DEF Plan, At, Scans, Sched, Runs
    <3>4. CASE Renew(q)
      BY <1>0, <3>4 DEF Renew, At, Scans, Sched, Runs
    <3>5. ASSUME NEW step \in Step \ {"list", "observe", "renew"}, Goes(q, step),
                 run[q].at \notin {"list", "observe", "renew"}
          PROVE  Sched(q)'
      BY <1>0, <3>5 DEF Goes, Sched, Runs
    <3>6. CASE \/ History(q) \/ CheckPull(q) \/ Look(q) \/ Verify(q) \/ Projected(q)
      BY <3>5, <3>6, StepNames DEF History, CheckPull, Look, Verify, Projected, At
    <3>7. CASE FindPull(q) \/ Confirm(q)
      BY <1>0, <3>7 DEF FindPull, Confirm, At, Goes, Sched, Runs
    <3> QED BY <1>2, <2>2, <3>1, <3>2, <3>3, <3>4, <3>6, <3>7 DEF Walks
  <2> QED BY <2>1, <2>2
<1>3. ASSUME NEW r \in Runner, Observe(r) PROVE Sched(q)'
  <2>1. run' = [run EXCEPT ![r].at = run[r].then, ![r].then = "none", ![r].saw = Closed]
        /\ run[r].at = "observe"
    BY <1>3 DEF Observe, At
  <2>2. CASE r # q
    BY <1>0, <2>1, <2>2 DEF Sched
  <2>3. CASE r = q
    <3>1. run'[q].at = run[q].then /\ run'[q].then = "none" /\ run'[q].goal = run[q].goal
      BY <1>0, <2>1, <2>3 DEF Runs
    <3> QED BY <1>0, <2>1, <2>3, <3>1 DEF Sched
  <2> QED BY <2>2, <2>3
<1>4. ASSUME NEW r \in Planner, Claim(r) PROVE Sched(q)'
  BY <1>0, <1>4 DEF Claim, CreatePull, At, Goes, Sched, Runs
<1>5. ASSUME NEW r \in Planner, NEW p \in Pull, CreatePull(r, p) PROVE Sched(q)'
  BY <1>0, <1>5 DEF CreatePull, At, Sched, Runs
<1>6. ASSUME NEW r \in Planner, Reserve(r) \/ Take(r) PROVE Sched(q)'
  <2>1. PICK plan : run' = [run EXCEPT ![r] = Continues(r, plan)]
    BY <1>6 DEF Reserve, Take
  <2>2. CASE r # q
    BY <1>0, <2>1, <2>2 DEF Sched
  <2>3. CASE r = q
    <3>1. /\ run'[q].at = "list" /\ run'[q].then = "renew" /\ run'[q].goal = "branch"
      BY <1>0, <2>1, <2>3 DEF Continues, Runs
    <3> QED BY <2>3, <3>1 DEF Sched
  <2> QED BY <2>2, <2>3
<1>7. ASSUME NEW r \in Planner, EnsureBranch(r) PROVE Sched(q)'
  BY <1>0, <1>7 DEF EnsureBranch, At, Scans, Sched, Runs
<1>8. ASSUME NEW r \in Runner, Handoff(r) \/ Put(r) PROVE Sched(q)'
  BY <1>0, <1>8 DEF Handoff, Put, Goes, At, Sched, Runs
<1>9. ASSUME NEW r \in Runner, run' = [run EXCEPT ![r] = Stopped(r)] PROVE Sched(q)'
  BY <1>0, <1>1, <1>9 DEF Stopped, NoRun, Sched
<1>10. ASSUME NEW r \in Runner, Record(r) \/ GivesUp(r) PROVE Sched(q)'
  BY <1>9, <1>10 DEF Record, GivesUp
<1>11. CASE Cycle \/ Rows \/ \E p \in Pull : Recover(p)
  <2>1. run[Service] \in Runs
    BY DEF TypeOK
  <2>2. CASE Cycle
    BY <1>0, <2>1, <2>2 DEF Cycle, At, Scans, Sched, Runs
  <2>3. CASE Rows
    BY <1>0, <2>1, <2>3 DEF Rows, At, Sched, Runs
  <2>4. ASSUME NEW p \in Pull, Recover(p) PROVE Sched(q)'
    BY <1>0, <2>1, <2>4 DEF Recover, At, Sched, Runs
  <2> QED BY <1>11, <2>2, <2>3, <2>4
<1>12. CASE Waits \/ Fail
  BY <1>0, <1>1, <1>12 DEF Waits, Fail, NoRun, Sched
<1>13. CASE UNCHANGED run
  BY <1>0, <1>13 DEF Sched
<1> QED BY <1>2, <1>3, <1>4, <1>5, <1>6, <1>7, <1>8, <1>10, <1>11, <1>12, <1>13
        DEF Next, Works, Serves, Published, Verifies, Walks, Lapse, Push, Edit, Others, Close,
            Relabel, vars

\* What a step that changes the record of its run only does to that record.
Walked(r) ==
    /\ \A q \in Runner : q # r => run'[q] = run[q]
    /\ run'[r].plan = run[r].plan
    /\ run'[r].goal \in {"branch", "pull"} => run'[r].goal = run[r].goal
    /\ run'[r].at = "branch" => run[r].goal = "branch"
    /\ run'[r].at = "pull" => run[r].goal = "pull"
    /\ run'[r].at = "create" => run[r].at = "pull"
    /\ run'[r].at \in Dealing =>
           \/ run'[r].pull \in Created
           \/ run'[r].pull = run[r].pull /\ run[r].at \in Dealing
    /\ run'[r].at = "put" => ~branch.grown /\ pull[run'[r].pull].route = "none"
    /\ r \in Planner /\ Starting(r)' => Starting(r)
    /\ r = Service => run'[r].owner = run[r].owner
    /\ r \in Planner /\ run'[r].at \in Verifying =>
           \/ run'[r].owner = r
           \/ run'[r].owner = run[r].owner /\ run[r].at \in Verifying
    /\ r = Service /\ run'[r].at \in Verifying => run[r].at \in Verifying

\* The service is at none of the planner's steps.
Strolls(r) == /\ Walks(r)
              /\ r = Service => ListIssues(r) \/ Look(r) \/ Verify(r) \/ Projected(r)

LEMMA WalkedByAll ==
    ASSUME TypeOK, NEW r \in Runner, Sched(r), Strolls(r) PROVE Walked(r)
<1> USE Nulls
<1>0. run \in [Runner -> Runs] /\ run[r] \in Runs
  BY DEF TypeOK
<1>1. CASE ListIssues(r)
  BY <1>0, <1>1 DEF ListIssues, At, Walked, Dealing, Verifying, Starting, Runs
<1>2. CASE Begin(r)
  BY <1>0, <1>2 DEF Begin, At, Walked, Dealing, Verifying, Starting, Runs
<1>3. CASE Plan(r)
  BY <1>0, <1>3 DEF Plan, At, Scans, Walked, Dealing, Verifying, Starting, Runs, Strolls
<1>4. CASE Renew(r)
  <2>1. run[r].goal \in {"reserve", "branch", "pull"}
    BY <1>4 DEF Renew, At, Sched
  <2>2. CASE run[r].goal = "reserve"
    BY <1>0, <1>4, <2>2 DEF Renew, At, Scans, Walked, Dealing, Verifying, Starting, Runs
  <2>3. CASE run[r].goal # "reserve"
    <3>1. run' = [run EXCEPT ![r].at = run[r].goal, ![r].goal = "none"]
      BY <1>4, <2>3 DEF Renew
    <3>2. /\ run'[r].at = run[r].goal /\ run'[r].goal = "none" /\ run'[r].then = run[r].then
          /\ run'[r].plan = run[r].plan /\ run'[r].owner = run[r].owner
          /\ \A q \in Runner : q # r => run'[q] = run[q]
      BY <1>0, <3>1 DEF Runs
    <3>3. run[r].then = "none"
      BY <1>4 DEF Renew, At, Sched
    <3>4. /\ run'[r].at \in {"branch", "pull"} /\ run'[r].at = run[r].goal
      BY <2>1, <2>3, <3>2
    <3>5. ~Starting(r)'
      BY <3>2, <3>3, <3>4 DEF Starting
    <3> QED BY <3>2, <3>4, <3>5 DEF Walked, Dealing, Verifying
  <2> QED BY <2>2, <2>3
<1>5. CASE Resume(r)
  BY <1>0, <1>5 DEF Resume, At, Walked, Dealing, Verifying, Starting, Runs
<1>6. CASE FindPull(r)
  <2>1. CASE Goes(r, "create")
    BY <1>0, <1>6, <2>1 DEF FindPull, At, Goes, Walked, Dealing, Verifying, Starting, Runs
  <2>2. ASSUME NEW p \in Opened, Created = {p},
               run' = [run EXCEPT ![r].at = "check", ![r].pull = p]
        PROVE  Walked(r)
    BY <1>0, <1>6, <2>2 DEF Walked, Dealing, Verifying, Starting, Runs
  <2> QED BY <1>6, <2>1, <2>2 DEF FindPull
<1>7. CASE Confirm(r)
  <2>1. run[r].at = "confirm" /\ run' = [run EXCEPT ![r].at = "look", ![r].owner = r]
    BY <1>7 DEF Confirm, At
  <2>2. r # Service
    BY <2>1 DEF Strolls, ListIssues, Look, Verify, Projected, At
  <2>3. /\ run'[r].at = "look" /\ run'[r].goal = run[r].goal /\ run'[r].then = run[r].then
        /\ run'[r].plan = run[r].plan /\ run'[r].owner = r /\ run'[r].pull = run[r].pull
        /\ \A q \in Runner : q # r => run'[q] = run[q]
    BY <1>0, <2>1 DEF Runs
  <2>4. Starting(r)' => Starting(r)
    BY <2>3 DEF Starting
  <2>5. "look" \in Verifying /\ "look" \in Dealing /\ "confirm" \in Dealing
    BY DEF Verifying, Dealing
  <2>6. /\ run'[r].at # "put" /\ run'[r].at # "branch" /\ run'[r].at # "pull"
        /\ run'[r].at # "create"
    BY <2>3
  <2> QED BY <2>1, <2>2, <2>3, <2>4, <2>5, <2>6 DEF Walked
<1>8. CASE History(r)
  BY <1>0, <1>8 DEF History, At, Goes, Walked, Dealing, Verifying, Starting, Runs
<1>9. CASE CheckPull(r)
  BY <1>0, <1>9 DEF CheckPull, At, Goes, Walked, Dealing, Verifying, Starting, Runs
<1>10. CASE Look(r)
  BY <1>0, <1>10 DEF Look, At, Goes, Walked, Dealing, Verifying, Starting, Runs
<1>11. CASE Verify(r)
  BY <1>0, <1>11 DEF Verify, Unchanged, At, Goes, Walked, Dealing, Verifying, Starting, Runs
<1>12. CASE Projected(r)
  BY <1>0, <1>12 DEF Projected, At, Goes, Walked, Dealing, Verifying, Starting, Runs
<1> QED BY <1>1, <1>2, <1>3, <1>4, <1>5, <1>6, <1>7, <1>8, <1>9, <1>10, <1>11, <1>12
        DEF Strolls, Walks

\* A scan that ends, and the steps that name where they go.
LEMMA ObservedRun ==
    ASSUME TypeOK, NEW r \in Runner, Sched(r), Observe(r)
    PROVE  /\ \A q \in Runner : q # r => run'[q] = run[q]
           /\ run'[r].at = run[r].then /\ run'[r].then = "none"
           /\ run'[r].goal = run[r].goal /\ run'[r].plan = run[r].plan
           /\ run'[r].owner = run[r].owner /\ run'[r].pull = run[r].pull
           /\ run[r].then \in IF r = Service THEN {"rows"}
                             ELSE {"claim", "history", "renew", "reserve"}
<1>1. run' = [run EXCEPT ![r].at = run[r].then, ![r].then = "none", ![r].saw = Closed]
  BY DEF Observe
<1>2. run[r] \in Runs /\ run \in [Runner -> Runs]
  BY DEF TypeOK
<1>3. run[r].then # "none"
  BY DEF Observe, At, Sched
<1> QED BY <1>1, <1>2, <1>3 DEF Sched, Runs

LEMMA Went ==
    ASSUME TypeOK, NEW r \in Runner, NEW step, Goes(r, step)
    PROVE  /\ \A q \in Runner : q # r => run'[q] = run[q]
           /\ run'[r] = [run[r] EXCEPT !.at = step]
           /\ run'[r].at = step /\ run'[r].then = run[r].then
           /\ run'[r].goal = run[r].goal /\ run'[r].plan = run[r].plan
           /\ run'[r].owner = run[r].owner /\ run'[r].pull = run[r].pull
BY DEF Goes, TypeOK, Runs

LEMMA Continued ==
    ASSUME TypeOK, NEW r \in Planner, NEW plan, run' = [run EXCEPT ![r] = Continues(r, plan)]
    PROVE  /\ \A q \in Runner : q # r => run'[q] = run[q]
           /\ run'[r].at = "list" /\ run'[r].then = "renew" /\ run'[r].goal = "branch"
           /\ run'[r].plan = plan
BY Nulls DEF Continues, TypeOK, Runs

LEMMA WasStopped ==
    ASSUME TypeOK, NEW r \in Runner, run' = [run EXCEPT ![r] = Stopped(r)]
    PROVE  /\ \A q \in Runner : q # r => run'[q] = run[q]
           /\ run'[r].at \in {"idle", "gone"} /\ run'[r].then = "none"
           /\ r \in Planner => run'[r].at = "gone"
           /\ run'[r].goal = "none" /\ run'[r].plan = Nobody /\ run'[r].owner = Nobody
BY Nulls DEF Stopped, NoRun, TypeOK

LEMMA StepCases ==
    ASSUME [Next]_vars
    PROVE  \/ \E r \in Runner : Strolls(r) \/ Observe(r) \/ Put(r) \/ Record(r)
           \/ \E r \in Planner : \/ Claim(r) \/ Reserve(r) \/ Take(r) \/ EnsureBranch(r)
                                \/ Handoff(r) \/ GivesUp(r) \/ \E p \in Pull : CreatePull(r, p)
           \/ Cycle \/ Rows \/ \E p \in Pull : Recover(p)
           \/ Waits \/ Fail \/ Lapse \/ Push
           \/ \E revision \in Revisions : Edit(revision)
           \/ \E say \in {"silent", "cite", "close"} : Others(say)
           \/ \E p \in Pull : Close(p) \/ \E route \in {"taken", "held"} : Relabel(p, route)
           \/ UNCHANGED vars
<1>1. ASSUME NEW r \in Planner PROVE Walks(r) => Strolls(r)
  BY Nulls DEF Strolls
<1>2. ListIssues(Service) \/ Look(Service) \/ Verify(Service) \/ Projected(Service)
         => Strolls(Service)
  BY DEF Strolls, Walks
<1> QED BY <1>1, <1>2, Nulls DEF Next, Works, Serves, Published, Verifies, Walks

\* Pull requests do not go away.
LEMMA Appearing ==
    ASSUME TypeOK, [Next]_vars
    PROVE  /\ Created \subseteq Created'
           /\ Created' = Created \/ \E r \in Planner, p \in Pull : CreatePull(r, p)
<1>0. pull \in [Pull -> Pulls]
  BY DEF TypeOK
<1>1. CASE pull' = pull
  BY <1>1 DEF Created
<1>2. ASSUME NEW r \in Runner, Handoff(r) \/ Put(r) PROVE Created' = Created
  BY <1>0, <1>2 DEF Handoff, Put, Created, Pulls
<1>3. ASSUME NEW r \in Planner, NEW p \in Pull, CreatePull(r, p) PROVE Created \subseteq Created'
  BY <1>0, <1>3 DEF CreatePull, Created, Pulls
<1>4. ASSUME NEW p \in Pull, Close(p) \/ \E route \in {"taken", "held"} : Relabel(p, route)
      PROVE  Created' = Created
  BY <1>0, <1>4 DEF Close, Relabel, Created, Pulls
<1>5. ASSUME NEW r \in Runner, Strolls(r) \/ Observe(r) \/ Record(r) PROVE pull' = pull
  BY <1>5 DEF Strolls, Walks, ListIssues, Begin, Plan, Renew, Resume, History, FindPull, CheckPull,
              Confirm, Look, Verify, Projected, Observe, Record, github
<1>6. ASSUME NEW r \in Planner,
             Claim(r) \/ Reserve(r) \/ Take(r) \/ EnsureBranch(r) \/ GivesUp(r)
      PROVE  pull' = pull
  BY <1>6 DEF Claim, Reserve, Take, EnsureBranch, GivesUp, github
<1>7. \/ Cycle \/ Rows \/ (\E p \in Pull : Recover(p)) \/ Waits \/ Fail \/ Lapse \/ Push
      \/ (\E revision \in Revisions : Edit(revision))
      \/ (\E say \in {"silent", "cite", "close"} : Others(say)) \/ UNCHANGED vars
      => pull' = pull
  BY DEF Cycle, Rows, Recover, Waits, Fail, Lapse, Push, Edit, Others, github, vars
<1> QED BY <1>1, <1>2, <1>3, <1>4, <1>5, <1>6, <1>7, StepCases, Nulls

-----------------------------------------------------------------------------
(* The plan, its branch and its pull request.                              *)

LEMMA NextPublication ==
    ASSUME TypeOK, Publication, [Next]_vars,
           \A r \in Runner : Planned(r), \A r \in Runner : Dealt(r)
    PROVE  Publication'
<1> USE Nulls
<1>0. branch \in Branches /\ pull \in [Pull -> Pulls] /\ pub \in Pubs
  BY DEF TypeOK
<1>1. ASSUME NEW r \in Runner, Strolls(r) \/ Observe(r) PROVE UNCHANGED <<pub, branch>>
  BY <1>1 DEF Strolls, Walks, ListIssues, Begin, Plan, Renew, Resume, History, FindPull, CheckPull,
              Confirm, Look, Verify, Projected, Observe, github, store
<1>2. ASSUME NEW r \in Planner, Claim(r) \/ Handoff(r) \/ GivesUp(r)
      PROVE  UNCHANGED <<pub, branch>>
  BY <1>2 DEF Claim, Handoff, GivesUp, github, store
<1>3. ASSUME NEW r \in Runner, Put(r) PROVE UNCHANGED <<pub, branch>>
  BY <1>3 DEF Put, store
<1>4. \/ Cycle \/ Rows \/ (\E p \in Pull : Recover(p)) \/ Waits \/ Fail \/ Lapse
      \/ (\E revision \in Revisions : Edit(revision))
      \/ (\E say \in {"silent", "cite", "close"} : Others(say))
      \/ (\E p \in Pull : Close(p) \/ \E route \in {"taken", "held"} : Relabel(p, route))
      \/ UNCHANGED vars
      => UNCHANGED <<pub, branch>>
  BY DEF Cycle, Rows, Recover, Waits, Fail, Lapse, Edit, Others, Close, Relabel, github, store, vars
<1>5. ASSUME NEW r \in Planner, NEW p \in Pull, CreatePull(r, p) PROVE Publication'
  <2>1. branch.plan # Nobody /\ UNCHANGED <<pub, branch>>
    BY <1>5 DEF CreatePull, At, Planned, store
  <2> QED BY <2>1 DEF Publication
<1>6. ASSUME Created' = Created, UNCHANGED <<pub, branch>> PROVE Publication'
  BY <1>6 DEF Publication
<1>7. ASSUME UNCHANGED <<pub, branch>> PROVE Publication'
  BY <1>5, <1>6, <1>7, Appearing
<1>8. ASSUME Created' = Created, pub'.plan = pub.plan, branch' = branch,
             pub'.status = "none" <=> pub.status = "none"
      PROVE  Publication'
  BY <1>8 DEF Publication
<1>9. ASSUME NEW r \in Planner, Reserve(r) PROVE Publication'
  <2>1. pub'.status = "prepared" /\ pub'.plan = r
    BY <1>9 DEF Reserve, NoPub
  <2>2. branch' = branch /\ pull' = pull /\ pub.status = "none"
    BY <1>9 DEF Reserve, github
  <2> QED BY <2>1, <2>2 DEF Publication, Created
<1>10. ASSUME NEW r \in Planner, Take(r) PROVE Publication'
  BY <1>0, <1>8, <1>10 DEF Take, github, Pubs, Created
<1>11. ASSUME NEW r \in Runner, Record(r) PROVE Publication'
  <2>1. run[r].pull \in Created
    BY <1>11 DEF Record, At, Dealt, Dealing, Verifying
  <2>2. pub.status # "none"
    BY <2>1 DEF Publication
  <2>3. branch' = branch /\ pull' = pull /\ pub'.plan = pub.plan /\ pub'.status = "applied"
    BY <1>0, <1>11 DEF Record, github, Pubs
  <2> QED BY <1>8, <2>2, <2>3 DEF Created
<1>12. ASSUME NEW r \in Planner, EnsureBranch(r) PROVE Publication'
  <2>1. run[r].plan = pub.plan /\ run[r].plan # Nobody
    BY <1>12 DEF EnsureBranch, At, Planned
  <2>2. branch'.plan = run[r].plan /\ pull' = pull /\ pub' = pub
    BY <1>12 DEF EnsureBranch, store
  <2> QED BY <2>1, <2>2 DEF Publication, Created
<1>13. CASE Push
  <2>1. branch'.plan = branch.plan /\ pull' = pull /\ pub' = pub
    BY <1>0, <1>13 DEF Push, Branches, store
  <2> QED BY <2>1 DEF Publication, Created
<1> QED BY <1>1, <1>2, <1>3, <1>4, <1>5, <1>7, <1>9, <1>10, <1>11, <1>12, <1>13, StepCases

LEMMA NextPlanned ==
    ASSUME TypeOK, Publication, [Next]_vars, \A r \in Runner : Sched(r),
           \A r \in Runner : Planned(r), \A r \in Runner : Dealt(r), NEW q \in Runner
    PROVE  Planned(q)'
<1> USE Nulls
<1>0. /\ branch \in Branches /\ pub \in Pubs /\ run \in [Runner -> Runs] /\ run[q] \in Runs
      /\ Planned(q)
  BY DEF TypeOK
<1>a. ASSUME UNCHANGED <<pub, branch>>, run'[q] = run[q] PROVE Planned(q)'
  BY <1>0, <1>a DEF Planned
<1>b. ASSUME UNCHANGED <<pub, branch>>, run'[q].plan = run[q].plan,
             run'[q].goal = run[q].goal \/ run'[q].goal \notin {"branch", "pull"},
             run'[q].at \notin {"branch", "pull", "create"}
      PROVE  Planned(q)'
  BY <1>0, <1>b DEF Planned
<1>1. ASSUME NEW r \in Runner, Strolls(r) PROVE Planned(q)'
  <2>1. UNCHANGED <<pub, branch>>
    BY <1>1 DEF Strolls, Walks, ListIssues, Begin, Plan, Renew, Resume, History, FindPull,
                CheckPull, Confirm, Look, Verify, Projected, github, store
  <2>2. Walked(r)
    BY <1>1, WalkedByAll
  <2>3. CASE r = q
    BY <1>0, <2>1, <2>2, <2>3 DEF Walked, Planned
  <2> QED BY <1>a, <2>1, <2>2, <2>3 DEF Walked
<1>2. ASSUME NEW r \in Runner, Observe(r) PROVE Planned(q)'
  BY <1>a, <1>b, <1>2, ObservedRun DEF Observe, github
<1>3. ASSUME NEW r \in Runner, NEW step \in Step \ {"branch", "pull", "create"},
             Goes(r, step), UNCHANGED <<pub, branch>>
      PROVE  Planned(q)'
  BY <1>a, <1>b, <1>3, Went
<1>4. ASSUME NEW r \in Runner, Put(r) PROVE Planned(q)'
  BY <1>3, <1>4, StepNames DEF Put, store
<1>5. ASSUME NEW r \in Planner, Claim(r) \/ Handoff(r) PROVE Planned(q)'
  BY <1>3, <1>5, StepNames DEF Claim, Handoff, github, store
<1>6. ASSUME NEW r \in Runner, run' = [run EXCEPT ![r] = Stopped(r)],
             pub'.plan = pub.plan, branch' = branch
      PROVE  Planned(q)'
  <2>1. CASE r = q
    BY <1>6, <2>1, WasStopped DEF Planned
  <2>2. CASE r # q
    BY <1>0, <1>6, <2>2, WasStopped DEF Planned
  <2> QED BY <2>1, <2>2
<1>7. ASSUME NEW r \in Runner, Record(r) PROVE Planned(q)'
  BY <1>0, <1>6, <1>7 DEF Record, github, Pubs
<1>8. ASSUME NEW r \in Planner, GivesUp(r) PROVE Planned(q)'
  BY <1>6, <1>8 DEF GivesUp, github, store
<1>9. ASSUME NEW r \in Planner, Reserve(r) PROVE Planned(q)'
  <2>1. pub'.plan = r /\ branch' = branch /\ pub.plan = Nobody
    BY <1>9 DEF Reserve, NoPub, github, Publication
  <2>2. run' = [run EXCEPT ![r] = Continues(r, r)]
    BY <1>9 DEF Reserve
  <2>3. run[q].plan = Nobody /\ branch.plan = Nobody
    BY <1>0, <2>1 DEF Planned, Publication
  <2>4. /\ run'[r].at = "list" /\ run'[r].goal = "branch" /\ run'[r].plan = r
        /\ \A s \in Runner : s # r => run'[s] = run[s]
    BY <2>2, Continued
  <2>5. CASE r = q
    BY <2>1, <2>4, <2>5 DEF Planned
  <2>6. CASE r # q
    BY <1>0, <2>1, <2>3, <2>4, <2>6 DEF Planned
  <2> QED BY <2>5, <2>6
<1>10. ASSUME NEW r \in Planner, Take(r) PROVE Planned(q)'
  <2>1. pub'.plan = pub.plan /\ branch' = branch /\ pub.plan # Nobody
    BY <1>0, <1>10 DEF Take, github, Pubs, Publication
  <2>2. run' = [run EXCEPT ![r] = Continues(r, pub.plan)]
    BY <1>10 DEF Take
  <2>3. CASE r = q
    BY <2>1, <2>2, <2>3, Continued DEF Planned
  <2>4. CASE r # q
    BY <1>0, <2>1, <2>2, <2>4, Continued DEF Planned
  <2> QED BY <2>3, <2>4
<1>11. ASSUME NEW r \in Planner, EnsureBranch(r) PROVE Planned(q)'
  <2>1. run[r].plan = pub.plan /\ run[r].plan # Nobody
    BY <1>11 DEF EnsureBranch, At, Planned
  <2>2. branch'.plan = run[r].plan /\ pub' = pub
    BY <1>11 DEF EnsureBranch, store
  <2>3. /\ run' = [run EXCEPT ![r].at = "list", ![r].then = "renew", ![r].goal = "pull"]
    BY <1>11 DEF EnsureBranch, Scans
  <2>4. CASE r = q
    <3>1. run'[q].plan = run[q].plan
      BY <1>0, <2>3, <2>4 DEF Runs
    <3> QED BY <1>0, <2>1, <2>2, <2>4, <3>1 DEF Planned
  <2>5. CASE r # q
    BY <1>0, <2>1, <2>2, <2>3, <2>5 DEF Planned
  <2> QED BY <2>4, <2>5
<1>12. ASSUME NEW r \in Planner, NEW p \in Pull, CreatePull(r, p) PROVE Planned(q)'
  <2>1. run' = [run EXCEPT ![r].at = "check", ![r].pull = p] /\ UNCHANGED <<pub, branch>>
    BY <1>12 DEF CreatePull, store
  <2>2. CASE r = q
    <3>1. /\ run'[q].plan = run[q].plan /\ run'[q].goal = run[q].goal /\ run'[q].at = "check"
      BY <1>0, <2>1, <2>2 DEF Runs
    <3> QED BY <1>b, <2>1, <3>1
  <2>3. CASE r # q
    BY <1>0, <1>a, <2>1, <2>3
  <2> QED BY <2>2, <2>3
<1>13. CASE Cycle \/ Rows \/ \E p \in Pull : Recover(p)
  <2>1. run[Service] \in Runs /\ UNCHANGED <<pub, branch>>
    BY <1>13 DEF TypeOK, Cycle, Rows, Recover, github, store
  <2>2. CASE q # Service
    <3>1. run'[q] = run[q]
      BY <1>0, <1>13, <2>2 DEF Cycle, Rows, Recover, Scans
    <3> QED BY <1>a, <2>1, <3>1
  <2>3. CASE q = Service
    <3>1. CASE Cycle
      BY <1>0, <1>b, <2>1, <2>3, <3>1 DEF Cycle, Scans, Runs
    <3>2. CASE Rows
      BY <1>0, <1>b, <2>1, <2>3, <3>2 DEF Rows, Runs
    <3>3. ASSUME NEW p \in Pull, Recover(p) PROVE Planned(q)'
      BY <1>0, <1>b, <2>1, <2>3, <3>3 DEF Recover, Runs
    <3> QED BY <1>13, <3>1, <3>2, <3>3
  <2> QED BY <2>2, <2>3
<1>14. CASE Waits \/ Fail
  <2>1. UNCHANGED <<pub, branch>>
    BY <1>14 DEF Waits, Fail, github, store
  <2>2. \/ run' = [run EXCEPT ![Service] = NoRun]
        \/ run' = [run EXCEPT ![Service] = [NoRun EXCEPT !.at = "rows"]]
    BY <1>14 DEF Waits, Fail
  <2>3. CASE q # Service
    BY <1>0, <1>a, <2>1, <2>2, <2>3
  <2>4. CASE q = Service
    BY <1>0, <2>1, <2>2, <2>4 DEF NoRun, Planned
  <2> QED BY <2>3, <2>4
<1>15. CASE Push
  <2>1. branch'.plan = branch.plan /\ pub' = pub /\ run' = run
    BY <1>0, <1>15 DEF Push, Branches, store
  <2> QED BY <1>0, <2>1 DEF Planned
<1>16. \/ Lapse \/ (\E revision \in Revisions : Edit(revision))
       \/ (\E say \in {"silent", "cite", "close"} : Others(say))
       \/ (\E p \in Pull : Close(p) \/ \E route \in {"taken", "held"} : Relabel(p, route))
       \/ UNCHANGED vars
       => UNCHANGED <<pub, branch, run>>
  BY DEF Lapse, Edit, Others, Close, Relabel, github, store, vars
<1> QED BY <1>a, <1>1, <1>2, <1>4, <1>5, <1>7, <1>8, <1>9, <1>10, <1>11, <1>12, <1>13, <1>14,
           <1>15, <1>16, StepCases

LEMMA NextDealt ==
    ASSUME TypeOK, [Next]_vars, \A r \in Runner : Sched(r), \A r \in Runner : Dealt(r),
           NEW q \in Runner
    PROVE  Dealt(q)'
<1> USE Nulls
<1>0. /\ branch \in Branches /\ pull \in [Pull -> Pulls] /\ run \in [Runner -> Runs]
      /\ run[q] \in Runs /\ Dealt(q) /\ Created \subseteq Created'
  BY Appearing DEF TypeOK
\* Labels and commits as they were, or q is not about to write.
<1> DEFINE Calm == \/ run[q].at # "put"
                   \/ /\ ~branch'.grown
                      /\ \/ pull'[run[q].pull].route = pull[run[q].pull].route
                         \/ pull'[run[q].pull].route = "ready"
<1>a. ASSUME Calm, run'[q] = run[q] PROVE Dealt(q)'
  BY <1>0, <1>a DEF Dealt
<1>b. ASSUME run'[q].at \notin Dealing PROVE Dealt(q)'
  BY <1>b DEF Dealt, Dealing, Verifying
<1>c. ASSUME run'[q].at \in Dealing \ {"put"}, run'[q].pull = run[q].pull, run[q].at \in Dealing
      PROVE  Dealt(q)'
  BY <1>0, <1>c DEF Dealt, Dealing, Verifying
<1>d. UNCHANGED <<branch, pull>> => Calm
  BY <1>0 DEF Dealt
<1> HIDE DEF Calm
<1>1. ASSUME NEW r \in Runner, Strolls(r) PROVE Dealt(q)'
  <2>1. UNCHANGED <<branch, pull>>
    BY <1>1 DEF Strolls, Walks, ListIssues, Begin, Plan, Renew, Resume, History, FindPull,
                CheckPull, Confirm, Look, Verify, Projected, github
  <2>2. Walked(r)
    BY <1>1, WalkedByAll
  <2>3. CASE r = q
    BY <1>0, <2>1, <2>2, <2>3 DEF Walked, Dealt
  <2> QED BY <1>a, <1>d, <2>1, <2>2, <2>3 DEF Walked
<1>2. ASSUME NEW r \in Runner, Observe(r) PROVE Dealt(q)'
  <2>1. UNCHANGED <<branch, pull>>
    BY <1>2 DEF Observe, github
  <2>2. r = q => run'[q].at \notin Dealing
    BY <1>2, ObservedRun DEF Dealing, Verifying
  <2> QED BY <1>a, <1>b, <1>d, <1>2, <2>1, <2>2, ObservedRun
<1>3. ASSUME NEW r \in Planner, Claim(r) PROVE Dealt(q)'
  <2>1. UNCHANGED <<branch, pull>> /\ Goes(r, "plan")
    BY <1>3 DEF Claim, github
  <2>2. run'[r].at = "plan" /\ \A s \in Runner : s # r => run'[s] = run[s]
    BY <2>1, Went
  <2>3. r = q => run'[q].at \notin Dealing
    BY <2>2 DEF Dealing, Verifying
  <2> QED BY <1>a, <1>b, <1>d, <2>1, <2>2, <2>3
<1>4. ASSUME NEW r \in Planner, Reserve(r) \/ Take(r) PROVE Dealt(q)'
  <2>1. UNCHANGED <<branch, pull>> /\ \E plan : run' = [run EXCEPT ![r] = Continues(r, plan)]
    BY <1>4 DEF Reserve, Take, github
  <2>2. run'[r].at = "list" /\ \A s \in Runner : s # r => run'[s] = run[s]
    BY <2>1, Continued
  <2>3. r = q => run'[q].at \notin Dealing
    BY <2>2 DEF Dealing, Verifying
  <2> QED BY <1>a, <1>b, <1>d, <2>1, <2>2, <2>3
<1>5. ASSUME NEW r \in Planner, EnsureBranch(r) PROVE Dealt(q)'
  <2>1. run' = [run EXCEPT ![r].at = "list", ![r].then = "renew", ![r].goal = "pull"]
    BY <1>5 DEF EnsureBranch, Scans
  <2>2. Calm
    BY <1>5 DEF EnsureBranch, Calm
  <2>3. r = q => run'[q].at \notin Dealing
    BY <1>0, <2>1 DEF Dealing, Verifying
  <2> QED BY <1>0, <1>a, <1>b, <2>1, <2>2, <2>3
<1>6. ASSUME NEW r \in Planner, NEW p \in Pull, CreatePull(r, p) PROVE Dealt(q)'
  <2>1. /\ run' = [run EXCEPT ![r].at = "check", ![r].pull = p]
        /\ pull' = [pull EXCEPT ![p].state = "open"] /\ branch' = branch
    BY <1>6 DEF CreatePull
  <2>2. Calm
    <3>1. run[q].at = "put" => run[q].pull \in Pull
      BY <1>0 DEF Dealt, Dealing, Verifying, Created
    <3> QED BY <1>0, <2>1, <3>1 DEF Calm, Dealt, Pulls
  <2>3. CASE r = q
    <3>1. run'[q].at = "check" /\ run'[q].pull = p
      BY <1>0, <2>1, <2>3 DEF Runs
    <3>2. p \in Created'
      BY <1>0, <2>1 DEF Created
    <3> QED BY <3>1, <3>2 DEF Dealt
  <2> QED BY <1>0, <1>a, <2>1, <2>2, <2>3
<1>7. ASSUME NEW r \in Runner, Handoff(r) \/ Put(r) PROVE Dealt(q)'
  <2>1. PICK step \in {"confirm", "projected"} : Goes(r, step)
    BY <1>7 DEF Handoff, Put
  <2>2. run[r].at \in Dealing /\ branch' = branch
    BY <1>7 DEF Handoff, Put, At, Dealing, Verifying
  <2>3. Calm
    <3>1. run[q].at = "put" => run[q].pull \in Pull
      BY <1>0 DEF Dealt, Dealing, Verifying, Created
    <3>2. \/ pull' = [pull EXCEPT ![run[r].pull].handoff = TRUE]
          \/ pull' = [pull EXCEPT ![run[r].pull].route = "ready"]
      BY <1>7 DEF Handoff, Put
    <3> QED BY <1>0, <2>2, <3>1, <3>2 DEF Calm, Dealt, Pulls
  <2>4. CASE r = q
    <3>1. run'[q].at = step /\ run'[q].pull = run[q].pull
      BY <2>1, <2>4, Went
    <3> QED BY <1>c, <2>1, <2>2, <2>4, <3>1 DEF Dealing, Verifying
  <2> QED BY <1>a, <2>1, <2>3, <2>4, Went
<1>8. ASSUME NEW r \in Runner, run' = [run EXCEPT ![r] = Stopped(r)], UNCHANGED <<branch, pull>>
      PROVE  Dealt(q)'
  <2>1. r = q => run'[q].at \notin Dealing
    BY <1>8, WasStopped DEF Dealing, Verifying
  <2> QED BY <1>a, <1>b, <1>d, <1>8, <2>1, WasStopped
<1>9. ASSUME NEW r \in Runner, Record(r) \/ GivesUp(r) PROVE Dealt(q)'
  BY <1>8, <1>9 DEF Record, GivesUp, github
<1>10. CASE Cycle \/ Rows \/ \E p \in Pull : Recover(p)
  <2>1. run[Service] \in Runs /\ UNCHANGED <<branch, pull>>
    BY <1>10 DEF TypeOK, Cycle, Rows, Recover, github
  <2>2. CASE q # Service
    <3>1. run'[q] = run[q]
      BY <1>0, <1>10, <2>2 DEF Cycle, Rows, Recover, Scans
    <3> QED BY <1>a, <1>d, <2>1, <3>1
  <2>3. CASE q = Service
    <3>1. CASE Cycle \/ Rows
      <4>1. run'[q].at \in {"list", "recover"}
        <5>1. CASE Cycle
          BY <1>0, <2>1, <2>3, <5>1 DEF Cycle, Scans, Runs
        <5>2. CASE Rows
          BY <1>0, <2>1, <2>3, <5>2 DEF Rows, Runs
        <5> QED BY <3>1, <5>1, <5>2
      <4> QED BY <1>b, <4>1 DEF Dealing, Verifying
    <3>2. ASSUME NEW p \in Pull, Recover(p) PROVE Dealt(q)'
      <4>1. run'[q].at = "look" /\ run'[q].pull = p
        BY <1>0, <2>1, <2>3, <3>2 DEF Recover, Runs
      <4>2. p \in Created'
        BY <1>0, <3>2 DEF Recover, Orphaned, Opened, Created
      <4> QED BY <4>1, <4>2 DEF Dealt
    <3> QED BY <1>10, <3>1, <3>2
  <2> QED BY <2>2, <2>3
<1>11. CASE Waits \/ Fail
  <2>1. UNCHANGED <<branch, pull>>
    BY <1>11 DEF Waits, Fail, github
  <2>2. \/ run' = [run EXCEPT ![Service] = NoRun]
        \/ run' = [run EXCEPT ![Service] = [NoRun EXCEPT !.at = "rows"]]
    BY <1>11 DEF Waits, Fail
  <2>3. q # Service => run'[q] = run[q]
    BY <1>0, <2>2
  <2>4. q = Service => run'[q].at \notin Dealing
    BY <1>0, <2>2 DEF NoRun, Dealing, Verifying
  <2> QED BY <1>a, <1>b, <1>d, <2>1, <2>3, <2>4
<1>12. CASE Push \/ \E p \in Pull : \E route \in {"taken", "held"} : Relabel(p, route)
  <2>1. run[q].at # "put" /\ run' = run
    BY <1>12 DEF Push, Relabel, Unfenced, At
  <2> QED BY <1>a, <2>1 DEF Calm
<1>13. ASSUME NEW p \in Pull, Close(p) PROVE Dealt(q)'
  <2>1. /\ pull' = [pull EXCEPT ![p].state = "closed"] /\ branch' = branch /\ run' = run
    BY <1>13 DEF Close
  <2>2. run[q].at = "put" => run[q].pull \in Pull
    BY <1>0 DEF Dealt, Dealing, Verifying, Created
  <2>3. Calm
    BY <1>0, <2>1, <2>2 DEF Calm, Dealt, Pulls
  <2> QED BY <1>a, <2>1, <2>3
<1>14. \/ Lapse \/ (\E revision \in Revisions : Edit(revision))
       \/ (\E say \in {"silent", "cite", "close"} : Others(say)) \/ UNCHANGED vars
       => UNCHANGED <<branch, pull, run>>
  BY DEF Lapse, Edit, Others, github, vars
<1> QED BY <1>a, <1>d, <1>1, <1>2, <1>3, <1>4, <1>5, <1>6, <1>7, <1>9, <1>10, <1>11, <1>12, <1>13,
           <1>14, StepCases

-----------------------------------------------------------------------------
(* Whose publication it is.                                                *)

LEMMA NextStarting ==
    ASSUME TypeOK, [Next]_vars, \A r \in Runner : Sched(r), NEW q \in Planner, Starting(q)'
    PROVE  Starting(q)
<1> USE Nulls
<1>0. run \in [Runner -> Runs] /\ run[q] \in Runs
  BY DEF TypeOK
<1>a. ASSUME run'[q] = run[q] PROVE Starting(q)
  BY <1>a DEF Starting
<1>1. ASSUME NEW r \in Runner, Strolls(r) PROVE Starting(q)
  <2>1. Walked(r)
    BY <1>1, WalkedByAll
  <2> QED BY <1>a, <2>1 DEF Walked
<1>2. ASSUME NEW r \in Runner, Observe(r) PROVE Starting(q)
  BY <1>a, <1>2, ObservedRun DEF Starting
<1>3. ASSUME NEW r \in Runner, NEW step \in {"plan", "confirm", "projected"}, Goes(r, step)
      PROVE  Starting(q)
  BY <1>a, <1>3, Went, ZenonT(40) DEF Starting
<1>4. ASSUME NEW r \in Planner, NEW plan, run' = [run EXCEPT ![r] = Continues(r, plan)]
      PROVE  Starting(q)
  BY <1>a, <1>4, Continued DEF Starting
<1>5. ASSUME NEW r \in Runner, run' = [run EXCEPT ![r] = Stopped(r)] PROVE Starting(q)
  BY <1>a, <1>5, WasStopped DEF Starting
<1>6. ASSUME NEW r \in Planner, EnsureBranch(r) \/ \E p \in Pull : CreatePull(r, p)
      PROVE  Starting(q)
  <2>1. CASE r # q
    BY <1>0, <1>a, <1>6, <2>1 DEF EnsureBranch, CreatePull, Scans
  <2>2. CASE r = q
    <3>1. CASE EnsureBranch(q)
      BY <1>0, <3>1 DEF EnsureBranch, Scans, Starting, Runs
    <3>2. ASSUME NEW p \in Pull, CreatePull(q, p) PROVE Starting(q)
      BY <1>0, <3>2 DEF CreatePull, Starting, Runs
    <3> QED BY <1>6, <2>2, <3>1, <3>2
  <2> QED BY <2>1, <2>2
<1>7. CASE Cycle \/ Rows \/ (\E p \in Pull : Recover(p)) \/ Waits \/ Fail
  BY <1>0, <1>a, <1>7 DEF Cycle, Rows, Recover, Waits, Fail, Scans
<1>8. ASSUME NEW r \in Planner, Claim(r) \/ Handoff(r) \/ Reserve(r) \/ Take(r) \/ GivesUp(r)
      PROVE  Starting(q)
  BY <1>3, <1>4, <1>5, <1>8 DEF Claim, Handoff, Reserve, Take, GivesUp
<1>9. ASSUME NEW r \in Runner, Put(r) \/ Record(r) PROVE Starting(q)
  BY <1>3, <1>5, <1>9 DEF Put, Record
<1>10. \/ Lapse \/ Push \/ (\E revision \in Revisions : Edit(revision))
       \/ (\E say \in {"silent", "cite", "close"} : Others(say))
       \/ (\E p \in Pull : Close(p) \/ \E route \in {"taken", "held"} : Relabel(p, route))
       \/ UNCHANGED vars
       => run' = run
  BY DEF Lapse, Push, Edit, Others, Close, Relabel, vars
<1> QED BY <1>a, <1>1, <1>2, <1>6, <1>7, <1>8, <1>9, <1>10, StepCases

\* The publication passes to a planner that has started.
LEMMA PublicationOwner ==
    ASSUME TypeOK, [Next]_vars
    PROVE  pub'.owner = pub.owner \/ \E r \in Planner : pub'.owner = r /\ ~Starting(r)'
<1> USE Nulls
<1>0. pub \in Pubs
  BY DEF TypeOK
<1>1. ASSUME NEW r \in Planner, pub'.owner = r,
             \E plan : run' = [run EXCEPT ![r] = Continues(r, plan)]
      PROVE  pub'.owner = r /\ ~Starting(r)'
  <2>1. run'[r].at = "list" /\ run'[r].then = "renew"
    BY <1>1, Continued
  <2> QED BY <1>1, <2>1 DEF Starting
<1>2. ASSUME NEW r \in Planner, Reserve(r) \/ Take(r) PROVE pub'.owner = r /\ ~Starting(r)'
  <2>1. pub'.owner = r
    BY <1>0, <1>2 DEF Reserve, Take, NoPub, Pubs
  <2> QED BY <1>1, <1>2, <2>1 DEF Reserve, Take
<1>3. ASSUME NEW r \in Runner, Record(r) PROVE pub'.owner = pub.owner
  BY <1>0, <1>3 DEF Record, Pubs
<1>4. ASSUME NEW r \in Runner, Strolls(r) \/ Observe(r) \/ Put(r) PROVE pub' = pub
  BY <1>4 DEF Strolls, Walks, ListIssues, Begin, Plan, Renew, Resume, History, FindPull, CheckPull,
              Confirm, Look, Verify, Projected, Observe, Put, store
<1>5. ASSUME NEW r \in Planner,
             \/ Claim(r) \/ EnsureBranch(r) \/ Handoff(r) \/ GivesUp(r)
             \/ \E p \in Pull : CreatePull(r, p)
      PROVE  pub' = pub
  BY <1>5 DEF Claim, EnsureBranch, Handoff, GivesUp, CreatePull, store
<1>6. \/ Cycle \/ Rows \/ (\E p \in Pull : Recover(p)) \/ Waits \/ Fail \/ Lapse \/ Push
      \/ (\E revision \in Revisions : Edit(revision))
      \/ (\E say \in {"silent", "cite", "close"} : Others(say))
      \/ (\E p \in Pull : Close(p) \/ \E route \in {"taken", "held"} : Relabel(p, route))
      \/ UNCHANGED vars
      => pub' = pub
  BY DEF Cycle, Rows, Recover, Waits, Fail, Lapse, Push, Edit, Others, Close, Relabel, store, vars
<1> QED BY <1>2, <1>3, <1>4, <1>5, <1>6, StepCases

\* Only a planner that has not started takes the issue on lease.
LEMMA LeaseTaken ==
    ASSUME TypeOK, [Next]_vars, Live'
    PROVE  \/ Live /\ intake'.lease = intake.lease
           \/ \E r \in Planner : Starting(r) /\ intake'.lease = r
<1> USE Nulls
<1>0. intake \in Intakes
  BY DEF TypeOK
<1>1. ASSUME NEW r \in Planner, Claim(r) \/ Take(r) PROVE Starting(r) /\ intake'.lease = r
  BY <1>1, GrantType DEF Claim, Take, At, Starting
<1>2. ASSUME NEW r \in Runner, Observe(r) PROVE intake' = intake
  <2> DEFINE status == Observed(run[r].saw, Disposition(run[r].saw))
  <2>1. \/ intake' = intake
        \/ intake' = [intake EXCEPT !.status = "closed", !.lease = Nobody, !.live = FALSE]
        \/ intake' = Resets(run[r].saw, status)
    BY <1>2 DEF Observe
  <2>2. ~Resets(run[r].saw, status).live
    BY DEF Resets
  <2> HIDE DEF status
  <2> QED BY <1>0, <2>1, <2>2 DEF Live, Intakes
<1>3. ASSUME NEW r \in Runner PROVE ~Record(r)
  BY <1>0 DEF Record, Live, Intakes
<1>4. ~Lapse
  BY <1>0 DEF Lapse, Live, Intakes
<1>5. ASSUME NEW r \in Runner, Strolls(r) \/ Put(r) PROVE intake' = intake
  BY <1>5 DEF Strolls, Walks, ListIssues, Begin, Plan, Renew, Resume, History, FindPull, CheckPull,
              Confirm, Look, Verify, Projected, Put, store
<1>6. ASSUME NEW r \in Planner,
             \/ Reserve(r) \/ EnsureBranch(r) \/ Handoff(r) \/ GivesUp(r)
             \/ \E p \in Pull : CreatePull(r, p)
      PROVE  intake' = intake
  BY <1>6 DEF Reserve, EnsureBranch, Handoff, GivesUp, CreatePull, store
<1>7. \/ Cycle \/ Rows \/ (\E p \in Pull : Recover(p)) \/ Waits \/ Fail \/ Push
      \/ (\E revision \in Revisions : Edit(revision))
      \/ (\E say \in {"silent", "cite", "close"} : Others(say))
      \/ (\E p \in Pull : Close(p) \/ \E route \in {"taken", "held"} : Relabel(p, route))
      \/ UNCHANGED vars
      => intake' = intake
  BY DEF Cycle, Rows, Recover, Waits, Fail, Push, Edit, Others, Close, Relabel, store, vars
<1>8. intake' = intake => Live /\ intake'.lease = intake.lease
  BY DEF Live
<1> QED BY <1>1, <1>2, <1>3, <1>4, <1>5, <1>6, <1>7, <1>8, StepCases

\* The recovery begins to confirm only what nobody has on lease.
LEMMA ServiceSteps ==
    ASSUME TypeOK, [Next]_vars, \A r \in Runner : Sched(r)
    PROVE  /\ run'[Service].owner \in {run[Service].owner, Nobody, pub.owner}
           /\ run'[Service].at \in Verifying =>
                 /\ run'[Service].owner = run[Service].owner
                 /\ run[Service].at \in Verifying \/ (~Live /\ UNCHANGED intake)
<1> USE Nulls
<1> DEFINE Goal == /\ run'[Service].owner \in {run[Service].owner, Nobody, pub.owner}
                   /\ run'[Service].at \in Verifying =>
                         /\ run'[Service].owner = run[Service].owner
                         /\ run[Service].at \in Verifying \/ (~Live /\ UNCHANGED intake)
<1> SUFFICES Goal
  OBVIOUS
<1>0. run \in [Runner -> Runs] /\ run[Service] \in Runs
  BY DEF TypeOK
<1>a. run'[Service] = run[Service] => Goal
  OBVIOUS
<1>b. /\ run'[Service].at \notin Verifying
      /\ run'[Service].owner \in {run[Service].owner, Nobody, pub.owner}
      => Goal
  OBVIOUS
<1> HIDE DEF Goal
<1>1. ASSUME NEW r \in Runner, Strolls(r) PROVE Goal
  <2>1. Walked(r)
    BY <1>1, WalkedByAll
  <2>2. CASE r = Service
    BY <2>1, <2>2 DEF Walked, Goal
  <2> QED BY <1>a, <2>1, <2>2 DEF Walked
<1>2. ASSUME NEW r \in Runner, Observe(r) PROVE Goal
  <2>1. r = Service => run'[r].at = "rows" /\ run'[r].owner = run[r].owner
    BY <1>2, ObservedRun
  <2>2. r # Service => run'[Service] = run[Service]
    BY <1>2, ObservedRun
  <2> QED BY <1>a, <1>b, <2>1, <2>2 DEF Verifying
<1>3. ASSUME NEW r \in Runner, Put(r) PROVE Goal
  <2>1. Goes(r, "projected") /\ run[r].at = "put"
    BY <1>3 DEF Put, At
  <2>2. CASE r = Service
    <3>1. run'[Service].owner = run[Service].owner
      BY <2>1, <2>2, Went
    <3>2. run[Service].at \in Verifying
      BY <2>1, <2>2 DEF Verifying
    <3> QED BY <3>1, <3>2 DEF Goal
  <2> QED BY <1>a, <2>1, <2>2, Went
<1>4. ASSUME NEW r \in Runner, Record(r) PROVE Goal
  <2>1. run' = [run EXCEPT ![r] = Stopped(r)]
    BY <1>4 DEF Record
  <2>2. CASE r = Service
    <3>1. run'[Service].at \in {"idle", "gone"} /\ run'[Service].owner = Nobody
      BY <2>1, <2>2, WasStopped
    <3> QED BY <1>b, <3>1 DEF Verifying
  <2> QED BY <1>0, <1>a, <2>1, <2>2
<1>5. ASSUME NEW r \in Planner,
             \/ Claim(r) \/ Reserve(r) \/ Take(r) \/ EnsureBranch(r) \/ Handoff(r) \/ GivesUp(r)
             \/ \E p \in Pull : CreatePull(r, p)
      PROVE  Goal
  BY <1>0, <1>a, <1>5
     DEF Claim, Reserve, Take, EnsureBranch, Handoff, GivesUp, CreatePull, Goes, Scans
<1>6. CASE Cycle
  <2>1. run'[Service].at = "list" /\ run'[Service].owner = run[Service].owner
    BY <1>0, <1>6 DEF Cycle, Scans, Runs
  <2> QED BY <1>b, <2>1 DEF Verifying
<1>7. CASE Rows
  <2>1. run'[Service].at = "recover" /\ run'[Service].owner = pub.owner
    BY <1>0, <1>7 DEF Rows, Runs
  <2> QED BY <1>b, <2>1 DEF Verifying
<1>8. ASSUME NEW p \in Pull, Recover(p) PROVE Goal
  <2>1. run'[Service].owner = run[Service].owner
    BY <1>0, <1>8 DEF Recover, Runs
  <2>2. ~Live /\ UNCHANGED intake
    BY <1>8 DEF Recover, Orphaned, store
  <2> QED BY <2>1, <2>2 DEF Goal
<1>9. CASE Waits \/ Fail
  <2>1. run'[Service].at \in {"idle", "rows"} /\ run'[Service].owner = Nobody
    BY <1>0, <1>9 DEF Waits, Fail, NoRun
  <2> QED BY <1>b, <2>1 DEF Verifying
<1>10. \/ Lapse \/ Push \/ (\E revision \in Revisions : Edit(revision))
       \/ (\E say \in {"silent", "cite", "close"} : Others(say))
       \/ (\E p \in Pull : Close(p) \/ \E route \in {"taken", "held"} : Relabel(p, route))
       \/ UNCHANGED vars
       => Goal
  BY <1>a DEF Lapse, Push, Edit, Others, Close, Relabel, vars
<1> QED BY <1>1, <1>2, <1>3, <1>4, <1>5, <1>6, <1>7, <1>8, <1>9, <1>10, StepCases

LEMMA NextPlannerOwner ==
    ASSUME TypeOK, [Next]_vars, Owners, \A r \in Runner : Sched(r),
           NEW q \in Planner, run'[q].at \in Verifying
    PROVE  run'[q].owner = q
<1> USE Nulls
<1>0. run \in [Runner -> Runs] /\ run[q] \in Runs
  BY DEF TypeOK
<1>a. ASSUME run'[q].owner = run[q].owner, run[q].at \in Verifying PROVE run'[q].owner = q
  BY <1>a DEF Owners
<1>b. run'[q] = run[q] => run'[q].owner = q
  BY <1>a
<1>1. ASSUME NEW r \in Runner, Strolls(r) PROVE run'[q].owner = q
  <2>1. Walked(r)
    BY <1>1, WalkedByAll
  <2>2. CASE r = q
    BY <1>a, <2>1, <2>2 DEF Walked
  <2> QED BY <1>b, <2>1, <2>2 DEF Walked
<1>2. ASSUME NEW r \in Runner, Observe(r) PROVE run'[q].owner = q
  <2>1. r = q => run'[q].at \notin Verifying
    BY <1>2, ObservedRun DEF Verifying
  <2>2. r # q => run'[q] = run[q]
    BY <1>2, ObservedRun
  <2> QED BY <1>b, <2>1, <2>2
<1>3. ASSUME NEW r \in Runner, Put(r) PROVE run'[q].owner = q
  <2>1. Goes(r, "projected") /\ run[r].at = "put"
    BY <1>3 DEF Put, At
  <2>2. run'[r].owner = run[r].owner /\ \A s \in Runner : s # r => run'[s] = run[s]
    BY <2>1, Went
  <2>3. run[r].at \in Verifying
    BY <2>1 DEF Verifying
  <2> QED BY <1>a, <1>b, <2>2, <2>3
<1>4. ASSUME NEW r \in Runner, run' = [run EXCEPT ![r] = Stopped(r)] PROVE run'[q].owner = q
  <2>1. r = q => run'[q].at \notin Verifying
    BY <1>4, WasStopped DEF Verifying
  <2> QED BY <1>0, <1>b, <1>4, <2>1
<1>5. ASSUME NEW r \in Planner, NEW step \in {"plan", "confirm"}, Goes(r, step)
      PROVE  run'[q].owner = q
  <2>1. run'[r].at = step /\ \A s \in Runner : s # r => run'[s] = run[s]
    BY <1>5, Went
  <2> QED BY <1>b, <2>1 DEF Verifying
<1>6. ASSUME NEW r \in Planner, NEW plan, run' = [run EXCEPT ![r] = Continues(r, plan)]
      PROVE  run'[q].owner = q
  <2>1. run'[r].at = "list" /\ \A s \in Runner : s # r => run'[s] = run[s]
    BY <1>6, Continued
  <2> QED BY <1>b, <2>1 DEF Verifying
<1>7. ASSUME NEW r \in Planner, EnsureBranch(r) \/ \E p \in Pull : CreatePull(r, p)
      PROVE  run'[q].owner = q
  <2>1. r # q => run'[q] = run[q]
    BY <1>0, <1>7 DEF EnsureBranch, CreatePull, Scans
  <2>2. CASE r = q
    <3>1. CASE EnsureBranch(q)
      BY <1>0, <3>1 DEF EnsureBranch, Scans, Verifying, Runs
    <3>2. ASSUME NEW p \in Pull, CreatePull(q, p) PROVE run'[q].owner = q
      BY <1>0, <3>2 DEF CreatePull, Verifying, Runs
    <3> QED BY <1>7, <2>2, <3>1, <3>2
  <2> QED BY <1>b, <2>1, <2>2
<1>8. ASSUME NEW r \in Planner, Claim(r) \/ Reserve(r) \/ Take(r) \/ Handoff(r) \/ GivesUp(r)
      PROVE  run'[q].owner = q
  BY <1>4, <1>5, <1>6, <1>8 DEF Claim, Reserve, Take, Handoff, GivesUp
<1>9. \/ Cycle \/ Rows \/ (\E p \in Pull : Recover(p)) \/ Waits \/ Fail
      => run'[q] = run[q]
  BY <1>0 DEF Cycle, Rows, Recover, Waits, Fail, Scans
<1>10. \/ Lapse \/ Push \/ (\E revision \in Revisions : Edit(revision))
       \/ (\E say \in {"silent", "cite", "close"} : Others(say))
       \/ (\E p \in Pull : Close(p) \/ \E route \in {"taken", "held"} : Relabel(p, route))
       \/ UNCHANGED vars
       => run' = run
  BY DEF Lapse, Push, Edit, Others, Close, Relabel, vars
<1>11. ASSUME NEW r \in Runner, Record(r) PROVE run'[q].owner = q
  BY <1>4, <1>11 DEF Record
<1> QED BY <1>b, <1>1, <1>2, <1>3, <1>7, <1>8, <1>9, <1>10, <1>11, StepCases

LEMMA NextOwners ==
    ASSUME TypeOK, [Next]_vars, Owners, \A r \in Runner : Sched(r) PROVE Owners'
<1> USE Nulls
<1>1. ASSUME NEW q \in Planner, Starting(q)' PROVE q # pub'.owner /\ q # run'[Service].owner
  <2>1. Starting(q)
    BY <1>1, NextStarting
  <2>2. q # pub.owner /\ q # run[Service].owner
    BY <2>1 DEF Owners
  <2>3. q # pub'.owner
    BY <1>1, <2>2, PublicationOwner
  <2>4. q # run'[Service].owner
    BY <2>2, ServiceSteps
  <2> QED BY <2>3, <2>4
<1>2. ASSUME run'[Service].at \in Verifying, Live' PROVE intake'.lease # run'[Service].owner
  <2>1. run'[Service].owner = run[Service].owner
    BY <1>2, ServiceSteps
  <2>2. ASSUME NEW r \in Planner, Starting(r), intake'.lease = r
        PROVE  intake'.lease # run[Service].owner
    BY <2>2 DEF Owners
  <2>3. CASE Live /\ intake'.lease = intake.lease
    <3>1. run[Service].at \in Verifying
      BY <1>2, <2>3, ServiceSteps
    <3> QED BY <2>1, <2>3, <3>1 DEF Owners
  <2> QED BY <1>2, <2>1, <2>2, <2>3, LeaseTaken
<1> QED BY <1>1, <1>2, NextPlannerOwner DEF Owners

-----------------------------------------------------------------------------
(* The theorems.                                                           *)

LEMMA InitInv == Init => IInv
<1> SUFFICES ASSUME Init PROVE IInv
  OBVIOUS
<1>1. TypeOK
  BY InitType
<1>2. Created = {} /\ ~intake.linked /\ intake.status = "unseen"
  BY DEF Init, Created
<1>3. /\ branch.plan = Nobody /\ pub.status = "none" /\ pub.plan = Nobody /\ pub.owner = Nobody
  BY DEF Init, NoBranch, NoPub
<1>4. \A r \in Runner : /\ run[r].at = "idle" /\ run[r].then = "none" /\ run[r].goal = "none"
                        /\ run[r].owner = Nobody /\ run[r].plan = Nobody
  BY DEF Init, NoRun
<1>5. NeverReplanned /\ Publication
  BY <1>2, <1>3 DEF NeverReplanned, Publication
<1>6. Owners
  BY <1>3, <1>4, Nulls DEF Owners, Verifying
<1>7. \A r \in Runner : Sched(r) /\ Planned(r) /\ Dealt(r)
  BY <1>4 DEF Sched, Planned, Dealt, Dealing, Verifying
<1> QED BY <1>1, <1>5, <1>6, <1>7 DEF IInv

LEMMA NextInv == IInv /\ [Next]_vars => IInv'
<1> SUFFICES ASSUME IInv, [Next]_vars PROVE IInv'
  OBVIOUS
<1>0. /\ TypeOK /\ NeverReplanned /\ Publication /\ Owners
      /\ \A r \in Runner : Sched(r)
      /\ \A r \in Runner : Planned(r)
      /\ \A r \in Runner : Dealt(r)
  BY DEF IInv
<1>1. TypeOK'
  BY <1>0, NextType
<1>2. NeverReplanned'
  BY <1>0, NextNeverReplanned
<1>3. Publication'
  BY <1>0, NextPublication
<1>4. Owners'
  BY <1>0, NextOwners
<1>5. ASSUME NEW q \in Runner PROVE Sched(q)'
  BY <1>0, NextSched
<1>6. ASSUME NEW q \in Runner PROVE Planned(q)'
  BY <1>0, NextPlanned
<1>7. ASSUME NEW q \in Runner PROVE Dealt(q)'
  BY <1>0, NextDealt
<1> QED BY <1>1, <1>2, <1>3, <1>4, <1>5, <1>6, <1>7 DEF IInv

LEMMA Inductive == Spec => []IInv
BY InitInv, NextInv, PTL DEF Spec

\* The variables have their types; in particular the issue is leased exactly
\* when a planner has the lease, and a publication is applied exactly when it
\* has its pull request (state_store.py, planning_publication.py).
THEOREM TypeCorrect == Spec => []TypeOK
<1>1. IInv => TypeOK
  BY DEF IInv
<1> QED BY <1>1, Inductive, PTL

\* An issue that was ever observed with a pull request of its own is never
\* offered to a planner again, whatever scans come late (observe_issue).
THEOREM NeverPlannedAgain == Spec => []NeverReplanned
<1>1. IInv => NeverReplanned
  BY DEF IInv
<1> QED BY <1>1, Inductive, PTL

\* While a planner has the issue on lease, nobody but that planner completes
\* the publication: neither the recovery nor a planner whose work was taken
\* over (confirm_publication).
THEOREM CompletedByItsOwner == Spec => CompletedByOwner
<1>1. ASSUME IInv, [Next]_vars
      PROVE  pub.status = "prepared" /\ pub'.status = "applied" /\ Live
                => At(intake.lease, "record") /\ run'[intake.lease].at = "gone"
  <2> SUFFICES ASSUME pub.status = "prepared", pub'.status = "applied", Live
               PROVE  At(intake.lease, "record") /\ run'[intake.lease].at = "gone"
    OBVIOUS
  <2>0. TypeOK /\ Owners /\ pub \in Pubs
    BY <1>1 DEF IInv, TypeOK
  <2>1. PICK r \in Runner : Record(r)
    <3>1. ASSUME NEW r \in Runner, Strolls(r) \/ Observe(r) \/ Put(r) PROVE FALSE
      BY <3>1 DEF Strolls, Walks, ListIssues, Begin, Plan, Renew, Resume, History, FindPull,
                  CheckPull, Confirm, Look, Verify, Projected, Observe, Put, store
    <3>2. ASSUME NEW r \in Planner,
                 \/ Claim(r) \/ EnsureBranch(r) \/ Handoff(r) \/ GivesUp(r)
                 \/ \E p \in Pull : CreatePull(r, p)
          PROVE  FALSE
      BY <3>2 DEF Claim, EnsureBranch, Handoff, GivesUp, CreatePull, store
    <3>3. ASSUME NEW r \in Planner, Reserve(r) \/ Take(r) PROVE FALSE
      BY <2>0, <3>3 DEF Reserve, Take, Pubs
    <3>4. \/ Cycle \/ Rows \/ (\E p \in Pull : Recover(p)) \/ Waits \/ Fail \/ Lapse \/ Push
          \/ (\E revision \in Revisions : Edit(revision))
          \/ (\E say \in {"silent", "cite", "close"} : Others(say))
          \/ (\E p \in Pull : Close(p) \/ \E route \in {"taken", "held"} : Relabel(p, route))
          \/ UNCHANGED vars
          => FALSE
      BY DEF Cycle, Rows, Recover, Waits, Fail, Lapse, Push, Edit, Others, Close, Relabel, store,
             vars
    <3> QED BY <1>1, <3>1, <3>2, <3>3, <3>4, StepCases
  <2>2. At(r, "record") /\ intake.lease = run[r].owner /\ run[r].at \in Verifying
    BY <2>1 DEF Record, Recordable, Holds, Live, At, Verifying
  <2>3. r # Service
    BY <2>0, <2>2 DEF Owners
  <2>4. r \in Planner /\ intake.lease = r
    BY <2>0, <2>2, <2>3 DEF Owners, Runner
  <2>5. run' = [run EXCEPT ![r] = Stopped(r)]
    BY <2>1 DEF Record
  <2>6. run'[r].at = "gone"
    BY <2>0, <2>4, <2>5, WasStopped
  <2> QED BY <2>2, <2>4, <2>6
<1> QED BY <1>1, Inductive, PTL DEF CompletedByOwner, Spec

\* Only what was reserved is made ready for the prototype: the pull request is
\* at the reserved commit and carried no state label before, whoever
\* confirmed it (verify_publication, put_labels).
THEOREM ReadyAsReserved == Spec => ReadyIsReserved
<1>1. ASSUME IInv, [Next]_vars, NEW p \in Pull, pull'[p].route = "ready", pull[p].route # "ready"
      PROVE  pull[p].route = "none" /\ branch = [plan |-> pub.plan, grown |-> FALSE]
  <2>0. /\ pull \in [Pull -> Pulls] /\ branch \in Branches /\ Publication
        /\ \A r \in Runner : Dealt(r)
    BY <1>1 DEF IInv, TypeOK
  <2>1. PICK r \in Runner : Put(r)
    <3>1. ASSUME NEW r \in Runner, Strolls(r) \/ Observe(r) \/ Record(r) PROVE FALSE
      BY <1>1, <3>1
         DEF Strolls, Walks, ListIssues, Begin, Plan, Renew, Resume, History, FindPull, CheckPull,
             Confirm, Look, Verify, Projected, Observe, Record, github
    <3>2. ASSUME NEW r \in Planner,
                 Claim(r) \/ Reserve(r) \/ Take(r) \/ EnsureBranch(r) \/ GivesUp(r)
          PROVE  FALSE
      BY <1>1, <3>2 DEF Claim, Reserve, Take, EnsureBranch, GivesUp, github
    <3>3. ASSUME NEW r \in Planner, Handoff(r) \/ \E o \in Pull : CreatePull(r, o) PROVE FALSE
      BY <1>1, <2>0, <3>3 DEF Handoff, CreatePull, Pulls
    <3>4. ASSUME NEW o \in Pull, Close(o) \/ \E route \in {"taken", "held"} : Relabel(o, route)
          PROVE  FALSE
      BY <1>1, <2>0, <3>4 DEF Close, Relabel, Pulls
    <3>5. \/ Cycle \/ Rows \/ (\E o \in Pull : Recover(o)) \/ Waits \/ Fail \/ Lapse \/ Push
          \/ (\E revision \in Revisions : Edit(revision))
          \/ (\E say \in {"silent", "cite", "close"} : Others(say)) \/ UNCHANGED vars
          => FALSE
      BY <1>1 DEF Cycle, Rows, Recover, Waits, Fail, Lapse, Push, Edit, Others, github, vars
    <3> QED BY <1>1, <3>1, <3>2, <3>3, <3>4, <3>5, StepCases, Nulls
  <2>2. run[r].at = "put" /\ run[r].pull = p
    BY <1>1, <2>0, <2>1 DEF Put, At, Pulls
  <2>3. /\ ~branch.grown /\ pull[p].route \in {"none", "ready"} /\ p \in Created
    BY <2>0, <2>2 DEF Dealt, Dealing, Verifying
  <2>4. branch.plan = pub.plan
    BY <2>0, <2>3 DEF Publication
  <2>5. branch = [plan |-> branch.plan, grown |-> branch.grown] /\ branch.grown = FALSE
    BY <2>0, <2>3 DEF Branches
  <2> QED BY <1>1, <2>3, <2>4, <2>5
<1>2. IInv /\ [Next]_vars
        => [\A p \in Pull : pull'[p].route = "ready" /\ pull[p].route # "ready"
              => /\ pull[p].route = "none"
                 /\ branch = [plan |-> pub.plan, grown |-> FALSE]]_vars
  BY <1>1
<1> QED BY <1>2, Inductive, PTL DEF ReadyIsReserved, Spec
=============================================================================
