---------------------------- MODULE ClaimProtocol ----------------------------
(***************************************************************************)
(* The shared claim service of one pull request in one phase: the handlers *)
(* of orchestrator/claim_api.py with the label writer (state_writer.py),   *)
(* the declared-head refresh (head_transition.py) and the expired-lease    *)
(* reconciler (external_recovery.py), against the pull request on GitHub   *)
(* and the account workers that call the service.                          *)
(*                                                                         *)
(* A handler is a coroutine: what it does between two awaits is one step,  *)
(* and it carries its copies (binding, checkpoint, labels read) from one   *)
(* step to the next while other handlers, the workers, the clock and       *)
(* GitHub move.  Two reads with nothing but checks between them are one    *)
(* step, since ownership that holds at the second held at the first.       *)
(*                                                                         *)
(* Ownership of leases and operation keys is the abstract lock of module   *)
(* Ownership, which the store implements: an expiry is its End at any      *)
(* time.  A key is a SHA of the branch (repository, pull request and phase *)
(* are fixed) or the label-writing key of the pull request.                *)
(***************************************************************************)
CONSTANTS Phases,             \* the phases a behaviour may be about
          Sha, Base, NoSha,   \* commits, the initial HEAD
          Projection,         \* the "state-projection" key
          Claim,              \* external claims, one per worker request
          Lease, NoLease,
          Timely,             \* no lease runs out under a write in flight
          Attended,           \* the reconciler visits a claim that expired
                              \* before the next one expires, and has by then
                              \* taken its key or closed it
          OwnerPushes,        \* the owner of the branch pushes to it too
          EarlyRelease,       \* a worker releases its claim after it started
          QuietPublication    \* no heartbeat is in flight during a publication,
                              \* and a report commit that landed gets recorded

CodePhases == {"implementation", "escalation-repair"}
ReportPhases == {"prototype", "qa"}

ASSUME PhaseAssumption == Phases \subseteq CodePhases \cup ReportPhases \cup {"code-review"}
ASSUME NullAssumption == /\ Base \in Sha
                         /\ NoSha \notin Sha
                         /\ Projection \notin Sha
                         /\ NoLease \notin Lease
ASSUME SwitchAssumption == {Timely, Attended, OwnerPushes, EarlyRelease,
                             QuietPublication} \subseteq BOOLEAN

VARIABLES owner, inForce, ended,  \* Ownership
          head, route,            \* the pull request: HEAD, canonical labels
          made,                   \* commits that exist, on the branch or not
          phase,                  \* the phase being worked on
          ci, result,             \* green commits; the phase result per commit
          row,                    \* the claim's row in the store
          client, held,           \* what the worker of the claim is doing, and its lease
          call                    \* the handlers in flight

own == <<owner, inForce, ended>>
pull == <<head, route, made>>
evidence == <<phase, ci, result>>
worker == <<client, held>>
vars == <<own, pull, evidence, row, worker, call>>

Own == INSTANCE Ownership WITH Key <- Sha \cup {Projection}

\* Canonical routes: of this phase, of the phase it advances to, of the
\* review that follows a QA report, of a decision.
Route == {"todo", "running", "next", "review-again", "blocked", "repair"}
Result == {"none", "passed", "failed"}

NoPub == [status |-> "none", from |-> NoSha, to |-> NoSha]
NoCp == [start |-> "none", starter |-> NoLease,  \* start_projection
         pub |-> NoPub,                          \* head_publication
         rep |-> "none",                         \* report_request, report_publication
         adv |-> "none", advBy |-> NoLease,      \* projection
         dec |-> FALSE,                          \* worker_decision
         rec |-> "none"]                         \* recovery_projection

NoRow == [status |-> "absent", lease |-> NoLease, sha |-> NoSha, cp |-> NoCp]

\* A handler in flight: its next step, the lease it presents, its copies of
\* the binding's SHA and of the checkpoint, the route it read and will write,
\* the commit it made.
Request(op, at, l, sha, cp) == [op |-> op, at |-> at, lease |-> l, sha |-> sha, cp |-> cp,
                                seen |-> "none", to |-> "none", new |-> NoSha]
NoCall == Request("none", "idle", NoLease, NoSha, NoCp)

\* The worker's own requests, its heartbeats, and the reconciler.
Kind == {"main", "beat", "recovery"}

Executing == {"working", "declared", "pushed"}

Pubs == [status : {"none", "prepared", "applied"},
         from : Sha \cup {NoSha}, to : Sha \cup {NoSha}]
Checkpoints == [start : {"none", "planned", "applied"}, starter : Lease \cup {NoLease},
                pub : Pubs, rep : {"none", "prepared", "moved", "kept"},
                adv : Route \cup {"none"}, advBy : Lease \cup {NoLease}, dec : BOOLEAN,
                rec : Route \cup {"none"}]
Rows == [status : {"absent", "running", "done", "superseded"}, lease : Lease \cup {NoLease},
         sha : Sha \cup {NoSha}, cp : Checkpoints]
Calls == [op : {"none", "acquire", "start", "heartbeat", "confirm", "reports", "advance",
                "decision", "recovery"},
          at : {"idle", "claim", "recheck", "plan", "verify", "put", "done", "refresh",
                "check", "commit", "move", "board"},
          lease : Lease \cup {NoLease}, sha : Sha \cup {NoSha}, cp : Checkpoints,
          seen : Route \cup {"none"}, to : Route \cup {"none"}, new : Sha \cup {NoSha}]

TypeOK ==
    /\ owner \in [Sha \cup {Projection} -> Lease \cup {NoLease}]
    /\ inForce \subseteq Lease
    /\ ended \subseteq Lease
    /\ head \in made
    /\ made \subseteq Sha
    /\ route \in Route
    /\ phase \in Phases
    /\ ci \subseteq made
    /\ result \in [Sha -> Result]
    /\ row \in [Claim -> Rows]
    /\ client \in [Claim -> {"new", "asking", "acquired", "starting", "finished", "gone"}
                                \cup Executing]
    /\ held \in [Claim -> Lease \cup {NoLease}]
    /\ call \in [Claim -> [Kind -> Calls]]

Init == /\ Own!Init
        /\ head = Base
        /\ route = "todo"
        /\ made = {Base}
        /\ phase \in Phases
        /\ ci = {}
        /\ result = [s \in Sha |-> "none"]
        /\ row = [c \in Claim |-> NoRow]
        /\ client = [c \in Claim |-> "new"]
        /\ held = [c \in Claim |-> NoLease]
        /\ call = [c \in Claim |-> [kind \in Kind |-> NoCall]]

-----------------------------------------------------------------------------
(* What handlers ask of the store and of a snapshot of the pull request.   *)

\* assert_lease, and owned(): the claim's operation key joins to the lease.
HoldsLease(c, l) == /\ row[c].status = "running"
                    /\ row[c].lease = l
                    /\ l \in inForce
Owned(c, l) == HoldsLease(c, l) /\ owner[row[c].sha] = l

\* claim_operation that answers True.
Obtains(k, l) == IF owner[k] = l THEN UNCHANGED own ELSE Own!Take(k, l)
Refused(k, l) == owner[k] \notin {l, NoLease}

\* current(), live == before: HEAD is the bound SHA, the route is as allowed.
Sees(sha, routes) == head = sha /\ route \in routes

\* finish() with a lease; a lost lease leaves the row as it is.
Finishes(c, l, status) ==
    IF HoldsLease(c, l)
    THEN /\ Own!End({l})
         /\ row' = [row EXCEPT ![c].status = status, ![c].lease = NoLease]
    ELSE UNCHANGED <<own, row>>

Saves(c, l, cp) == /\ HoldsLease(c, l)
                   /\ row' = [row EXCEPT ![c].cp = cp]

\* Mutant of MovesHead: the checkpoint is replaced, the binding is not.
MovesHeadInPlace(c, l, from, to, cp) ==
    /\ HoldsLease(c, l)
    /\ row[c].sha = from
    /\ Obtains(to, l)
    /\ row' = [row EXCEPT ![c].cp = cp]

\* move_external_head, with its answer to a repetition of an applied move.
MovesHead(c, l, from, to, cp) ==
    /\ HoldsLease(c, l)
    /\ \/ /\ row[c].sha = from
          /\ Obtains(to, l)
          /\ row' = [row EXCEPT ![c].sha = to, ![c].cp = cp]
       \/ /\ row[c].sha = to
          /\ row[c].cp.pub = [status |-> "applied", from |-> from, to |-> to]
          /\ UNCHANGED <<own, row>>

At(c, kind, step) == call[c][kind].at = step
Idle(c, kind) == At(c, kind, "idle")
Goes(c, kind, step) == call' = [call EXCEPT ![c][kind].at = step]
Ends(c, kind) == call' = [call EXCEPT ![c][kind] = NoCall]
Becomes(c, state) == client' = [client EXCEPT ![c] = state]

\* A handler begins with the row it reads: binding and checkpoint.
Begins(c, kind, op, step, l) ==
    /\ Idle(c, kind)
    /\ call' = [call EXCEPT ![c][kind] = Request(op, step, l, row[c].sha, row[c].cp)]

-----------------------------------------------------------------------------
(* POST /claims/acquire.                                                   *)

AcquireRead(c) ==
    /\ client[c] = "new"
    /\ route = "todo"
    /\ Becomes(c, "asking")
    /\ call' = [call EXCEPT ![c]["main"] = Request("acquire", "claim", NoLease, head, NoCp)]
    /\ UNCHANGED <<own, pull, evidence, row, held>>

\* claim_external.
AcquireClaim(c, l) ==
    LET sha == call[c]["main"].sha IN
    /\ At(c, "main", "claim")
    /\ Own!Issue(l)
    /\ owner[sha] = NoLease
    /\ owner'[sha] = l
    /\ row' = [row EXCEPT ![c] = [status |-> "running", lease |-> l, sha |-> sha,
                                  cp |-> NoCp]]
    /\ call' = [call EXCEPT ![c]["main"].at = "recheck", ![c]["main"].lease = l]
    /\ UNCHANGED <<pull, evidence, worker>>

\* A push or a state change during the acquisition revokes it.
AcquireRecheck(c) ==
    LET m == call[c]["main"] IN
    /\ At(c, "main", "recheck")
    /\ IF Sees(m.sha, {"todo"})
       THEN /\ held' = [held EXCEPT ![c] = m.lease]
            /\ client' = [client EXCEPT ![c] = IF @ = "asking" THEN "acquired" ELSE @]
            /\ UNCHANGED <<own, row>>
       ELSE Finishes(c, m.lease, "superseded") /\ UNCHANGED worker
    /\ Ends(c, "main")
    /\ UNCHANGED <<pull, evidence>>

-----------------------------------------------------------------------------
(* write_labels: the steps shared by start, advance, decision and the      *)
(* reconciler, once they have taken the projection key and recorded their  *)
(* plan.  "verify" re-reads the pull request and checks the lease and both *)
(* keys; the PUT is a request in flight from then on; "done" is what each  *)
(* of them does with the verified result.                                  *)

\* Mutant of WriteVerify: the labels are compared, the lease is not asked for.
WriteVerifyUnfenced(c, kind) ==
    LET m == call[c][kind] IN
    /\ m.at = "verify"
    /\ Sees(m.sha, {m.seen})
    /\ Goes(c, kind, IF m.seen = m.to THEN "done" ELSE "put")
    /\ UNCHANGED <<own, pull, evidence, row, worker>>

WriteVerify(c, kind) ==
    LET m == call[c][kind] IN
    /\ m.at = "verify"
    /\ Sees(m.sha, {m.seen})
    /\ Owned(c, m.lease)
    /\ owner[Projection] = m.lease
    /\ Goes(c, kind, IF m.seen = m.to THEN "done" ELSE "put")
    /\ UNCHANGED <<own, pull, evidence, row, worker>>

Put(c, kind) ==
    /\ At(c, kind, "put")
    /\ route' = call[c][kind].to
    /\ Goes(c, kind, "done")
    /\ UNCHANGED <<own, head, made, evidence, row, worker>>

-----------------------------------------------------------------------------
(* POST /claims/start.                                                     *)

StartBegin(c) ==
    /\ client[c] \in {"acquired", "starting"}
    /\ Owned(c, held[c])
    /\ Obtains(Projection, held[c])
    /\ Begins(c, "main", "start", "plan", held[c])
    /\ Becomes(c, "starting")
    /\ UNCHANGED <<pull, evidence, row, held>>

\* The trusted handoff or review a phase starts from names one exact SHA,
\* the one that made the phase ready; no participant writes it for another.
StartGate(sha) == /\ phase # "escalation-repair" => sha = Base
                  /\ phase \in {"implementation", "code-review", "qa"} => sha \in ci

\* RUNNING is accepted only when this lease recorded its intent, and an
\* applied start only when RUNNING is still there.
StartPlan(c) ==
    LET m == call[c]["main"]
        replay == m.cp.starter = m.lease
        cp == IF replay THEN m.cp
                        ELSE [m.cp EXCEPT !.start = "planned", !.starter = m.lease]
    IN
    /\ m.op = "start" /\ m.at = "plan"
    /\ Sees(m.sha, IF replay THEN {"todo", "running"} ELSE {"todo"})
    /\ StartGate(m.sha)
    /\ replay /\ m.cp.start = "applied" => route = "running"
    /\ Saves(c, m.lease, cp)
    /\ call' = [call EXCEPT ![c]["main"] = [m EXCEPT !.at = "verify", !.cp = cp,
                                                    !.seen = route, !.to = "running"]]
    /\ UNCHANGED <<own, pull, evidence, worker>>

StartDone(c) ==
    LET m == call[c]["main"]
        cp == [m.cp EXCEPT !.start = "applied"]
    IN
    /\ m.op = "start" /\ m.at = "done"
    /\ Sees(m.sha, {"running"})
    /\ Owned(c, m.lease)
    /\ Saves(c, m.lease, cp)
    /\ client' = [client EXCEPT ![c] = IF @ = "starting" THEN "working" ELSE @]
    /\ Ends(c, "main")
    /\ UNCHANGED <<own, pull, evidence, held>>

-----------------------------------------------------------------------------
(* head_transition.refresh_declared_head, in heartbeat, confirm-head and   *)
(* the reconciler: a claim follows the commit it declared, and no other.   *)

Followed(cp) == [cp EXCEPT !.pub.status = "applied", !.adv = "none",
                           !.advBy = NoLease, !.rec = "none"]

\* Mutant of RefreshHead: the declared intent permits whatever HEAD is.
RefreshHeadToAny(c, kind) ==
    LET m == call[c][kind] IN
    /\ m.at = "refresh"
    /\ IF head = m.sha
       THEN Goes(c, kind, "check") /\ UNCHANGED <<own, row>>
       ELSE /\ route = "running"
            /\ MovesHead(c, m.lease, m.sha, head, Followed(m.cp))
            /\ call' = [call EXCEPT ![c][kind] = [m EXCEPT !.at = "check",
                                         !.sha = head, !.cp = row'[c].cp]]
    /\ UNCHANGED <<pull, evidence, worker>>

RefreshHead(c, kind) ==
    LET m == call[c][kind]
        pub == m.cp.pub
    IN
    /\ m.at = "refresh"
    /\ \/ /\ pub.status # "prepared" \/ head = m.sha
          /\ Goes(c, kind, "check")
          /\ UNCHANGED <<own, row>>
       \/ /\ pub.status = "prepared"
          /\ pub.from = m.sha
          /\ Sees(pub.to, {"running"})
          /\ owner[m.sha] = m.lease
          /\ MovesHead(c, m.lease, pub.from, pub.to, Followed(m.cp))
          /\ call' = [call EXCEPT ![c][kind] = [m EXCEPT !.at = "check",
                                       !.sha = pub.to, !.cp = row'[c].cp]]
    /\ UNCHANGED <<pull, evidence, worker>>

(* POST /claims/heartbeat.                                                 *)

HeartbeatBegin(c) ==
    /\ client[c] \in Executing
    /\ QuietPublication => /\ client[c] # "declared"
                           /\ call[c]["main"].op # "reports"
    /\ Owned(c, held[c])
    /\ Begins(c, "beat", "heartbeat",
              IF row[c].cp.pub.status = "prepared" THEN "refresh" ELSE "check", held[c])
    /\ UNCHANGED <<own, pull, evidence, row, worker>>

\* The pull request is as the claim needs it, and the lease is renewed; or
\* it is not, and the claim is finished and its worker told to stop.
HeartbeatCheck(c) ==
    LET m == call[c]["beat"]
        projected == IF m.cp.advBy = m.lease THEN {m.cp.adv} ELSE {}
    IN
    /\ At(c, "beat", "check")
    /\ IF Sees(m.sha, {"todo", "running"} \cup projected)
       THEN UNCHANGED <<own, row, client>>
       ELSE /\ Finishes(c, m.lease, "superseded")
            /\ client' = [client EXCEPT ![c] = IF @ \in Executing THEN "gone" ELSE @]
    /\ Ends(c, "beat")
    /\ UNCHANGED <<pull, evidence, held>>

-----------------------------------------------------------------------------
(* Publication of code: prepare-head, the worker's push, confirm-head.     *)

MayPublish(c, phases) ==
    /\ client[c] = "working"
    /\ Idle(c, "main")
    /\ QuietPublication => Idle(c, "beat")
    /\ phase \in phases
    /\ Owned(c, held[c])
    /\ Sees(row[c].sha, {"running"})
    /\ row[c].cp.start = "applied" /\ row[c].cp.starter = held[c]
    /\ row[c].cp.adv = "none"

PrepareHead(c, to) ==
    /\ MayPublish(c, CodePhases)
    /\ row[c].cp.pub.status # "prepared"
    /\ to \in Sha \ made
    /\ made' = made \cup {to}
    /\ Saves(c, held[c], [row[c].cp EXCEPT
                 !.pub = [status |-> "prepared", from |-> row[c].sha, to |-> to]])
    /\ Becomes(c, "declared")
    /\ UNCHANGED <<own, head, route, evidence, held, call>>

\* The non-forced update of the branch to a child of the commit it was at.
Push(c) ==
    /\ client[c] = "declared"
    /\ head = row[c].cp.pub.from
    /\ head' = row[c].cp.pub.to
    /\ Becomes(c, "pushed")
    /\ UNCHANGED <<own, route, made, evidence, row, held, call>>

ConfirmBegin(c) ==
    /\ client[c] = "pushed"
    /\ Owned(c, held[c])
    /\ Begins(c, "main", "confirm", "refresh", held[c])
    /\ UNCHANGED <<own, pull, evidence, row, worker>>

ConfirmDone(c) ==
    LET m == call[c]["main"] IN
    /\ m.op = "confirm" /\ m.at = "check"
    /\ m.cp.pub.status = "applied"
    /\ Sees(m.sha, {"todo", "running"})
    /\ client' = [client EXCEPT ![c] = IF @ = "pushed" THEN "working" ELSE @]
    /\ Ends(c, "main")
    /\ UNCHANGED <<own, pull, evidence, row, held>>

-----------------------------------------------------------------------------
(* POST /claims/publish-reports: the service commits the reports itself.   *)

ReportsBegin(c) ==
    /\ MayPublish(c, ReportPhases)
    /\ row[c].cp.rep \in {"none", "prepared"}
    /\ Saves(c, held[c], [row[c].cp EXCEPT !.rep = "prepared"])
    /\ call' = [call EXCEPT ![c]["main"] =
                   Request("reports", "commit", held[c], row[c].sha, row'[c].cp)]
    /\ UNCHANGED <<own, pull, evidence, worker>>

\* update_pr_files: a direct child of the expected HEAD, or no commit when
\* the reports are already what the tree holds.
ReportsCommit(c, to) ==
    LET m == call[c]["main"] IN
    /\ At(c, "main", "commit")
    /\ head = m.sha
    /\ to = m.sha \/ to \in Sha \ made
    /\ head' = to
    /\ made' = made \cup {to}
    /\ call' = [call EXCEPT ![c]["main"] = [m EXCEPT !.at = "move", !.new = to]]
    /\ UNCHANGED <<own, route, evidence, row, worker>>

ReportsMove(c) ==
    LET m == call[c]["main"] IN
    /\ At(c, "main", "move")
    /\ Owned(c, m.lease)
    /\ IF m.new = m.sha
       THEN Saves(c, m.lease, [m.cp EXCEPT !.rep = "kept"]) /\ UNCHANGED own
       ELSE MovesHead(c, m.lease, m.sha, m.new,
                      [m.cp EXCEPT !.rep = "moved", !.adv = "none",
                                   !.advBy = NoLease, !.rec = "none"])
    /\ Ends(c, "main")
    /\ UNCHANGED <<pull, evidence, worker>>

-----------------------------------------------------------------------------
(* POST /claims/advance, and verified_next_workflow.                       *)

AdvanceBegin(c) ==
    /\ client[c] = "working"
    /\ Owned(c, held[c])
    /\ Obtains(Projection, held[c])
    /\ Begins(c, "main", "advance", "plan", held[c])
    /\ UNCHANGED <<pull, evidence, row, worker>>

\* CI and the phase's trusted record, both for this exact SHA; QA also needs
\* the independent review of it, which only the HEAD it began with has.
Verified(sha) == /\ sha \in ci
                 /\ result[sha] = "passed"
                 /\ phase = "qa" => sha = Base

\* A QA claim that committed its reports goes back to review on green CI.
QAHeadChanged(cp) == phase = "qa" /\ cp.rep = "moved"

\* Mutant of Advances: evidence for an earlier HEAD counts.
AdvancesOnOldEvidence(sha, cp) == IF \E s \in made : Verified(s) THEN {"next"} ELSE {}

Advances(sha, cp) == IF QAHeadChanged(cp)
                     THEN IF sha \in ci THEN {"review-again"} ELSE {}
                     ELSE IF Verified(sha) THEN {"next"} ELSE {}

AdvancePlan(c) ==
    LET m == call[c]["main"]
        previous == IF m.cp.advBy = m.lease THEN {m.cp.adv} ELSE {}
    IN
    /\ m.op = "advance" /\ m.at = "plan"
    /\ Sees(m.sha, {"todo", "running"} \cup previous)
    /\ \E to \in Advances(m.sha, m.cp) :
          LET cp == [m.cp EXCEPT !.adv = to, !.advBy = m.lease] IN
          /\ Saves(c, m.lease, cp)
          /\ call' = [call EXCEPT ![c]["main"] = [m EXCEPT !.at = "verify", !.cp = cp,
                                                          !.seen = route, !.to = to]]
    /\ UNCHANGED <<own, pull, evidence, worker>>

AdvanceDone(c) ==
    LET m == call[c]["main"] IN
    /\ m.op = "advance" /\ m.at = "done"
    /\ Sees(m.sha, {m.to})
    /\ HoldsLease(c, m.lease)
    /\ Finishes(c, m.lease, "done")
    /\ client' = [client EXCEPT ![c] = IF @ = "working" THEN "finished" ELSE @]
    /\ Ends(c, "main")
    /\ UNCHANGED <<pull, evidence, held>>

-----------------------------------------------------------------------------
(* POST /claims/decision and /claims/release.                              *)

Decisions == {"todo", "blocked"}
             \cup (IF phase \in {"code-review", "implementation"} THEN {"repair"} ELSE {})

Decide(c, to) ==
    /\ client[c] = "working"
    /\ Idle(c, "main")
    /\ Owned(c, held[c])
    /\ to \in Decisions
    /\ Sees(row[c].sha, {"running"})
    /\ Saves(c, held[c], [row[c].cp EXCEPT !.dec = TRUE])
    /\ Obtains(Projection, held[c])
    /\ call' = [call EXCEPT ![c]["main"] =
                   [Request("decision", "verify", held[c], row[c].sha, row'[c].cp)
                        EXCEPT !.seen = "running", !.to = to]]
    /\ UNCHANGED <<pull, evidence, worker>>

DecisionDone(c) ==
    LET m == call[c]["main"] IN
    /\ m.op = "decision" /\ m.at = "done"
    /\ route = m.to
    /\ HoldsLease(c, m.lease)
    /\ Finishes(c, m.lease, "done")
    /\ client' = [client EXCEPT ![c] = IF @ = "working" THEN "finished" ELSE @]
    /\ Ends(c, "main")
    /\ UNCHANGED <<pull, evidence, held>>

\* Ownership ends and the labels stay as they are: RUNNING, if the worker had
\* started, and then no claim is left that the reconciler would visit.
Release(c) ==
    /\ client[c] \in IF EarlyRelease THEN {"acquired", "working"} ELSE {"acquired"}
    /\ Idle(c, "main")
    /\ Owned(c, held[c])
    /\ Finishes(c, held[c], "done")
    /\ Becomes(c, "finished")
    /\ UNCHANGED <<pull, evidence, held, call>>

-----------------------------------------------------------------------------
(* external_recovery: one expired claim at a time.                         *)

\* reclaim_external: a compare and swap of the ended lease.
Reclaim(c, l) ==
    /\ \A d \in Claim : Idle(d, "recovery")
    /\ row[c].status = "running"
    /\ row[c].lease \in ended
    /\ Own!Issue(l)
    /\ owner' = owner
    /\ row' = [row EXCEPT ![c].lease = l]
    /\ Begins(c, "recovery", "recovery", "claim", l)
    /\ UNCHANGED <<pull, evidence, worker>>

\* The operation key first: refused, another claim has taken the work over.
RecoverClaim(c) ==
    LET m == call[c]["recovery"] IN
    /\ At(c, "recovery", "claim")
    /\ IF Refused(m.sha, m.lease)
       THEN Finishes(c, m.lease, "superseded") /\ Ends(c, "recovery")
       ELSE /\ Obtains(m.sha, m.lease)
            /\ Goes(c, "recovery", "board")
            /\ UNCHANGED row
    /\ UNCHANGED <<pull, evidence, worker>>

\* Then the projection key: refused, the claim waits for its next expiry.
RecoverBoard(c) ==
    LET m == call[c]["recovery"] IN
    /\ At(c, "recovery", "board")
    /\ IF Refused(Projection, m.lease)
       THEN Ends(c, "recovery") /\ UNCHANGED own
       ELSE Obtains(Projection, m.lease) /\ Goes(c, "recovery", "refresh")
    /\ UNCHANGED <<pull, evidence, row, worker>>

\* A HEAD that is neither the bound nor the declared one is not adopted.
RecoverMismatch(c) ==
    LET m == call[c]["recovery"] IN
    /\ At(c, "recovery", "refresh")
    /\ m.cp.pub.status = "prepared"
    /\ head # m.sha
    /\ ~(m.cp.pub.from = m.sha /\ Sees(m.cp.pub.to, {"running"}))
    /\ Finishes(c, m.lease, "superseded")
    /\ Ends(c, "recovery")
    /\ UNCHANGED <<pull, evidence, worker>>

\* Routes the reconciler takes for its own: the phase's, and the targets of
\* an advance or a recovery that was recorded before it was interrupted.
Accepted(cp) == {"todo", "running", cp.adv, cp.rec}

\* Mutant of Foreign: the recorded start is not looked for.
ForeignUnlessAdvancing(m) == \/ ~Sees(m.sha, Accepted(m.cp))
                             \/ route = "running" /\ m.cp.adv = "none"

Foreign(m) == \/ ~Sees(m.sha, Accepted(m.cp))
              \/ route = "running" /\ m.cp.start = "none" /\ m.cp.adv = "none"

RecoverForeign(c) ==
    /\ call[c]["recovery"].at = "check"
    /\ Foreign(call[c]["recovery"])
    /\ Finishes(c, call[c]["recovery"].lease, "superseded")
    /\ Ends(c, "recovery")
    /\ UNCHANGED <<pull, evidence, worker>>

\* Mutant of Recovers: whatever expired is done again.
RecoversToReady(sha) == {"todo"}

\* Forward on a verified result, back to READY without one; a result that
\* does not authorise anything leaves the claim to its next expiry.
Recovers(sha) == IF result[sha] # "none"
                 THEN IF Verified(sha) THEN {"next"} ELSE {}
                 ELSE IF route \in {"todo", "running"} THEN {"todo"} ELSE {}

RecoverPlan(c) ==
    LET m == call[c]["recovery"] IN
    /\ At(c, "recovery", "check")
    /\ ~Foreign(m)
    /\ \E to \in Recovers(m.sha) :
          LET cp == [m.cp EXCEPT !.rec = to] IN
          /\ Saves(c, m.lease, cp)
          /\ call' = [call EXCEPT ![c]["recovery"] =
                         [m EXCEPT !.at = "verify", !.cp = cp, !.seen = route, !.to = to]]
    /\ UNCHANGED <<own, pull, evidence, worker>>

RecoverDone(c) ==
    LET m == call[c]["recovery"] IN
    /\ At(c, "recovery", "done")
    /\ Sees(m.sha, {m.to})
    /\ HoldsLease(c, m.lease)
    /\ Finishes(c, m.lease, "done")
    /\ Ends(c, "recovery")
    /\ UNCHANGED <<pull, evidence, worker>>

-----------------------------------------------------------------------------
(* Workers, GitHub, the clock, and failures.                               *)

\* The worker publishes its trusted record for the SHA it works on; its own
\* deadline is some time before the lease's.
PostResult(c, r) ==
    /\ client[c] = "working"
    /\ Idle(c, "main")
    /\ Timely => held[c] \in inForce
    /\ row[c].sha # NoSha
    /\ result[row[c].sha] = "none"
    /\ result' = [result EXCEPT ![row[c].sha] = r]
    /\ UNCHANGED <<own, pull, phase, ci, row, worker, call>>

CIPasses == /\ head \notin ci
            /\ ci' = ci \cup {head}
            /\ UNCHANGED <<own, pull, phase, result, row, worker, call>>

\* A commit nobody declared to the service.
OwnerPush(to) == /\ OwnerPushes
                 /\ to \in Sha \ made
                 /\ head' = to
                 /\ made' = made \cup {to}
                 /\ UNCHANGED <<own, route, evidence, row, worker, call>>

\* A worker dies, gives up on an answer, or loses the network for good.
WorkerStops(c) == /\ client[c] \notin {"new", "finished", "gone"}
                  /\ Becomes(c, "gone")
                  /\ UNCHANGED <<own, pull, evidence, row, held, call>>

\* A handler ends early: a check refuses, GitHub answers with an error, or
\* the service restarts.  A write that was in flight was not applied.  A
\* recovery has asked GitHub for nothing before it has the key: between its
\* two first transactions only a failure of the service itself ends it.
Abort(c, kind) == /\ ~Idle(c, kind)
                  /\ QuietPublication => ~At(c, kind, "move")
                  /\ Attended => ~(kind = "recovery" /\ At(c, kind, "claim"))
                  /\ Ends(c, kind)
                  /\ UNCHANGED <<own, pull, evidence, row, worker>>

\* What a lease outlives when Timely: a write that passed its last check of
\* it, an acquisition that already read the pull request, a recovery pass.
InFlight(l) == \/ \E c \in Claim, kind \in Kind :
                      /\ call[c][kind].lease = l
                      /\ call[c][kind].at \in {"put", "commit", "move"}
               \/ \E c \in Claim : \/ held[c] = l /\ client[c] = "declared"
                                   \/ At(c, "main", "claim")
                                   \/ ~Idle(c, "recovery")

Unattended(c) == row[c].status = "running" /\ row[c].lease \in ended

Expire(l) == /\ Timely => ~InFlight(l)
             /\ Attended => \A c \in Claim : ~Unattended(c)
             /\ Own!End({l})
             /\ UNCHANGED <<pull, evidence, row, worker, call>>

\* A step of a handler in flight.
Step(c, kind) ==
    \/ WriteVerify(c, kind)
    \/ Put(c, kind)
    \/ RefreshHead(c, kind)
    \/ /\ kind = "main"
       /\ \/ \E l \in Lease : AcquireClaim(c, l)
          \/ AcquireRecheck(c)
          \/ StartPlan(c)
          \/ StartDone(c)
          \/ ConfirmDone(c)
          \/ \E to \in Sha : ReportsCommit(c, to)
          \/ ReportsMove(c)
          \/ AdvancePlan(c)
          \/ AdvanceDone(c)
          \/ DecisionDone(c)
    \/ kind = "beat" /\ HeartbeatCheck(c)
    \/ /\ kind = "recovery"
       /\ \/ RecoverClaim(c)
          \/ RecoverBoard(c)
          \/ RecoverMismatch(c)
          \/ RecoverForeign(c)
          \/ RecoverPlan(c)
          \/ RecoverDone(c)

\* What a worker may do next.
Work(c) == \/ AcquireRead(c)
           \/ StartBegin(c)
           \/ HeartbeatBegin(c)
           \/ \E to \in Sha : PrepareHead(c, to)
           \/ Push(c)
           \/ ConfirmBegin(c)
           \/ ReportsBegin(c)
           \/ \E r \in {"passed", "failed"} : PostResult(c, r)
           \/ AdvanceBegin(c)
           \/ \E to \in Route : Decide(c, to)
           \/ Release(c)
           \/ WorkerStops(c)

Next == \/ \E c \in Claim : Work(c)
        \/ \E c \in Claim, kind \in Kind :
              Step(c, kind) \/ Abort(c, kind)
        \/ \E c \in Claim, l \in Lease : Reclaim(c, l)
        \/ \E l \in Lease : Expire(l)
        \/ CIPasses
        \/ \E to \in Sha : OwnerPush(to)

Spec == Init /\ [][Next]_vars

\* A handler in flight takes its next step or ends (HTTP timeouts), the
\* reconciler comes back, a worker pushes or gives up, and no lease is
\* renewed for ever, whatever delays its expiry now and then.
Fairness == /\ \A c \in Claim :
                  /\ \A kind \in Kind :
                        WF_vars(Step(c, kind) \/ Abort(c, kind))
                  /\ WF_vars(\E l \in Lease : Reclaim(c, l))
                  /\ WF_vars(Push(c) \/ WorkerStops(c))
            /\ \A l \in Lease : SF_vars(Expire(l))

FairSpec == Spec /\ Fairness

-----------------------------------------------------------------------------
(* Properties.                                                             *)

\* The claim is bound to HEAD, or declared the commit that HEAD is, or has
\* its handler about to record the report commit that HEAD is.
Follows(c) == \/ row[c].sha = head
              \/ /\ row[c].cp.pub.status = "prepared"
                 /\ row[c].cp.pub.from = row[c].sha
                 /\ row[c].cp.pub.to = head
              \/ /\ At(c, "main", "move")
                 /\ call[c]["main"].sha = row[c].sha
                 /\ call[c]["main"].new = head

\* A pull request labelled RUNNING always has a claim the reconciler will
\* visit once its lease ends, and on whose record it will act: unfinished,
\* with a start or an advance recorded, and following HEAD.  Without one
\* nothing in the service ever takes the pull request out of RUNNING.
RunningIsRecoverable ==
    route = "running" =>
        \E c \in Claim : /\ row[c].status = "running"
                         /\ row[c].cp.start # "none" \/ row[c].cp.adv # "none"
                         /\ Follows(c)

\* The worker was told to execute and its lease is in force.
Entitled(c) == client[c] \in Executing /\ held[c] \in inForce

\* A worker that is entitled finds the pull request RUNNING at the HEAD its
\* claim follows, until it itself asks to advance or to decide: nobody
\* else's start, recovery or late write takes the work from under it.
UndisturbedWorker ==
    \A c \in Claim :
        Entitled(c) => \/ route = "running" /\ Follows(c)
                       \/ row[c].cp.adv # "none"
                       \/ row[c].cp.dec

\* The pull request leaves the phase forwards only on evidence for the HEAD
\* it has: green CI and the phase's record, whoever projects it; back to
\* review after a report commit on green CI.
AdvancedOnEvidence ==
    /\ route = "next" => Verified(head)
    /\ route = "review-again" => head \in ci

\* Once the pull request has left the phase, no start, recovery or repeated
\* request of this phase changes its route again.
PhaseEndsOnce ==
    [][(route \notin {"todo", "running"}) => route' = route]_vars

\* Work whose result is on record is never sent back to be done again,
\* unless its worker asked for that.
CompletedWorkIsKept ==
    [][(route = "running" /\ route' = "todo")
         => result[head] = "none" \/ \E c \in Claim : row[c].cp.dec]_vars

\* A claim's SHA changes only to the commit that was declared for it before,
\* or that the service itself made for it: an unregistered HEAD that appears
\* under a claim is never taken for the work of its worker.
OnlyDeclaredHeads ==
    [][\A c \in Claim : row[c].sha \notin {NoSha, row'[c].sha} =>
          row'[c].sha \in {row[c].cp.pub.to, call[c]["main"].new}]_vars

\* A pull request does not stay RUNNING: its worker finishes, or the lease
\* ends and the reconciler moves the pull request on, trying again after
\* its own failures for as long as the model has leases to give it.
RunningEnds == (route = "running") ~> \/ route # "running"
                                      \/ inForce \cup ended = Lease

=============================================================================
