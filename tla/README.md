# TLA+ models of the agent delivery orchestrator

The repository runs a delivery pipeline on GitHub pull requests: agents of several
kinds (planner, prototype, implementation, independent review, repair, QA) work on one
pull request in turn, and the labels of the pull request say whose turn it is and
whether the work is ready (`status:todo`), running, blocked or waiting for the owner.
GitHub has no compare-and-swap for labels, workers die without a word, and a worker's
commit moves the HEAD that all evidence is about. What holds this together is a small
SQLite store of leases and a set of handlers that read GitHub, check, and write.
This directory models that core.

## 1. Inventory

| Part | State it keeps | Operations | Talks to |
|---|---|---|---|
| Lease store (`state_store.py`) | tables `events` (status, lease, expiry, retry time, attempts, checkpoint, binding) and `operation_claims` | enqueue, claim_next, heartbeat, claim_operation, claim_external, checkpoint, finish, move_external_head, reclaim_external, recover_interrupted | every server component, from several processes |
| Shared claim API (`claim_api.py`) | none of its own: rows and checkpoints of the store | acquire, start, heartbeat, prepare-head, confirm-head, publish-reports, advance, decision, release | account workers (HTTP), GitHub |
| Label writer (`state_writer.py`) | none | write_labels: verify, PUT, re-read | GitHub |
| Declared HEAD transition (`head_transition.py`) | `head_publication` in the checkpoint | refresh_declared_head | claim API, reconciler |
| Expired-lease reconciler (`external_recovery.py`) | `recovery_projection` in the checkpoint | recover_external_once | store, GitHub |
| Native worker (`main.py`) | checkpoint of its event | process, keep_lease, worker | store, GitHub, the agent process |
| Discovery (`queue_discovery.py`, `task_router.py`) | scan identities | discovery cycle, routing | store, GitHub |
| Blocker recovery, timeouts (`blocker_recovery.py`, `timeout_monitor.py`, `recovery_policy.py`) | observations | re-evaluation, warnings | store, GitHub |
| Issue planning (`issue_intake.py`, `planning_*.py`, `shared_planning_publish.py`) | issue leases, prepared publications | intake, acquire, heartbeat, prepare, publish, confirm, recover | planner hosts, GitHub |
| Evidence gates (`evidence_gate.py`, `handoff_gate.py`, `terminal_policy.py`, `state_projection.py`) | none | pure decisions over comments and runs | claim API, reconciler, native worker |
| Worker clients (`claim_client.py`, `phase_host.py`, `account_worker_broker.py`, `claim_retry_journal.py`) | deadline, ownership, retry journal | acquire with retries, run with heartbeat, publish_head | claim API, over requests that are lost or late |
| Control service (`control_api.py`, `control_dispatch.py`, `control_service.py`) | receipts of ticks, dispatch cooldowns | control tick, worker dispatch | discovery, recoveries, GitHub Actions |
| Handoff reconciler and watchdog (`reconcile_handoff_state.py`, `plan_*`, their workflows) | none | scheduled repairs of labels, dispatch of QA | GitHub |

What makes it hard, and what each part must guarantee:

* **Ownership.** Two workers must never both be in force for one operation (repository,
  pull request, SHA, phase). Leases expire by the clock, are swapped by the reconciler,
  and may be presented by their old holder at any later moment.
* **Reads go stale across awaits.** A handler reads a row, awaits GitHub several times,
  and saves its copy of the checkpoint. Heartbeats, a confirmation, recovery and another
  claim's handlers run in between.
* **The label PUT is not fenced by GitHub.** Between the last check and the write there
  is an await.
* **HEAD moves under the lease**, by a declared commit of the worker, by a commit of the
  service (reports), or by someone else. Evidence is about one SHA.
* **Crashes anywhere.** A worker, a handler or the whole service stops between two
  writes; recovery decides from labels, evidence and the checkpoint whether to go
  forward or back, and must be possible again if it crashes too.
* **Several repairers.** The reconciler of leases, the recovery of blockers, the handoff
  reconciler, the watchdog, ticks and loops read, decide and write the same labels, each
  in several requests, and some of them run twice at a time.
* **Something must happen.** RUNNING must not outlive its worker for ever, a blocker not
  its cause, a published plan not its planner, and no ready work may starve.

`PROJECT.json` lists each of these hazards at the line where it bites.

## 2. Modules

| Module | Models | Composes |
|---|---|---|
| `Ownership` | the abstract promise of the store: a lock per key, leases that end once | – |
| `LeaseStore` | `state_store.py`, events and operation claims | implements `Ownership` |
| `LeaseStoreProofs` | proofs of type correctness, the safety properties, and that the store implements `Ownership` | `LeaseStore` |
| `ClaimProtocol` | claim API, label writer, HEAD transition, reconciler, workers, GitHub, for one pull request in one phase | uses `Ownership` as its store |
| `ClaimProtocolProofs` | proofs in three parts: its types, its use of `Ownership` and `OnlyDeclaredHeads`; `AdvancedOnEvidence`, `UndisturbedWorker`, `PhaseEndsOnce` and `CompletedWorkIsKept`; `RunningIsRecoverable` | `ClaimProtocol` |
| `NativeWorker` | `main.py`: the worker of the orchestrator's own process, for one pull request in one phase | uses `Ownership` as its store |
| `NativeWorkerProofs` | proofs of its types and its four safety properties, and of its use of `Ownership` | `NativeWorker` |
| `IssuePlanning` | issue intake, publication of the plan, its recovery, the publishing script, for one issue | stands alone |
| `IssuePlanningProofs` | proofs of its types and its three safety properties | `IssuePlanning` |
| `EvidenceGates` | the gates over comments and CI and the decisions of the handoff scripts, as pure operators | – |
| `HandoffReconciler` | the jobs that decide by these gates, for one pull request | `EvidenceGates` |
| `HandoffReconcilerProofs` | proofs of its types and its four safety properties | `HandoffReconciler` |
| `BlockerRecovery` | the recovery of machine blockers, its interrupted attempts, the scan that queues what it recovered, for one pull request | stands alone |
| `BlockerRecoveryProofs` | proofs of its types and its two safety properties | `BlockerRecovery` |
| `ControlTick` | ticks of the control service and the dispatch of ready work | stands alone |
| `ControlTickProofs` | proofs of its types and its three safety properties | `ControlTick` |
| `ClaimClient` | an account host with its journal, against the service reduced to one claim | stands alone |
| `ClaimClientProofs` | proofs of its types and its two safety invariants | `ClaimClient` |
| `MC...` | symmetry and constants for TLC | the module it is named after |

`ClaimProtocol` and `NativeWorker` use the actions of `Ownership`, not the tables: what
the store does beneath them is settled by the refinement `LeaseStore => Ownership`,
model-checked and proved. So time appears in `LeaseStore` as a clock and in the others as
the nondeterministic end of a lease. `IssuePlanning` has its own two tables, whose
transactions are single actions.

### LeaseStore

One action per method, because each method is one `BEGIN IMMEDIATE` transaction under
the store's lock. Every action takes the lease its caller presents as a parameter, and
any lease ever issued may be presented at any time: the callers' own bookkeeping is not
trusted. Variables are the columns. `Live`, `HoldsLease`, `Active` and `OwnsOperation`
are the `WHERE` clauses. `recover_interrupted` (at start-up) is the same update that
`claim_next` performs first, so it is not an action of its own. Two boundary conditions
are kept exactly: a lease is good while `expires > clock` and reclaimable when
`expires <= clock`.

### ClaimProtocol

A handler is a coroutine. It is modelled as a record in `call`, one per claim and kind
(`main` for the worker's requests, `beat` for heartbeats, `recovery` for the
reconciler), with the step it is at and its private copies: the binding's SHA, the
checkpoint, the route it read. One action is what happens between two awaits; two
awaited reads with nothing but checks between them are merged, because a check that
holds at the second of them held ownership at the first, and the values compared are
those of the second.

| Code | Model |
|---|---|
| `owned`, `assert_lease`, `claim_operation` | `Owned`, `HoldsLease`, `Obtains` |
| `current` | `Sees` |
| `write_labels` | `WriteVerify` (checks of lines 33-50), `Put` |
| `/acquire` | `AcquireRead`, `AcquireClaim`, `AcquireRecheck` |
| `/start` | `StartBegin`, `StartPlan`, write steps, `StartDone` |
| `/heartbeat` | `HeartbeatBegin`, `RefreshHead`, `HeartbeatCheck` |
| `/prepare-head`, push, `/confirm-head` | `PrepareHead`, `Push`, `ConfirmBegin`, `RefreshHead`, `ConfirmDone` |
| `/publish-reports` | `ReportsBegin`, `ReportsCommit`, `ReportsMove` |
| `/advance` | `AdvanceBegin`, `AdvancePlan`, write steps, `AdvanceDone` |
| `/decision`, `/release` | `Decide`, write steps, `DecisionDone`; `Release` |
| `ClaimClient.publish_head`, `_owned`, `run` | the order prepare, push, confirm; `WorkerStops`: an uncertain answer ends the worker; `Executing` |
| `recover_external_once` | `Reclaim`, `RecoverClaim`, `RecoverBoard`, `RefreshHead` or `RecoverMismatch`, `RecoverForeign` or `RecoverPlan`, write steps, `RecoverDone` |

Data are abstracted to what the protocol distinguishes: labels to six canonical routes,
comments to a trusted result per commit, CI to the set of green commits, a checkpoint to
the fields that later steps read. `StartGate` says that the evidence a phase starts from
(the previous phase's handoff or review) names one exact SHA, the one that made the
phase ready: no participant writes it for another.
`Abort` ends a handler at any step: a failed check, a GitHub error, or a restart of the
service. `WorkerStops` is the death of a worker at any moment.

#### Assumptions, each a constant

The service is not correct in every environment the code admits, and the model says so:
five constants describe the environment, the runs that pass name what they need, and for
two of them (`Attended`, `QuietPublication`) a run without it shows the behaviour that
breaks (section 3).

* `Timely`: a lease (60 minutes) does not run out while one request under it is in
  flight: a label PUT, a report commit and its record, an acquisition, a recovery pass,
  the push of a declared commit; and a worker posts results before its lease ends
  (`claim_client.py` sets its deadline before the lease's). The checks in front of a
  label PUT precede an unbounded await, and GitHub takes no precondition for it; so a PUT
  delayed past its lease would land on somebody else's work.
* `Attended`: the reconciler visits an expired claim before the next one expires, and that
  visit gets as far as taking the key or closing the claim. Between the two transactions
  (external_recovery.py:74-91) nothing is awaited, so only a crash of the service or an
  error of SQLite, which `except Exception` catches, ends it there.
* `QuietPublication`: no heartbeat is in flight across `prepare-head` and the push or
  across `publish-reports`, and a report commit that landed gets recorded.
* `EarlyRelease` (off unless said): a worker releases its claim after it started, which
  the documentation allows and which leaves RUNNING without a claim. The runs about
  RUNNING exclude it.
* `OwnerPushes` (off unless said): commits appear on the branch that nobody declared.

Not in the model: edits of labels by hand, of which GitHub gives the service no
protection; retries of `acquire` with the same request id; the read-only answers
`already_applied`; interrupted blocker projections in the reconciler.

### NativeWorker

A run is one execution of `process` under one lease, kept in `run` per lease with its
private copies: the checkpoint it was given, the result, the SHA, the labels it read. It
goes on after its lease has ended until a check stops it, so runs of several leases
overlap. The variables `status`, `lease`, `attempts`, `saved` are the events' rows.

| Code | Model |
|---|---|
| `claim_next`, `claim_operation` | `Claim`, `Begin` |
| `require_current_state` and the gates on start evidence | `Look`; `Refuse`, `Post`, `Block` and a label write when the gate raises; `Expects` is what each later step needs |
| start intent, RUNNING labels, agent | `Start`, label write, `Started`, `AgentReturns` |
| `write_native`, `write_labels` | `Project`, `VerifyBefore`, `Put`, `VerifyAfter` |
| report commit of QA | `Publish`, `CommitReports`, `Published` |
| plan of the transition | `Plan` with `Targets`, `PostQAReview` |
| handoff, policy and marker comments | `NotePosts`, `Post`; `Note` is what the search for an earlier comment identifies it by |
| labels of the next phase, dispatch | `Move`, label write, `Announce`, `Dispatch` |
| `worker`'s exception handler, `keep_lease`, shutdown, kill | `Stale`, `Refused`, `Fault`, `LosesLease`, `Shutdown`, `Crash` |

Deliveries are two events with one binding: the webhook's and the scan's for one READY
state. A result is named by the run that made it; `"reports"` is a success with report
files, `"success"` one without. The policy text of a task may change between attempts,
so each attempt may plan either of QA's two ends. The evidence gate is a
nondeterministic choice, switched by `Faults`. A prototype's path is QA's without the
policy and marker comments. The comment of the start gate (`Gate`) is posted without a
search for an earlier one, so a refusal that is tried again posts it again; `said` is
the set of what was posted, and `NoRecordTwice` speaks of the other comments only. The one assumption: no lease ends while an outward write
checked under it is in flight (`Expire`), the same as `Timely` above. Not in the model:
HTTP routes, and events that are not routed and finish as ignored.

### IssuePlanning

Variables are one issue on GitHub, what other pull requests say of it, the branch and
pull requests of its plan, the issue's row (`intake`), the row of its publication
(`pub`), and a `run` for each planner and for the service's discovery cycle.

| Code | Model |
|---|---|
| `scan_issues`, `observe_issue` | `ListIssues`, `Observe`: the issues are read before the pull requests, the rows written after both |
| dispatch, `/acquire`, `/heartbeat` | `Begin`, scan, `Claim`; scan, `Renew` |
| `/prepare-publication` | scan, `Reserve`: one intent per issue, for ever |
| `/resume-publication` | `Resume`, scan, `History`, `Take`: the takeover changes owner and lease in one transaction |
| `ensure_branch`, `ensure_pr`, `ensure_handoff` | `EnsureBranch`; `FindPull`, `CreatePull`, `CheckPull`; `Handoff`: none fenced by the lease |
| `/confirm-publication`, `verify_publication` | `Confirm`, then `Look`, `Verify`, `Put`, `Projected`, `Record` |
| `recover_publications` | `Rows`, `Recover`, then the same steps with `allow_descendant`; `Waits` until the next cycle |
| `discovery_loop` | `Cycle`, `Fail` |

A planner that lost a check, a request or its life is `GivesUp`, at any step: the script
has no second try. The revision of an issue stands for its generation hash; some
revisions are `Ready` for planners, others are not. One service cycle stands for the
discovery loop and the control tick, which call the same recovery.

Assumptions: nobody pushes or relabels while a label request is in flight (`Unfenced`);
others interfere, or a request of the service fails, at most `MaxEvents` times. Not in
the model: the reservation of one branch name by two issues, repeats of a request that
was answered, and the cooperative host (`planning_host.py`), whose monitor loop differs
from the script's heartbeats.

### EvidenceGates and HandoffReconciler

`EvidenceGates` has one operator per function of `handoff_gate.py`, `evidence_gate.py`
and the three scripts. A comment is its kind, result, commit and the second of its
creation; several comments may share a second, and ids then decide, as in the code.
GitHub numbers comments as they are made: a log is in the order of time, the pull
requests a run starts from too (`StartsAssumption`).
Early returns are the arms of a CASE, in the order of the code.

`HandoffReconciler` is one pull request with two commits and the two jobs. A job is the
record `job`: what it read, how much of the log, what it decided, and the request it is
at. `Read` reads the pull request and the comments, `Decide` the CI runs, `Check` is the
second look that a write is conditional on; then come the marker comment (`Mark`), the
labels (`Put`), the dispatch of QA (`Dispatch`) and its note (`NoteDispatch`). `Fail`
loses a run of a job at any request. The environment
posts comments (late ones about the earlier commit too), pushes, relabels and runs CI
between any two requests.

### BlockerRecovery

| Code | Model |
|---|---|
| `recover_blockers_once`: labels, observation | `Look` |
| evidence, claim under the request id of labels and evidence | `Decide`: a second pass with the same id joins the row; `Claims` |
| second look, `write_labels` with its audit | `Live`, `Before`, `Put`, `After` |
| last look, audit of the machine | `Final` |
| a failed request, a dead process | `Fail` |
| expiry and `external_recovery.py` for an interrupted projection | `Expire`, `Reclaim`, `Reconcile` |
| `scan_once` and `candidate` with `queue_generation` | `Scan`, `Item` |
| workers, watchdog, people | `Works`, `Relabel`, `Evidence` |

The evidence of a pull request is a generation; `Good` are those whose decision allows
QA (`EvidenceGates` says which comments those are). HEAD stands. The database writes of
one step are atomic. A worker appears with what a recovery can meet: its key and its
labels. No attempt lasts longer than its lease of an hour.

### ControlTick

A handler of the control service serves a wake-up: `Wake` claims it, `BeginStep` and
`EndStep` run its steps, `EndSteps` and the `Dispatches` run `dispatch_ready`, and
`Record` writes the receipt if the lease is still the one that was claimed. `Expire` ends
a lease at any time, so a tick may outlive it and its delivery be claimed again. The loop
of `control_service.py` is a runner of dispatches, too. A lease is told apart by its
epoch, as the code tells it apart by its expiry time. The lease is looked at before a
step only, so the step that a tick was in when its lease ended may run beside the steps
of the tick that replaced it: `LatestTickSteps` is about who begins a step. What a step does is in the other
modules. `dispatch_ready` after the last step is not fenced by the lease, in the code and
here. The cooldown of 600 s is exactly `Cooldown` rounds of the loop; a round takes 60 s
and the time of its requests, so the ten rounds of the code are an upper bound. A failure
of `discover` (control_dispatch.py:143), which ends a round behind the planners' keys, is
not modelled.

### ClaimClient

Time counts in units of 15 s: the timeout of a request is one, the interval of heartbeats
and the margin two. `Attempt`, `Answered` and `Fail` are the acquisition with its journal;
`Beat` and `Finish` the monitor, the final heartbeat and `advance`; `Crash` the death of
the host, after which another one reads the journal. A request may be lost, handled
with its answer lost, or stay in `late` and be handled after the host gave it up. The
service is who holds the claim, how long the lease runs, and which requests it has rows
for. One host runs at a time. A sleep takes any time. The clock of the host
and that of the service are one clock: claim_client.py:51-52 gives skew and latency as the
reason of the margin, and only the latency is in the model, so `WorkFitsLease` is for a
skew of nothing.

Not in the model: two host processes with one worker id and one journal. They get the same
request and the same lease and both execute, which the documentation excludes by
convention (docs/shared-claim-protocol.md:276-277).

## 3. Runs

Every run finishes in a few minutes with two workers; the largest has about two million
distinct states.

| Run | Instance | Shows |
|---|---|---|
| `lease_store` | 1 native event, 2 external claims, 2 keys, 3 leases, clock 0..3, lease time 2 | `TypeOK`, `WorkingClaimOwnsItsKey`, `ExternalNeverQueued`, `ImplementsOwnership` |
| `claim_review` | code review, 1 commit, 2 claims, 3 leases | two claims competing, one recovery: `RunningIsRecoverable`, `UndisturbedWorker`, `PhaseEndsOnce`, `CompletedWorkIsKept` |
| `claim_heads` | prototype, implementation, repair and QA, 2 commits, 1 claim, 3 leases | HEAD moved by a declared commit or by reports, with two recoveries: `RunningIsRecoverable`, `AdvancedOnEvidence` |
| `claim_outsider` | repair, 3 commits, 1 claim, 2 leases, undeclared pushes, early releases | `OnlyDeclaredHeads` |
| `claim_liveness` | code review, 1 commit, 1 claim, 3 leases, fairness | `RunningEnds` |
| `native_worker` | QA, 2 events, 3 leases, 2 attempts, every fault | `TypeOK`, `HandedOff`, `UndisturbedRun`, `NoRecordTwice`, `ResultIsKept` |
| `issue_planning` | 2 revisions, one of them ready, 2 planners, 2 pull requests, 1 interference or failure, fairness | `NeverReplanned`, `CompletedByOwner`, `ReadyIsReserved`, `AbandonedIsConfirmed` |
| `handoff_jobs` | 2 commits, 8 starts, 2 moves of the environment, 1 lost run, fairness | `ReviewedByHistory`, `QAOnlyReviewed`, `OwnerWaitEarned`, `HumanDecisionsStay`, `ReviewIsFollowed`, `QAIsDispatched`, `JobsSettle` |
| `blocker_recovery` | 1 pass at a time, 3 generations of evidence, 2 moves, 1 failure, fairness | `RecoveredIsQueued`, `UndisturbedWorker`, `RowsEnd`, `BlockerClears`, `RecoveredIsTaken` |
| `blocker_passes` | 2 passes, 1 generation, nothing else moves | that `RecoveredIsQueued` does not hold of two passes |
| `control_tick` | 2 handlers, 2 deliveries, 1 step, 2 wake-ups, 2 keys of which one fails always, cooldown 2, 1 crash, fairness | `LatestTickSteps`, `ReceiptsStand`, `DuplicatesBounded`, `NobodyStarves` |
| `claim_client` | lease 7 units, cap 4, 2 attempts, 4 losses, crashes or competitors, 6 uuids, fairness | `WorkFitsLease`, `RetryBudget`, `WorkGetsDone` |

The type invariants of the modules whose runs do not name them were checked with the same
configurations; the runs keep to the properties that say something of the code.
`ReviewedByHistory` compares the gates with a reference definition: the code picks
comments by time and id, `Review` reads the log from first to last.

Bounds. Three leases give a claim, its recovery, and either a competitor or a second
recovery; a fourth adds a repetition of one of these. Two commits are the HEAD before and
after one publication; a second publication starts from the state in which the first is
applied, which is the state before it up to names. The clock of `LeaseStore` runs over
one and a half lease times, so a lease can expire, be renewed at its last instant and be
swapped at its first expired one. In `native_worker` three leases are an attempt, its
successor under the same event and one of the other delivery. In `issue_planning` two
planners are an owner and the one that takes over, two pull requests allow a second one
after the first was closed, and one interference changes the issue, the pull request, the
labels, the branch or another pull request at any step; the safety properties also hold
with two. In `handoff_jobs` two moves are a comment and what makes it late or stale; the
eight starts are the situations the decisions tell apart. In `blocker_recovery` three
generations are evidence that allows QA before and after one that does not; `MaxRows` (5)
is never reached, and the properties also hold with three moves and one failure, and with
two and two. In `control_tick` two wake-ups are a tick and the one that replaces it, and
one key that fails is less than the cooldown of two rounds. In `claim_client` the six
uuids never run out; the lease exceeds the cap and the margin as in the code, with the
ratios shortened; the properties also hold with three attempts. Deadlock is not checked
because all these systems stop by design: leases are used up, the phase ends, a planner
makes one attempt, the environment has made its moves.

Symmetry is used for leases, claims, events and keys, which no definition names; not in
the runs with fairness.

Fairness of `ClaimProtocol` (`FairSpec`): a handler in flight takes its next step or ends, since its
requests have timeouts; the discovery cycle calls the reconciler again and again; a
worker that declared a commit pushes it or gives up; a lease that nobody renews for ever
expires (strong fairness, since `Timely` delays expiry now and then). No worker is
assumed to finish, and no request to succeed. `RunningEnds` then says what recovery is
for: a pull request leaves RUNNING whatever its worker does, as long as the model still
has a lease for the next attempt.

Fairness of `IssuePlanning`: the discovery loop goes on, since it catches what its
actions raise and waits at most its interval; a lease that nobody renews runs out.
Planners owe nothing. `AbandonedIsConfirmed` then says what the recovery is for: a plan
whose pull request stays as published is confirmed, though its planner is gone.

Fairness of `HandoffReconciler`: the jobs are scheduled workflows, so each takes its steps
again and again; lost runs are bounded. Of `BlockerRecovery`: the passes and the scan are
iterations of one loop that catches what they raise; every iteration also visits the rows
of interrupted attempts, hence strong fairness of `Reclaim`; a worker takes what is
queued and ends, the clock goes on. Of `ControlTick`: only the loop goes on, as ticks are
wake-ups that may never come. Of `ClaimClient`: hosts are restarted, sleeps end, time
passes, and the reconciler of the service visits expired claims; losses are bounded.
Nobody is assumed to answer in time.

### Disagreements found

The run `blocker_passes` checks the sentence "Applied recovery creates a fresh native queue
generation" of docs/workflow-recovery-acceptance.md:132-133. It takes two services on one database: `main.py`, whose discovery
loop recovers blockers and scans (queue_discovery.py:71-74), and the control service, whose
loop and ticks recover and never scan (`native_queue=False`, control_service.py:94, asserted
by `test_active_controller_never_enqueues_work_without_executor`). The code lets them share
one: control_service.py:59-60 takes `CONTROL_STATE_DB` or `STATE_DB`, the variable of
config.py:17, and docs/control-service-predeployment.md:17 asks for a "Durable shared SQLite
path; never independent databases for competing workers". The request id is made of labels
and evidence, so the second pass joins the row and lease of the first; after the first has
written the labels, the second finds them changed and finishes the shared row. The first
fails the check after its write, no applied audit is written, the generation stays as it
was, and the scan of `main.py` takes the item of the recovered QA for one that was
processed. With two passes `UndisturbedWorker` fails as well. A tick and the loop of the
control service alone join in the same way and lose the audit; nothing scans there.
`blocker_recovery` has one pass at a time, as has `main.py` when it runs alone.

More statements of the documentation or of comments do not hold in the environment that
they are silent about. Each can be seen with the modules, by a configuration that differs
from the passing one as given:

* `claim_review` with four leases, `Attended = FALSE`, `QuietPublication = FALSE`,
  `RunningIsRecoverable`: a claim acquired and never started, and a started one that
  replaced it, expire together; the recovery of the first holds the key while it fails,
  so the second is closed as superseded and RUNNING is orphaned.
* `claim_review` with six leases, and `Abort` allowed to a recovery between
  `reclaim_external` and the taking of the key whatever `Attended` is,
  `RunningIsRecoverable`: a recovery stops between the two; another claim starts on the
  free key and its lease runs out; the next recovery of the first claim takes the key, the
  second claim is closed as superseded and RUNNING is orphaned. The counterexample has 24
  states, and came from the proof: the three leases of the run do not reach it.
* `claim_heads` with the repair phase only, two leases, `QuietPublication = FALSE`,
  `RunningIsRecoverable`: a heartbeat that began before `prepare-head` and reads
  HEAD after the push closes the live claim.
* `claim_heads` with QA only, two leases, `QuietPublication = FALSE`: when recording a
  report commit failed, the retry that the comment claim_api.py:295-297 promises is
  refused by the HEAD check in front of it (line 267).
* `native_worker` with the prototype phase and `Faults = {"request", "process"}`: a start
  intent lets one delivery resume from RUNNING, also when another delivery of the same
  READY state made it and already has a result; the agent runs twice and two handoffs
  are posted.
* `native_worker` with `Phases = {"deploy"}`, one event, one attempt, no faults: the labels after
  a successful deployment are the running labels (task_router.py:95-96), so the worker
  takes the transition for applied and never hands over (main.py:514).
* `blocker_recovery`: a queue item made by a person while the recovery holds the key is
  failed and lost; a person's edit after a label request whose answer was lost is taken for a foreign change and
  the row closed without an audit. `RecoveredIsQueued` speaks of labels that a pass
  wrote last.
* `control_tick` with as many always-failing keys as rounds of the cooldown (ten): keys
  behind them starve.
* `claim_client` with `Cap = 3`: a cap of the deadline that does not exceed interval and timeout lets a host drop
  its finished work again and again. The code's cap (120 s against 45 s) does.

Further disagreements met while reading: docs/shared-workflow-cutover.md:21 says that shared
mode invokes no GitHub dispatch, and the control service dispatches
(`dispatch_ready`); docs/shared-claim-protocol.md still gives a lease of 180 s, the code
60 minutes; the legacy watchdog runs also when `CONTROL_WORKFLOW_MODE` is unset
(agent-watchdog.yml:20), where docs/worker-rollout-gates.md:23 promises shared mode; a malformed
handoff of a trusted author raises in `handoff_gate.py:120`, where
`decide_reconciliation` skips it.

Situations of the same kind are listed as hazards without a property, or are too
small for the list:

* A worker that moved HEAD and died leaves a pull request that recovery returns to READY
  of the same phase, at a HEAD where the start gate refuses every worker
  (external_recovery.py:155). A planner that dies between opening the pull request and
  posting its handoff leaves one of that kind too (shared_planning_publish.py:275).
* A QA worker that records a result for its own report commit and dies leaves a claim
  that is reclaimed for ever. A release after start leaves RUNNING to the owner
  (claim_api.py:422).
* A repeated `decision` is refused after the first was applied (claim_api.py:345). A
  confirmation repeated after the prototype took the pull request is refused, though it
  is documented as idempotent (planning_publication.py:193). The cooperative planning host's
  heartbeat fails once the pull request it published exists (planning_host.py:38).
* A refusal of the start gate whose label write failed, or whose process died, is tried again
  and posts its comment again (main.py:336): `NoRecordTwice` without the exception for
  `Gate` is violated in the run `native_worker`.
* A checkpoint written after a publication drops the transition an earlier attempt
  recorded (main.py:424); `QA_FINAL_SHA_CI_PENDING` counts against the retries
  (main.py:575).
* A late acquisition that is handled after the host gave up leaves a claim that nobody
  works for until its lease ends; so does a crash between the answer and its use, after
  which the next request is stale. An `advance` whose answer is lost is reported as a
  lost lease although the server finished.

## 4. Proofs

All theorems hold for every value of the constants that the named assumptions of a
module allow. Each is an inductive invariant, checked by TLC first, and one lemma per
action. Fields of a record that an action changes are stated once, in lemmas named for
what happens to a run (`Continued`, `WasStopped`, `Went`), which the steps cite.

`LeaseStoreProofs`, for all sets of deliveries, keys and leases, every lease time and
retry table:

* `TypeCorrect`: `Spec => []TypeOK`.
* `WorkingClaimSafe`, `ExternalNeverRunNatively`: the two safety invariants.
* `FinishedStaysFinished`: no step changes the status or the checkpoint of a finished event.
* `StoreImplementsOwnership`: `Spec => Abstract!Spec`.

The argument is one inductive invariant. `WorkingClaimOwnsItsKey` alone is not
inductive: the step of another claim may take the key of a claim whose row is live but
whose claim row names a lease never issued. So the invariant adds that every lease in the
tables was issued, that a lease is held by one delivery only, that a claim row names the
lease of its delivery or one that has ended, and that external rows are never queued.
Freshness of a new lease then implies that it joins to nothing. The refinement proof
shows, per action, which abstract action it is; a tick of the clock is `End` of the set of leases
whose last instant it passes, and `ClaimNext` is an `Issue`.

`ClaimProtocolProofs`, for all sets of claims, leases and commits, every phase and every
value of the five environment constants:

* `TypeCorrect`: `Spec => []TypeOK`.
* `UsesOwnership`: `Spec => Own!Spec`: the service is a client that its store's lock admits.
* `DeclaredHeadsOnly`: the action property `OnlyDeclaredHeads`.

The invariant is about copies, since every handler carries a binding and a checkpoint that
it read earlier. A row is bound to a commit that exists, and a publication is prepared only
while its worker has nothing to do but to push and confirm it. `RecoveryOK`: a recovery has a
lease of its own, and while it holds the claim nobody else can save. `CopyOK`: a heartbeat
or a confirmation about to follow HEAD carries the publication that the row has, or the
claim has moved on from the commit it starts from, and no later publication leads back.
The last part is what `OnlyDeclaredHeads` needs: `move_external_head` takes the target from
the handler's copy, not from the row. One lemma per action says what it leaves (`Outcome`);
most follow from three general ones, for a handler that goes on with its copies
(`Settled`), one that begins with the row (`Started`), and one that follows HEAD
(`FollowedOn`).

Its second part, about the same model and its pull request, for all sets of claims,
leases and commits and any `Attended` and `EarlyRelease`:

* `EvidenceAdvances`, `WorkerUndisturbed`: the invariants `AdvancedOnEvidence` and
  `UndisturbedWorker`.
* `EndsOnce`, `CompletedWorkKept`: the action properties `PhaseEndsOnce` and
  `CompletedWorkIsKept`.

They assume `Favourable`, the environment that the runs of these properties have too: a
lease outlives the write that passed its last check of it (`Timely`), the owner of the
branch does not push, and in the phases that publish no heartbeat straddles a publication
(`QuietPublication`). Section 2 says why each part is assumed. The theorems reach further than the runs: any
number of competing claims in the phases that move HEAD, which TLC explores with one.

None of the four is inductive: each says where the pull request is, and who may move it
next is in the copies of handlers. `RInv` adds to the invariant of the first part,
per claim (`WorkOK`):

* `LeaseOK`: a lease is used by one claim, and a worker whose lease is in force owns the
  key of the commit its claim is bound to. Two workers in force are therefore bound to
  different commits, and one of them is not bound to HEAD.
* `MainOK`, `RecoveryHolds`, `BeatOK`: the copy of a handler whose lease still holds the
  claim is what the row says, or is older by a followed commit and will not be judged by it.
* `RowEvidence`, `CallsOK`: a route recorded in a checkpoint, or about to be written, was
  earned by the commit the copy names (`Evidence`, `WriteOK`), and a write in flight has
  what its last check found (`Landing`): its keys, HEAD at its commit, the route it read.
* `Declaring`, `Publishing`, `PubOK`: between the declaration of a commit and its
  registration the claim has the pull request for itself, and no other claim is bound to
  the commit or about to be.

Landing is the centre. A write in flight owns HEAD's key and the projection key, so of all
writes, pushes and report commits there is one at a time, and it meets the route it
read: this is `PhaseEndsOnce` and `CompletedWorkIsKept` at once, and the step of the other
three. For the claims that a step is not about, one lemma each says what keeps
them: the step moves neither HEAD nor labels and frees no key of theirs (`OthersSpared`), or
nothing of theirs depends on HEAD and the labels (`OthersAside`).

The third part, for all sets of claims, leases and commits and every phase:

* `RunningRecoverable`: the invariant `RunningIsRecoverable`.

It assumes `Attentive`: `Favourable`, `Attended`, and no release after a start
(`EarlyRelease` off). A RUNNING claim is lost when it is finished without a write of labels:
released, given up by its acquisition, refused at the start, or closed by a recovery that
finds HEAD moved or the key with somebody else. `RunInv` adds to `RInv` what excludes each:

* `OwnersInForce`: the owner of a key is a lease that has not ended.
* `StartOK`: a worker that declares or publishes has started, and only a start whose
  plan is recorded writes RUNNING.
* `FreshOK`: a claim that its worker or its acquisition may still give up has recorded
  nothing.
* `CheckOK`: a recovery that judges the pull request has followed the declared commit.
* `LooseOK`: one unfinished claim at a time is without its key, and either its lease has
  ended or its recovery is about to take the key.
* `StandOK`: while RUNNING, some claim is `Standing`: it recorded a start, follows HEAD,
  and its key is free or its own, and its own whenever an acquisition may take one.

`LooseOK` is where `Attended` enters, and why it speaks of the visit's second transaction
too: two claims without their keys can each take the key the other needs.

`NativeWorkerProofs`, for all sets of deliveries and leases, every phase, bound on
attempts and set of faults:

* `TypeCorrect`: `Spec => []TypeOK`.
* `SavedResultIsKept`: the action property `ResultIsKept`.
* `RecordsPostedOnce`: the action property `NoRecordTwice`.
* `UsesOwnership`: `Spec => Own!Spec`, as for the service.
* `HandoffBeforeLabels`, `WorkUndisturbed`: the invariants `HandedOff` and `UndisturbedRun`.

The first invariant is `TypeOK /\ RunsOK /\ SavedIsRun`. `RunsOK` says per step of a run which
of its fields are set, which `TypeOK` leaves open and the type of a label or comment
written from them needs. `SavedIsRun` relates two copies of one thing: the run that holds
an event's lease has the result that is in the event's row. Without it a run in force
might save over a result it does not know of. A run without the lease cannot save at all,
and a run that resumes starts with what the row has. For `RecordsPostedOnce` the invariant
grows by `Owned`, the types of the abstract lock, and `Posting`: a run about to post has a
lease in force that owns the operation, and what it posts has not been said, unless it is
the gate's comment. The second is
preserved because only one lease owns the operation, and a lease does not end while its
post is in flight; that is where the assumption in `Expire` enters the proof.

`HInv` leads from a label written back to the comments it needed. A checkpoint with a
transition has the result the transition follows from, and one with a new review is saved
only after HEAD left the event's SHA (`CheckpointOK`, `ResumesOK`). A run at a comment
or at the labels has said what comes before it, for the SHA it works for (`NotesOK`), and
while it writes labels, what they need is said (`Earned`). The labels of a refused start
need the gate's comment, which the run posted before its second look. A request that is writing
labels still has its lease (`Putting`). A commit that somebody else pushes is assumed to be another commit than the
event's (`NullAssumption`: with one SHA for both, a push "back" would make the comments of
an old review about the new HEAD). `UInv` adds `UndisturbedRun` itself: labels move away
from RUNNING by a run that has the lease, or after the result was handed over.

`IssuePlanningProofs`, for all sets of planners, revisions and pull requests, and any
number of interferences:

* `TypeCorrect`: `Spec => []TypeOK`.
* `NeverPlannedAgain`, `CompletedByItsOwner`, `ReadyAsReserved`: the three safety properties.

The invariant adds three things to the types. `Publication`: the branch carries the
reserved plan or none, and a pull request implies the branch. `Owners`: a planner that
has not started owns nothing, a planner that verifies read itself as the owner, and while the
recovery verifies, no live lease is that of the owner it read. Per run, `Sched`, `Planned`
and `Dealt`: what a run will do next agrees with where it is, it carries the reserved
plan, and the pull request it deals with exists. `CompletedByOwner` needs `Owners`,
because the last transaction compares the owner that the run read, not the run.

`ControlTickProofs`, for all handlers, deliveries, steps, keys and cooldowns:

* `TypeCorrect`; `LatestSteps` and `ReceiptsAreTrue` for the action properties
  `LatestTickSteps` and `ReceiptsStand`; `DispatchesBounded` for the invariant
  `DuplicatesBounded`.

`LiveIsLatest` (a delivery whose claim lives has the latest epoch) and `Progress` (how
many steps a handler has done, from where it is) suffice for the first two. The bound on
dispatches counts: what was sent of a key plus what is being sent is at most one per runner
and crash, and a key that is due again was sent only before the last crash. The steps
move a runner from one cardinality to the other.

`ClaimClientProofs`, for all attempts, leases, margins, caps, intervals within the margin,
timeouts and cooldowns:

* `TypeCorrect`; `WorkWithinLease` and `AttemptsBounded` for the invariants
  `WorkFitsLease` and `RetryBudget`.

`Owned` is the heart: while a request is asked, the wait fits in what is left to the
deadline and the deadline and margin in the lease; between heartbeats the time to the next is less
than the lease, and a deadline that still runs leaves the margin. `NoStrayAdvance`
excludes that an advance given up earlier ends the claim under its host, and rests on the
journal: only a request never acquired is resumed. `Budget` relates failures to the attempts
that the journal recorded before they were made.

`HandoffReconcilerProofs`, for all commits, starts, gaps and bounds, and logs of any length:

* `TypeCorrect`: `Spec => []TypeOK`, with the order of the log in time.
* `GatesReadHistory`: the invariant `ReviewedByHistory`.
* `QAReadyReviewed`, `OwnerWaitIsEarned`, `HumanDecisionsKept`: the action properties
  `QAOnlyReviewed`, `OwnerWaitEarned` and `HumanDecisionsStay`.

The gates compare the newest comments of some kinds; the reference reads the log from its
first comment to its last and remembers whether a review stands. That the two agree is
a lemma about every ordered log, by induction over its prefixes. No induction theorem
with an operator parameter can be cited, so it is done by the least length of a prefix
about which the two disagree: `LeastExists` takes it from the well-founded order of finite
intervals, and its last comment then refutes it. The invariant of the jobs is
`JInv`: what a job is about to write was `Earned` by the part of the log it read and, if
the reconciler writes it, `Keeps` the blocks and waits in the labels it read. `Earned` is
about what was read and not about the log as it is: a review that arrives between reading
and writing may take the ground from a write in flight, and the next run repairs it.

`BlockerRecoveryProofs`, for all bounds:

* `TypeCorrect`: `Spec => []TypeOK`, for any number of passes at a time.
* `RecoveredQueued`, `WorkerUndisturbed`: the invariant `RecoveredIsQueued` and the action
  property `UndisturbedWorker`, under `Alone`: one pass, that of the discovery loop.

`PassesTyped` is all the types need: a pass with a row has one that was claimed. For the
other two the invariant is `BInv`, which TLC checked first. `KeysOK`: a row that owns a
key is in force, and a key of a phase is with a row about that phase. `PassOK`: the row of
a pass runs and has what the pass read, and at its write the pass has both keys, so that
no worker starts under it; this is `UndisturbedWorker`. `AuditsOK`: a row that is still
running has no audit of an end, so the audit at its end makes a new generation. `WorkerOK`: an idle
worker owns nothing. `PendingOK` leads from the labels a recovery wrote to what will queue
them: an item, a generation without one, the worker that took the item, or a row that is
`Obliged` to be reconciled, because no worker has its phase. `RecoveredIsQueued` follows
from it, and it is not inductive without the others: a row could end
with an audit it has already, which makes no generation, and the item of the recovered QA
would count as one processed before. Two
passes break `PassOK` and both theorems, which is why `Alone` is assumed
(`blocker_passes`).

Every invariant and every action property of a passing run is thereby stated by a theorem.
Model-checked only: liveness, which is outside the prover's reach as is `ENABLED`
(`RunningEnds`, `AbandonedIsConfirmed`, `ReviewIsFollowed`, `QAIsDispatched`, `JobsSettle`,
`RowsEnd`, `BlockerClears`, `RecoveredIsTaken`, `NobodyStarves`, `WorkGetsDone`), and what two
passes of the blocker recovery do.

## 5. Not modelled, and what is left

* `workbuddy_runner.py` and `adapters.py` run an external agent and read its files; they
  keep no protocol state. HTTP, configuration, transport and static checks are pure
  functions or I/O. `timeout_monitor.py` records observations that nothing acts on.
* The parsing of comments, the route of a task number, and the resolution of the terminal
  policy: data the properties do not tell apart. A malformed comment of a trusted author
  is left out.
* Two hosts with one journal, two issues that reserve one branch, and several candidates
  at a time: one task, issue and pull request at a time stands for all, since rows and
  keys are per task.
* No module composes the planner, the claim service and the native worker into one
  pipeline; the two hazards without a property are of that kind: a phase leaves what
  the start gate of the next does not accept. The pieces to compose are the gates
  (`StartGate` of `ClaimProtocol`, `EvidenceGates`) and the ends of each phase.
