# TLA+ models of PHarness

PHarness is an SDLC control plane: an API process with a SQLite store drives
WorkItems through automatic stages, each carried out by a worker Job or by an
agent host outside the cluster, releases the result through a GitOps
repository, and (in its Campus part) hands out lab workspaces to students. Its
hard parts are small distributed protocols over that store. These are modelled
here:

| module | what it is |
| --- | --- |
| `HostedController` | the hosted workflow controller: claims, operations, dispatch, locks, controls |
| `OperationLocks` | abstract: operations sent once, under all their locks; implemented by `HostedController` |
| `HostedProduction` | its production half: gate, GitOps write, runtime windows, rollback, completion |
| `ReleaseContract` | abstract: one release, judged, taken back or completed; implemented by `HostedProduction` |
| `CampusLab` | Campus lab sessions: journal, slots, leases, reconciler, provider contract |
| `LabSlots` | abstract: exclusive slots; implemented by `CampusLab`, used by `CampusAdmission` |
| `CampusProvider` | the Kubernetes provider of lab workspaces, call by call |
| `CampusContract` | abstract: what a provider promises; implemented by `CampusProvider` |
| `CampusAdmission` | launch, stop and reset of labs, idempotency keys and limits, over `LabSlots` |
| `CampusJanitor` | the janitor's pass, quarantines and the slot registry |
| `AgentLease` | agent hosts, their leases, the Runs behind them and the host process |
| `HostSlots` | abstract: one stage per host, ordered stages on one host; implemented by `AgentLease` |

`MC<module>` holds values and views for TLC, `<module>Proofs` the theorems that
TLAPS checks. Paths below are relative to `src/crates/`.

## 1. Inventory

### Hosted workflow controller

*State.* One `hosted_reconciliations` row per WorkItem (control, control
version, next due time, claim owner, claim fence, claim expiry, unchanged
checks, observed hash), `hosted_operations` (one row per automatic action and
input), `hosted_operation_locks` (resource key to operation). Read but not
owned: Runs, decisions and `work_items.closed_at`.

*Operations.* `claim_due_workflow`, `begin_workflow_operation`,
`record_workflow_operation`, `release_pending_workflow_locks`,
`finish_workflow_reconciliation`, `set_workflow_control`
(`pharness-store/src/sqlite/hosted_controller.rs`), called by a scheduler that
every 15 s services what is due (`pharness-api/src/app/hosted_controller/`).

*Interactions.* A pass claims a WorkItem for 60 s, loads a snapshot, and either
reconciles the active operation or begins the next one, takes its locks,
records the dispatch boundary and calls the repo-mode stage executor. The
executor writes Runs and decisions with no fence of the claim; a background
task then creates the worker Job, whose outcome comes back over HTTP. The
operator pauses, resumes and cancels.

*Hard.* A pass can outlive its claim; a process can die between any two
writes; a lost answer does not say whether the Job exists; a control can
arrive in the middle of a pass; locks outlive claims on purpose.

*Correct means.* No operation is sent twice; a live Run holds its locks, so
only one coding Run exists; cancellation is final; a paused workflow starts
nothing; every ended Run is reconciled and frees its locks; nobody starves.

### Hosted production

*State.* The approval gate and deployment intent of one proposal, the
operations `promote_approved_release` and `observe_production_release` with
their locks and references, the artifacts of admission, commit receipt and
window result, the rollback authority in the intent; at Kubernetes one writer
and one reader Job, at GitHub the branch.

*Operations.* `gate::decide`, `production::next` and `reconcile`,
`delivery::reconcile`, `runtime::reconcile`, `rollback::after_window`,
`observe::finish`, the callbacks `attempt`, `plan` and `outcome`, and the
writer's `Transport::run` (`pharness-worker/src/staging_gitops.rs`).

*Hard.* The one mutation may be applied, refused or lost, and its answer too;
the writer may die before, between and after; a pass is cut after any durable
write; approval, operation and rollback run out at any step; the operator stops
work meanwhile; the branch moves.

*Correct means.* A release that no window has judged is not given up, and an
admitted one is followed up; while a commit can still arrive its locks are held; what the records say of the end is what production
runs; a failed window is answered.

### Campus lab sessions

*State.* `campus_sessions_journal` (state, generation, desired state, slot and
slot generation, failure), `campus_lab_slots` (occupant, occupancy generation),
`campus_lab_slot_holds`, `campus_session_operations` (kind, session generation,
status, lease owner, lease expiry, fence), and at the provider the resources of
each workload and the workloads it was told to delete.

*Operations.* The journal's transitions, leases and stop requests
(`pharness-store/src/sqlite/campus_journal.rs`), one step of a session
(`pharness-store/src/campus_driver.rs`), the sweep
(`pharness-api/src/app/campus/labs.rs`), and the provider's `provision`,
`observe`, `delete`, `list_owned` (`pharness-core/src/campus_lab_session.rs`).

*Interactions.* A sweep reads the clock once, lists the expired, the steppable
and the blocked sessions, and steps each of them: load, transition (which may
begin a leased operation), provider call, record under lease and generation.

*Hard.* Several workers; provider calls that outlive their lease; a `now` that
is as old as the sweep; crashes between call and write; provision requests that
arrive after the teardown; stops that race launches; blocked cleanups.

*Correct means.* A terminal session leaves nothing behind and nothing comes
back; two workloads never share a slot; an early stop wins; leases are
respected and a superseded worker writes nothing; every session ends.

### Campus provider, admission and janitor

*State.* Per slot namespace: anchors and tombstones (one ConfigMap name per
workload), broker token Secrets, Jobs. Per lab: current session, reset request,
generations; per student: launch keys. The janitor's tracker and holds.

*Operations.* `provision` and `delete` of `KubernetesCampusProvider`
(`pharness-core/src/campus_lab_session/kubernetes.rs`);
`admit_campus_lab_launch` and the reset queries
(`pharness-store/src/sqlite/campus_admission.rs`) with their handlers
(`pharness-api/src/app/campus/lab_handlers.rs`);
`reconcile_campus_lab_orphans` (`pharness-store/src/campus_teardown.rs`).

*Hard.* A stale provision races the delete of its workload and the next
occupancy; tombstones are pruned; a handler reads, then writes in a transaction
of its own; the sweep admits resets it listed earlier; the janitor acts on an
old inventory.

*Correct means.* Nothing of an earlier occupancy runs, and what is left of it
goes; a lab has one live session, a reset replaces a session once, a key is
answered with one session, limits count the places kept for resets and every
reset is settled; the janitor spares the living and frees its quarantines.

### Agent hosts

*State.* `agent_hosts` (lifecycle), `agent_leases` (state, owner, pin, expiry),
the Run of each lease, and the lease file on the host's disk.

*Operations.* `claim_next_agent_lease`, heartbeat, mark running, pause,
complete, abandon, `pause_expired_agent_leases`
(`pharness-store/src/sqlite/agent_execution.rs`), their handlers and the
monitor (`pharness-api/src/app/agent_hosts.rs`), the service and executor of
`pharness-codex-host`.

*Hard.* A lease and its Run are written in two steps; a lease runs out while its
host still works; a host dies with a file on disk; lifecycle changes are decided
on states read earlier.

*Correct means.* The stages of a workspace stay on one host and never overlap;
a host's slot is free only after its Run has a result; a result is final; a
retired host owns nothing; a lost lease pauses its Run.

### Other parts

`PROJECT.json` lists every part with its sources and, for those without a
module, the reason. See also section 10.

## 2. Plan

1. `HostedController` (done): safety, liveness, inductive invariant and the
   refinement of `OperationLocks` proved.
2. `CampusLab` (done): the same, and the refinement of `LabSlots` proved.
3. `CampusProvider` against `CampusContract` (done), `CampusJanitor` (done).
4. `CampusAdmission`, composed with `LabSlots` (done).
5. `AgentLease` against `HostSlots` (done).
6. `HostedProduction` against `ReleaseContract` (done).
7. Left: source delivery, build and staging, which share the shape of
   `HostedProduction` (one writer Job, one admission, a receipt) without its gate
   and rollback; the production proposal; broker requests and terminals against
   the session journal; the order and batch of the sweep's lists.

Every safety property and every refinement the runs check is proved
(section 11); left to TLC is what holds under fairness.

## 3. HostedController

`rec`, `status`, `locks` are the three tables; `runs`, `created`, `closed` what
the executor wrote; `jobs` the worker Jobs; `pc`, `claim`, `snap`, `target` a
process inside a pass; `launches` background launch tasks, lost with their
process.

Each action is one transaction or one executor write. `ReconcileOnce` claims
and loads; `AdvanceBegins` begins an operation and takes its locks;
`RecordRunning` records the boundary; `ExecutorAdmits`, `StartRun`,
`CompleteStartup`, `ApplyDecision`, `NoContinuation`, `ExecutorFails` are the
executor; `RecordExamined`, `RecordBlocked` its results; `ReconcileWaits`,
`ReconcileTerminal`, `ReconcileLive`, `RecoverPlannerStartup`,
`CompleteDeferredStartup`, `DeferredStartupFails`, `FinalizationFails` the
reconciliation of an active operation; `Finish` ends a pass. Around them: `SetWorkflowControl`,
`LaunchJob`, `LaunchLost`, `RunStarts`, `RunReports`, `RunReaped`,
`CloseWorkItem`, `AbandonPass` (the 45 s timeout), `Crash`, `Tick`.

Abstractions, and why they are sound:

- Time is relative (`due`, `until` count down), so the clock needs no bound.
- The read of the active operation and the begin are one step: begin is fenced
  and checks the row again.
- The predecessor check at `operations.rs:81` cannot fail for a snapshot that
  offered the continuation. The status `preparing` is folded into `running`.
- `checks` stops at `MaxChecks`; only the comparison with it is used.
- With `PassesStall` a pass may go on after its own timeout, which a suspended
  process does; the deployed instance has one process (`replicas: 1`, strategy
  Recreate in the chart) and passes that end by their timeout.
- A blocked planner operation is not retried automatically
  (`repo_mode/actions.rs:153-161`), so no liveness property claims it.

| run | instance | shows |
| --- | --- | --- |
| `hosted_stale_owner` | 1 WorkItem, 2 processes, stalls, planner startup | `ImplementsOperationLocks`, `AtMostOneRun`, `LiveRunsHoldTheirLocks`, `CancellationIsFinal`: a replaced owner is fenced everywhere it matters, and the recovery of a half-started planner and the stalled original share one Run |
| `hosted_deployed` | 2 WorkItems, 1 process | `OneCodingRun`, `NothingStartsWhileStopped`, `EveryItemIsServed`; the last rests on each pass re-arming its own item, not on the order of the query |
| `hosted_liveness` | 1 WorkItem, 3 stages, 1 crash | `TerminalRunIsReconciled`, `CancelledFreesPendingLocks` |

`OperationLocks` says what claims, fences, passes and recoveries are for: an
operation gets all the locks it needs in one step and from nobody, is sent once
and only with all of them, and gives them up together, never while what it sent
is alive. `ImplementsOperationLocks` maps the lock rows to `holder`, operations
with a Run or a decision to `sent`, those with a live Run to `live` and the
succeeded ones to `over`. A blocked operation keeps its locks, in the code
as in the abstraction.

*Bounds.* Two processes are enough for a replaced owner, two WorkItems for a
contended lock. A lease of one tick can run out between any two steps of a
pass; with two ticks it cannot within a timely pass. `MaxLag` bounds how late a
due item may be claimed, `MaxFaults` counts crashes, abandoned passes and
failed loads and finalisations: one falls at every step of a pass. The views identify states that differ only in
the absolute value of fences, versions and hashes, which are only ever compared
for equality with their row and only grow; symmetry is used for safety only.

*Fairness.* Weak fairness of each process's pass (`scheduler.rs:18-24` loops
until the process exits, and the chart restarts it) and of the clock. No
fairness of operators, of workers' outcomes or of crashes: the properties are
about a Run that has ended, not about Runs ending.

## 4. HostedProduction

`control`, `gate`, `decided`, `deployment` are what the operator decides; `op`,
`locks`, `dispatched`, `bound`, `projected`, `result`, `item` the records of the
controller; `base`, `attempt`, `commit`, `window` the artifacts; `writer`,
`orphans`, `reader`, `reports` the Jobs and their requests on the way; `sent`,
`head`, `landed` GitHub. The branch is the number of commits on it and which of
the two writes are among them, so `Image` is what production pins.

Every durable write is an action. `Decide`, `DecideGate`, `DecideDeployment` are
`gate::decide`; `Begin`, `ReleasePending`, `Start`, `Dispatch` the way to a
dispatched operation; `CreateWriter`, `BlockUnadmitted`, `BlockUnconfirmed`,
`DispatchReader`, `CreateReader` the reconciliation of a write; `CloseWindow`,
`RecordWindow`, `BlockInconclusive` that of a window; `BindRollback`,
`DispatchRollback`, `FinishRollback`, `SettleRollback` the rollback; `Complete`
the end. `PostPlan`, `Ask`, `Watch`, `Send`, `Report`, `WriterEnds`,
`ReaderEnds`, `CollectJob` are the Jobs; `Attempt`, `AttemptOrphan`, `Outcome`
their callbacks; `Apply`, `OtherCommit`, `Expire`, `Interrupt` GitHub, others,
the clock and a cut pass.

Handlers, callbacks and passes hold `DISPATCH_BOUNDARY`, so they do not
interleave, but a pass ends after any write. Most passes are resumed from what
they recorded, and then one action per write is enough. Three are not: the
decision (its artifact is written once), the reader's dispatch, and the rollback
authority, which contains the time of its pass. For these `pass` holds the rest
of the pass, and `Interrupt` loses it.

Abstractions: the proposal is recorded, its staging evidence stays verified and
the workflow policy unchanged, so the checks of them pass; the operational mode
permits writes and rollbacks; the claim and its fence are those of
`HostedController` and a pass is not superseded; the scheduler's wait expiry only
removes optional steps; the bounded identity reads of a rollback end verified or
not; a window passes, fails or is inconclusive at will. `MayWrite` covers both
`validate_current`s.

| run | instance | shows |
| --- | --- | --- |
| `hosted_production` | 3 writer Jobs per delivery, foreign commits up to head 3 | `UnjudgedReleaseStaysOpen`, `AdmittedReleaseIsFollowedUp`, `WritesAreLocked`, `ProductionMatchesTheRecord`, `KeepsTheReleaseContract`, `RegressionIsAnswered` |

`ReleaseContract` is one release without Jobs, callbacks and clocks: production
changes once and only under an approved gate, each window judges it once and in
order, it changes back once and only after a failed window, it is given up only
before it happened, and the WorkItem ends on what production runs.
`KeepsTheReleaseContract` maps the commits that landed on the branch to the
image, the recorded window results to the verdicts, and a promotion that was
blocked before any window to a release that was given up.

What a lost writer leaves is stated in two halves. `AdmittedReleaseIsFollowedUp`:
once it is gone, its commit is receipted or the one reader is dispatched while the
operation has time, also when the workflow is stopped, and a receipted commit is
judged. It says no more, because the code does not: a pass cut between the
reader's dispatch and its Job, a reader that fails, or one that looks before the
commit lands uses up the only look-up (`production/delivery.rs:586-613`), and the
release then runs without a window until the writer's own late report.
`UnjudgedReleaseStaysOpen`: in that state the promotion is still running, its locks
are held and its WorkItem is open, so that nothing is delivered on top of it.

*Bounds.* Three Jobs let a writer be replaced twice while requests of the lost
ones are on their way; others push before, between and after the two commits.

*Fairness.* Weak fairness of the reconciler's steps and of a decision under way,
and the rollback's clock runs out. Nothing is assumed of Jobs, GitHub or the
operator. The system may stop, at the gate or when blocked, so deadlock is not
checked.

*Finding.* `RegressionIsAnswered` has an exception, `Wedged`. `rollback::prepare`
writes an authority stamped with `now()` into the deployment intent and then
records the dispatch (`production/rollback.rs:262`, `308-337`). A pass that ends
in between leaves an authority no later pass reproduces; each is refused
(`rollback.rs:304`), the failed window is not answered and the locks stay,
although the scheduler says "The next owner must reconcile the exact persisted
identity" (`scheduler.rs:94`). Without the exception the property fails.

*Finding.* Its other exception is stopped control: a rollback is not prepared
while the workflow is paused or cancelled (`rollback.rs:167`), its writer is not
created (`rollback.rs:198`) and neither planned nor admitted
(`rollback.rs:459-461`), and a test asserts it
(`app/tests/hosted_staging/production.rs:1635`). The operator who stops the
workflow is told that "already-authorized release recovery continue"
(`control.rs:38-41`). A workflow that is cancelled with its failed window
unanswered keeps the candidate; without this exception the property fails too.

## 5. CampusLab and LabSlots

`lab`, `slot`, `held`, `op` are the tables, `left`, `until`, `retry` their times
relative to the clock, `res`, `fenced`, `stray` the provider, and the rest a
worker inside its sweep. `lag` is how old the sweep's `now` is.

`BeginSweep`, `ListSteppable`, `ListBlocked`, `EndSweep` are the sweep;
`Load` and `LoadBlocked` start a step; `StartOrDrop`, `Admit`, `AdmitWaits`,
`AbandonProvision`, `Lease`, `StopReady`, `Observe`, `Clean`, `NothingToDo`,
`StaleCopy` its first transaction; `ProviderProvision`, `ProviderObserve`,
`ProviderDelete`, `ConfirmTeardown` the calls; `RecordProvisioned`,
`RecordObserved`, `RecordDeleted`, `ReleaseLease` the last transaction.
`CreateSession`, `RequestStop`, `HoldSlot`, `ReleaseHold` come from handlers, the
janitor and the slot registry; `StepFails`, `Crash`, `LoseWorkspace`,
`StrayProvision` are failures; `Tick` is the clock.

`LabSlots` says what all of this is for, in five actions: a session takes a free
slot once, its workspace runs only in that slot, and the slot is handed on only
when nothing of it is left, for good. `ImplementsLabSlots` maps the occupants of
the slot rows, the sessions with resources and the terminal sessions to it.

Abstractions, and why they are sound:

- A session takes a slot at most once (the journal's trigger forbids a second),
  so it is its own workload (session, slot, slot generation). Of its operations
  only the one begun last can be pending.
- The provider is its documented contract with nondeterministic faults, not one
  implementation. An error may hide a created workspace or a request still on
  its way; a delete that did not end well may have fenced or removed or not. A
  late delete is left out: its workload is being torn down anyway.
- The read of the pending operation and its lease are one step, and so are the
  load and the stop on expiry: the later transaction repeats the check.
- A failed list query ends that list; a `Crash` in the sweep covers it.
  `MAX_STEPS_PER_SESSION` (8) is more than any session can step in a row, and
  `SWEEP_BATCH` (200) is not reached by the instances, so the order of the lists
  does not matter to the model.
- Teardown hooks are folded into `ConfirmTeardown`; production registers none.
- The backoff is any wait up to `BackoffTicks`, which covers 30 s doubled up to
  600 s. Holds may come and go at any time, which covers janitor and registry.
- `central_authority` is always true in the reconciler, so the denial of an
  authorised session does not occur. Observed state and events are display and
  audit data. A restarted process has a new worker id; dropping its lease and
  copy under the old name has the same effect.
- The triggers of migration 0058 are a second line of defence; the properties
  are shown without them.

| run | instance | shows |
| --- | --- | --- |
| `campus_slot_reuse` | 2 sessions, 1 slot, 2 workers, 1 fault | `ResourcesHoldASlot`, `OneWorkloadPerSlot`, `ImplementsLabSlots`, `StoppedNeverLaunches`, `LeasesAreRespected`, `SupersededWritesNothing` |
| `campus_liveness` | 2 sessions, 1 slot, 1 worker, 1 fault | `EverySessionEnds` |
| `campus_late_write` | 1 session, 1 worker | a counterexample to `ExpiredLeaseWritesNothing` |

*Bounds.* Two sessions and one slot make the slot change hands, two workers race
on it. A lease and a lag of one tick let a lease run out during a provider call,
by the clock and by the worker's `now`, separately. The fault falls at every
step. Times saturate where no comparison tells them apart.

*Fairness.* Weak fairness of each worker (`labs.rs:503-515` sweeps until the
process exits) and of the clock. Handlers, holds and faults have none; faults
are finitely many, since a provider that is down for ever ends no session.

*Finding.* The driver's documentation says a worker whose lease expired has its
write rejected (`pharness-store/src/campus_driver.rs:16-18`, and
`pharness-store/src/sqlite/campus_journal.rs:15-16` for calls that outlive
their lease). The expiry is compared with the sweep's one `now`
(`pharness-api/src/app/campus/labs.rs:505`, `214-220`), so a worker that waited
past its lease still completes its operation unless somebody leased it again.
`campus_late_write` shows it. It does no harm: `SupersededWritesNothing`
holds, since a takeover raises the fence, and a late provision is refused by
the provider once a delete was sent.

## 6. CampusProvider and CampusContract

One slot's namespace, one step per call to the Kubernetes API server. A workload
is its slot generation; `cm`, `made`, `secret`, `owner`, `job` are its objects,
`gen`, `revoked`, `freed` what the journal knows. `StartProvision` to `UndoJob`
are `provision` (fence check, anchor, token, Job, second look), `StartDelete` to
`AnswerDeleted` are `delete` (tombstone, Secrets, Jobs, second listing, pruning).
`Occupy`, `Revoke`, `ConfirmTeardown` are the journal, `CollectJob`,
`CollectSecret`, `JobGone` the cluster, `CallFails` a lost call or worker.

`CampusContract` is what the journal relies on: a fenced workload never comes to
life again and a delete is answered only when nothing of it is alive.
`ImplementsContract` counts a Job as alive when its anchor is. That is the exact
promise the code keeps: a stale provision can still create a Job or a Secret of
an ended session, but only under an anchor that is gone, so the garbage
collector removes it (`OnlyTheOccupantRuns`, `TornDownStaysClean`).

| run | instance | shows |
| --- | --- | --- |
| `provider_reuse` | 2 calls at once, 2 occupancies, 1 failure | `OnlyTheOccupantRuns`, `ImplementsContract`, `TornDownStaysClean` |

*Fairness.* Calls that were started go on, the garbage collector works, and the
janitor deletes again and again what the provider still owns (strong fairness:
a call needs a free caller). The two occupancies are enough for a pruned
tombstone; deadlock is not checked because the occupancies are bounded.

## 7. CampusAdmission

`current`, `reset`, `lab`, `from`, `keyed` are the tables of labs, generations
and launch keys, `stop` the stop requests; `req` a handler between its read and
its transaction; `todo`, `at` the reconciler's pass over waiting resets. The
sessions' lives (`holder`, `live`, `gone`) are those of `LabSlots`, composed by
INSTANCE: what `CampusLab` implements, admission uses.

`Launch`, `Reset`, `Stop` read; `Admit` and `StopIn` are the transactions, with
the verdicts of `admit_campus_lab_launch` in its order; `ListResets`,
`TakeReset`, `AdmitReset`, `ClearReset`, `SweepFails` the reconciler; `Enrol`
memberships, `HoldSlot` held slots, `Expires` the end of a session's time.

| run | instance | shows |
| --- | --- | --- |
| `admission_race` | 1 lab, 3 sessions, 2 requests at once, 1 key | `OneLiveSessionPerLab`, `ReplacedOnce`, `OneSessionPerKey` |
| `admission_limits` | 2 labs of 2 students, 1 course place, 1 slot | `PlaceIsKept`, `ResetsAreSettled` |

*Bounds.* Three sessions are a launch, its reset and one more that collides with
both. Ids are bounded, so one is kept back for every reset that may still be
admitted (`Spare`).

*Fairness.* Sessions that are asked to stop end (`EverySessionEnds` of
`CampusLab`); the sweep lists again and again. Strong fairness of the steps of
the reset pass: a failed sweep aborts it, and it is assumed not to fail at the
same step for ever.

## 8. CampusJanitor

One pass is `ListOwned`, `Classify`, `HoldOrphan` and `DeleteOrphan` per orphan,
`ListHolds`, `ReleaseHold` per slot, `SyncSlots`; `PassFails` ends it at any
step and `Restart` loses the tracker and may configure other slots. `Leftover`
is a provider that left resources of an ended session, which `CampusProvider`
shows to be possible. Sessions step between passes, as in the code, where the
janitor runs at the end of a sweep in the same task.

| run | instance | shows |
| --- | --- | --- |
| `janitor` | 3 sessions, 2 slots, 3 faults, 2 configurations | `SparesTheLiving`, `NothingIsPlacedNextToAnOrphan`, `LeftoversGo`, `QuarantineIsLifted` |

*Fairness.* Weak fairness of the pass. Faults are finite. `NothingIsPlacedNextToAnOrphan`
holds until the slots are configured anew: a slot that was retired while an
orphan was in it loses the quarantine's hold and comes back without one until
the next pass (`pharness-store/src/sqlite/campus_teardown.rs:98-129`).

## 9. AgentLease

A lease and its Run are a pair of workspace and stage. `state`, `owner`, `pin`,
`fresh` are the lease, `run` the Run's status, `host` the lifecycle; `calls`
holds the second write of a handler that writes lease and Run in turn, `listed`
what the monitor selected, `decided` lifecycle changes checked and not yet
written; `pc`, `file`, `resumed` the host process.

`StartBuilder`, `ContinueChain` queue; `Claim`, `ClaimLost`, `Start`, `Context`,
`ReportPreparation`, `MarkRunning`, `Heartbeat`, `ReportOutcome`,
`PauseForQuota`, `CompleteLease`, `RemoveFile`, `PauseAndExit`, `CrashHost`,
`CallFails` are the host; `FinishCall`, `SelectExpired`, `PauseExpired`,
`RestartApi` the API; `CancelRun`, `AbandonLease`, `DecideHost`, `SetHost` the
operator; `Expire` the clock.

Abstractions: a completed Run always continues its chain (repairs and outcomes
other than success end it earlier); a host has one slot; the preparation record
is written in one step; enrolment, policy and capability snapshots are left out.
A crashed host takes its execution with it: the runner container is a child of
the service, whose unit leaves systemd's default of ending the whole control group
(`deploy/codex-host/pharness-codex-host.service`), and in Kubernetes the execution
is the service process. A container that outlives its service, and with it a
second executor of the same lease, is outside the model.

| run | instance | shows |
| --- | --- | --- |
| `lease_stages` | 1 workspace, 2 stages, 2 hosts, 1 crash or lost answer, 1 API restart, 2 lifecycle changes | `ImplementsHostSlots`, `StagesDoNotOverlap`, `RetiredOwnsNothing`, `TerminalRunIsFinal`, `PausedIsNeverResumed`, `LostLeasePausesItsRun` |

`HostSlots` keeps of all this the hosts and their slots: a host serves one stage
at a time, a workspace stays on the host of its first stage, a stage is served
once and after the one before it, and a retired host serves nothing.
`ImplementsHostSlots` maps the owner of the first stage to the workspace's home,
leases that are claimed, running or paused to stages served (a paused lease keeps
its slot), closed and abandoned leases to stages that are over.

*Fairness.* The monitor passes and the second write of a pause. Hosts,
operators and the clock have none.

*Finding.* A paused lease is meant to be resumed by the same host
(`planning/active/PHarness-Portable-Codex-Agent-Host-and-Subscription-Reliability.md:51-52`),
but a host that starts with its file first asks for the context, which goes
through `heartbeat_agent_lease`, and that accepts claimed and running leases
only (`sqlite/agent_execution.rs:707-711`). The process exits, is restarted by
systemd and refused again: `PausedIsNeverResumed` states and proves it.

## 10. Observations without a run, and what is not modelled

Met while modelling; the models contain them, no property calls them wrong:

- The provider prunes tombstones between a stale provision's generation check
  and its anchor (`kubernetes.rs:1051`); the anchor it then creates is found by
  the janitor. A Secret or Job can be created after the delete was answered
  (`kubernetes.rs:661-692`, `1311-1335`), under a dead anchor.
- A reset that the student cancelled after the sweep listed it may still be
  admitted (`labs.rs:257`); a reset may be answered 202 and not recorded when
  its session ends in between (`lab_handlers.rs:517`).
- An API that stops between pausing an expired lease and pausing its Run never
  pauses that Run (`agent_hosts.rs:164-178`); `LostLeasePausesItsRun` excepts it.
  A failed preparation under way replaces a cancelled Run's result
  (`runs.rs:213-221`). A quota pause keeps the host's slot until an operator
  abandons the lease (`executor.rs:185`).
- A production decision that is cut after its artifact leaves a pending gate
  whose approval is refused for ever (`production/gate.rs:270-279`); it can
  still be rejected. A promotion that was started and not dispatched keeps the
  production and GitOps locks once it is cancelled or out of time
  (`production.rs:206-222`).
- Endless control changes of one WorkItem can starve another: each makes it due
  at once. `EveryItemIsServed` excepts it.

Not modelled: source delivery, build, staging and the production proposal
(planned, section 2); the operator-driven Repo Mode path, pod and Job
manifests, event and evidence payloads (only what the modelled parts read of
them is in the models); terminals and sign-in; the worker and agent runtime (one
sequential process each, whose nondeterminism is a model's text); policy and
command classification, prompts, context and submissions (text); products,
onboarding, data lifecycle, inference clients, CLI, evaluation, configuration,
UI and charts (record keeping, I/O, presentation). These are most of the
repository's lines: the modules stand for its protocols, not for its bulk.

## 11. Proofs

The proof modules prove their theorems for every value of the constants, from
the named assumption of each component (bounds and timing constants are numbers,
`Nil` is none of the ids, sets that are counted are finite). Each inductive
invariant was checked by TLC on the runs' instances before it was proved.

`HostedControllerProofs`: `TypeCorrect`, `Invariant`, `LocksOutliveClaims`,
`CodingIsExclusive`, `NeverSentTwice`, `CancelledStaysCancelled`. The safety
properties are not inductive: that a live Run has its locks needs that an
operation past its boundary has them (`DispatchedHoldsLocks`), that a process
that began an operation under a claim it still holds finds it pending and locked
(`BegunIsPending`), and that only one process is between the boundary and the
executor's first write (`OneDispatcher`), because those writes are not fenced.
Each action is read once, as a move of an operation's status, Run and locks
(`OpMoves`); the parts of `IInv` follow from the moves and from the fact that a
claim, once lost, is never won back.

`LocksImplemented`: under `IInv` every action is one step of `OperationLocks` or
none. Only a begin takes locks (`BeginTakes`), only a stop's release or a recorded
success gives them back (`ReleaseYields`, `RecordSucceeds`), and every write that
makes a Run, the recovery's included, finds its operation locked and not yet sent
(`CreateSends`, `StartSends`, `RecoverSends`).

`OneProcessStops`: `NothingStartsWhileStopped`, under the assumption that there is
at most one API process, which is what the chart deploys; with two it is false,
since a control waits only for the dispatch boundary of its own process. The
additional invariant `Undisturbed` says that a process on its way to a start still
sees the control it claimed under, and that this control is active.

`HostedProductionProofs`: `Invariance`, `UnjudgedStaysOpen`,
`UnsettledWritesAreLocked`, `RecordsMatchProduction`. `IInv` orders the traces of
a write (admission, mutation, commit, report, receipt: `Traces`), ties windows to
receipts and a blocked promotion without a window to a missing admission
(`Windows`), and the rollback to the one operation whose window failed
(`RollbackOwned`); the properties follow without further induction.
`ReleaseContractKept` is the refinement: a commit landing is the release or its
restoration (`ApplyChangesProduction`), a recorded window a judgement
(`WindowJudges`), and the two ends of the WorkItem find the image they name
(`ItemEnds`); all else leaves the contract's state alone.

`CampusLabProofs`: `TypeCorrect`, `Invariant`, `SlotsAreConsistent`,
`TerminalMeansClean`, `SlotsAreNotShared`, `StopWins`, `LeasesAreKept`,
`SupersededIsFenced`, `LabSlotsImplemented`. That a terminal session has no
resources needs that an answered delete left the workload fenced and empty until
it is recorded, that nothing exists for a session that was never launched, and
that sessions and slots agree (`IInv`). Each action is read once as a move of
sessions and slots (`SlotMoves`), of the provider (`ProviderMoves`), of the
workers and of the operations; each move is a step of `LabSlots` or a stutter.
`LeasesAreKept` holds because a sweep's `now` is never ahead of the clock: a
lease that is over for it is over.

`CampusProviderProofs`: `Invariance`, `OccupantRuns`, `ProviderRefines`. Occupancies
follow one another, each revoked before it is fenced and fenced before it is
freed (`Ordered`); an anchor that a stale provision writes for a fenced workload
is barren, since nothing refers to it and no call past its token does
(`Barren`). So a Job under a live anchor belongs to the occupant, and the
refinement of `CampusContract` follows step by step.

`CampusAdmissionProofs`: `Invariance`, `OneSession`, `ResetOnce`, `KeyedOnce`,
`PlacesAreKept`. Only the admission transaction writes the rows the invariant
relates; the other steps change requests or end sessions. `PlaceIsKept` is a
statement about counts: a lab takes a place of its student, its course and the
tenant when it has a live session or waits for a reset, so the places of a
set of labs are the sum of both (`PlacesIn`). A session that ends moves its lab from one
count to the other or out, and an admission adds at most its own lab, to sets
that had room (`RoomMeans`, `PlacesMove`). The lemma `SessionsFollowTheSlots`
shows that the composed sessions follow `LabSlots`, which `LabSlotsImplemented`
proves of the journal.

`CampusJanitorProofs`: `Invariance`, `LivingAreSpared`, `NothingNextToAnOrphan`.
What a pass found is over for good, because sessions do not come back; with one
configuration every orphan whose slot was marked stays behind a hold.

`AgentLeaseProofs`: `Invariance`, `OneHostPerWorkspace`, `ResultsBeforeRelease`,
`RetiredHostsAreFree`, `ResultsAreFinal`, `PausedStaysPaused`,
`HostSlotsImplemented`. A lease file names a
lease of its host (`FilesAreOwned`), a later stage is pinned to the host of the
first (`PinsAreInherited`), a host has one active lease (`OneLeasePerHost`). The
refinement of `HostSlots` needs one invariant more, that a stage is queued only
when the one before it was claimed (`Preceded`); then a claim is the abstract service
of a free host, and only `CompleteLease` and `AbandonLease` end one.

*Only model-checked.* The liveness properties (`TerminalRunIsReconciled`,
`CancelledFreesPendingLocks`, `EveryItemIsServed`, `AdmittedReleaseIsFollowedUp`,
`RegressionIsAnswered`, `EverySessionEnds`, `TornDownStaysClean`, `ResetsAreSettled`, `LeftoversGo`,
`QuarantineIsLifted`, `LostLeasePausesItsRun`): fairness is out of the prover's
reach. `ExpiredLeaseWritesNothing` is false, and the run shows it.
