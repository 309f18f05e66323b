-------------------------- MODULE HostedController --------------------------
(***************************************************************************)
(* The hosted workflow controller: durable reconciliation rows with        *)
(* leased, fenced claims; one external operation per WorkItem at a time;   *)
(* resource locks that outlive claims; pause, resume and cancel.           *)
(*                                                                         *)
(* One step of an API process is one store transaction or one executor     *)
(* write, so a crash, a 45 s pass timeout or another process can fall      *)
(* between any two of them.  A pass first claims and loads (both in        *)
(* ReconcileOnce: the load only reads), then does its steps, then Finish.  *)
(*                                                                         *)
(* Time is relative: due is next_due_at - now and until is claim_until -   *)
(* now, both in ticks, so the clock itself needs no bound.                 *)
(***************************************************************************)
EXTENDS Integers, Sequences, FiniteSets

CONSTANTS
    WorkItems,      \* hosted WorkItems
    Processes,      \* API processes; the chart runs one (replicas 1, Recreate)
    Nil,            \* SQL NULL
    Chain,          \* the automatic actions a WorkItem goes through, in order
    RepositoryOf,   \* the repository lock key of each WorkItem
    LeaseTicks,     \* claim lease (60 s)
    WaitTicks,      \* CONTROLLER_WAIT_INTERVAL_MS (15 s)
    MaxChecks,      \* CONTROLLER_WAIT_MAX_CHECKS (240)
    PassesStall,    \* a pass may outlive its own 45 s timeout (suspended process)
    MaxLag,         \* bound: how many ticks late the scheduler may claim
    MaxFaults       \* bound: crashes and abandoned passes

WorkerActions   == {"start_planner", "authorize_stage_chain", "continue_stage"}
ApprovalActions == {"approve_work_plan", "approve_change_set"}
Positions == 1..Len(Chain)
OpIds     == WorkItems \X Positions
LockKeys  == {"coding"} \cup {RepositoryOf[w] : w \in WorkItems}

ASSUME ConstantsAssumption ==
    /\ Chain \in Seq(WorkerActions \cup ApprovalActions)
    /\ LeaseTicks \in Nat \ {0}
    /\ WaitTicks \in Nat \ {0}
    /\ MaxChecks \in Nat
    /\ PassesStall \in BOOLEAN
    /\ MaxLag \in Nat
    /\ MaxFaults \in Nat
    /\ Nil \notin Processes
    /\ Nil \notin OpIds

VARIABLES
    rec,        \* hosted_reconciliations, one row per WorkItem
    status,     \* hosted_operations.status; "none" is no row
    locks,      \* hosted_operation_locks: the operation that holds a key
    runs,       \* the durable Run (or decision) an operation dispatched
    created,    \* how many Runs (or decisions) were created for an operation
    closed,     \* work_items.closed_at is set
    pc,         \* where each process is in its reconciliation pass
    claim,      \* the claimed row as the process read it
    snap,       \* the Snapshot the pass loaded
    target,     \* the operation the pass works on
    launches,   \* background spawn_run tasks, lost with their process
    jobs,       \* worker Jobs that exist, by deterministic name
    faults      \* crashes, abandoned passes and failed calls so far

vars == <<rec, status, locks, runs, created, closed, pc, claim, snap, target,
          launches, jobs, faults>>
store == <<rec, status, locks>>
world == <<runs, created, closed, jobs>>

-----------------------------------------------------------------------------
Controls   == {"active", "paused", "cancelled"}
OpStates   == {"none", "pending", "running", "blocked", "succeeded"}
LiveRun    == {"partial", "queued", "running"}
RunStates  == {"none", "completed", "failed"} \cup LiveRun
Terminal   == {"completed", "failed"}
PassSteps  == {"advance", "begun", "dispatch", "admitted", "startup", "examined",
               "deferred", "reconcile", "failed", "finish"}

Action(o) == Chain[o[2]]
RunsWorker(o) == Action(o) \in WorkerActions

\* The locks an operation takes: the one global coding slot and its repository.
ResourceKeys(o) ==
    IF RunsWorker(o) THEN {"coding", RepositoryOf[o[1]]} ELSE {}

Held(o) == {k \in LockKeys : locks[k] = o}

\* active_workflow_operation: the unfinished operations of a WorkItem.
ActiveOps(w) ==
    {o \in OpIds : o[1] = w /\ status[o] \in {"pending", "running", "blocked"}}

\* What Snapshot::load reads and hashes of one WorkItem.
Snapshot(w) == [closed |-> closed[w],
                runs   |-> [i \in Positions |-> runs[<<w, i>>]],
                ops    |-> [i \in Positions |-> status[<<w, i>>]]]

\* An automatic action is ready when its predecessors completed and nothing
\* was started for it yet (derive_repo_actions, continuation_candidate).
Ready(s, i) ==
    /\ ~s.closed
    /\ s.runs[i] = "none"
    /\ \A j \in 1..(i - 1) : s.runs[j] = "completed"

\* Mutant: any unexpired claim passes, whoever holds it.
FenceLeaseOnly(p) == rec[claim[p].item].until > 0

\* fence_claim: the row still belongs to this exact, unexpired claim.
FenceClaim(p) ==
    LET r == rec[claim[p].item]
    IN  /\ r.owner = p
        /\ r.fence = claim[p].fence
        /\ r.until > 0
        /\ r.version = claim[p].version
        /\ r.control = claim[p].control

NoClaim == [item |-> Nil, fence |-> 0, version |-> 0, control |-> "active",
            expired |-> FALSE]

Goto(p, step) == pc' = [pc EXCEPT ![p] = step]

\* The pass is over: the process drops what it had read.
EndPass(p) ==
    /\ Goto(p, "idle")
    /\ claim' = [claim EXCEPT ![p] = NoClaim]
    /\ snap' = [snap EXCEPT ![p] = Nil]
    /\ target' = [target EXCEPT ![p] = Nil]

\* An error inside advance: nothing is written, the pass goes on to Finish.
PassError(p) ==
    /\ Goto(p, "finish")
    /\ UNCHANGED <<store, world, claim, snap, target, launches, faults>>

-----------------------------------------------------------------------------
\* Scheduling.

\* Mutant: a closed WorkItem is never claimed again.
EligibleWhileOpen(w) == ~closed[w]

Eligible(w) == ~closed[w] \/ ActiveOps(w) # {}

Claimable(w) == rec[w].due <= 0 /\ rec[w].until <= 0 /\ Eligible(w)

\* claim_due_workflow: the most overdue claimable row, with a new fence.
ClaimDueWorkflow(p, w) ==
    /\ Claimable(w)
    /\ \A v \in WorkItems : Claimable(v) => rec[w].due <= rec[v].due
    /\ rec' = [rec EXCEPT ![w].owner = p, ![w].fence = @ + 1, ![w].until = LeaseTicks]

ReconcileOnce(p) ==
    /\ pc[p] = "idle"
    /\ \E w \in WorkItems :
        /\ ClaimDueWorkflow(p, w)
        /\ claim' = [claim EXCEPT ![p] =
              [item |-> w, fence |-> rec[w].fence + 1, version |-> rec[w].version,
               control |-> rec[w].control,
               expired |-> rec[w].checks >= MaxChecks /\ rec[w].hash = Snapshot(w)]]
        /\ snap' = [snap EXCEPT ![p] = Snapshot(w)]
    /\ Goto(p, "advance")
    /\ UNCHANGED <<status, locks, world, target, launches, faults>>

\* Mutant: a finished pass leaves its row due.
FinishWithoutRearm(p) ==
    IF FenceClaim(p)
    THEN rec' = [rec EXCEPT ![claim[p].item].owner = Nil, ![claim[p].item].until = 0]
    ELSE UNCHANGED rec

\* finish_workflow_reconciliation: refused for a superseded or expired claim,
\* which then stays as it is until its lease runs out.
FinishWorkflowReconciliation(p) ==
    LET w == claim[p].item
    IN  IF FenceClaim(p)
        THEN rec' = [rec EXCEPT ![w].due = WaitTicks, ![w].owner = Nil, ![w].until = 0,
                       \* only checks >= MaxChecks is ever asked
                       ![w].checks = IF rec[w].hash = snap[p]
                                     THEN IF @ < MaxChecks THEN @ + 1 ELSE @
                                     ELSE 0,
                       ![w].hash = snap[p]]
        ELSE UNCHANGED rec

Finish(p) ==
    /\ pc[p] = "finish"
    /\ FinishWorkflowReconciliation(p)
    /\ EndPass(p)
    /\ UNCHANGED <<status, locks, world, launches, faults>>

\* Snapshot::load fails: before advance, so the pass finishes without a hash,
\* or when the executor's result is loaded.
LoadFails(p) ==
    /\ faults < MaxFaults
    /\ faults' = faults + 1
    /\ pc[p] \in {"advance", "examined", "reconcile"}
    /\ snap' = [snap EXCEPT ![p] = IF pc[p] = "advance" THEN Nil ELSE @]
    /\ Goto(p, "finish")
    /\ UNCHANGED <<store, world, claim, target, launches>>

-----------------------------------------------------------------------------
\* advance: the existing operation first, then a new one.

Stopped(p) == claim[p].control # "active" \/ claim[p].expired

\* Nothing to do: closed, stopped, waiting for evidence, or already reconciled.
AdvanceWaits(p) ==
    /\ pc[p] = "advance"
    /\ ActiveOps(claim[p].item) = {}
    /\ \/ snap[p].closed
       \/ Stopped(p)
       \/ \A i \in Positions :
            Ready(snap[p], i) => status[<<claim[p].item, i>>] = "succeeded"
    /\ PassError(p)

\* Mutants: the claim is not fenced; a lock that is held is taken over.
MayBeginUnfenced(p, o) ==
    /\ claim[p].control = "active"
    /\ ActiveOps(o[1]) \subseteq {o}
    /\ \A k \in ResourceKeys(o) : locks[k] \in {Nil, o}

MayBeginTakesOver(p, o) ==
    /\ FenceClaim(p)
    /\ claim[p].control = "active"
    /\ ActiveOps(o[1]) \subseteq {o}

\* What begin_workflow_operation checks inside its transaction.  A pending
\* operation that released its locks must get the same set again.
MayBegin(p, o) ==
    /\ FenceClaim(p)
    /\ claim[p].control = "active"
    /\ ActiveOps(o[1]) \subseteq {o}
    /\ status[o] \in {"none", "pending"}
    /\ Held(o) \in {{}, ResourceKeys(o)}
    /\ \A k \in ResourceKeys(o) : locks[k] \in {Nil, o}

\* begin_workflow_operation: the operation and all its locks, in one commit.
BeginWorkflowOperation(o) ==
    /\ status' = [status EXCEPT ![o] = "pending"]
    /\ locks' = [k \in LockKeys |-> IF k \in ResourceKeys(o) THEN o ELSE locks[k]]

\* The operation this pass would begin, or begin again after an interruption.
Candidate(p, o) ==
    /\ o[1] = claim[p].item
    /\ Ready(snap[p], o[2])
    /\ \/ ActiveOps(o[1]) = {} /\ status[o] = "none"
       \/ ActiveOps(o[1]) = {o} /\ status[o] = "pending"

\* The workflow's authority, its approval or its stage profiles do not allow
\* the ready action.
AdvanceRefused(p) ==
    /\ pc[p] = "advance"
    /\ ~Stopped(p)
    /\ ActiveOps(claim[p].item) = {}
    /\ \E o \in OpIds : Candidate(p, o)
    /\ PassError(p)

AdvanceBegins(p) ==
    /\ pc[p] = "advance"
    /\ ~Stopped(p)
    /\ \E o \in OpIds :
        /\ Candidate(p, o)
        /\ MayBegin(p, o)
        /\ BeginWorkflowOperation(o)
        /\ target' = [target EXCEPT ![p] = o]
    /\ Goto(p, "begun")
    /\ UNCHANGED <<rec, world, claim, snap, launches, faults>>

\* A held lock, a lost claim or a pending action that is no longer ready.
AdvanceConflicts(p) ==
    /\ pc[p] = "advance"
    /\ ~Stopped(p)
    /\ \/ \E o \in OpIds : Candidate(p, o) /\ ~MayBegin(p, o)
       \/ \E o \in ActiveOps(claim[p].item) :
            status[o] = "pending" /\ ~Ready(snap[p], o[2])
    /\ PassError(p)

\* Mutant: a cancelled workflow keeps its locks.
KeepsWhenCancelled(p) ==
    /\ pc[p] = "advance"
    /\ Stopped(p)
    /\ \E o \in ActiveOps(claim[p].item) :
        /\ status[o] = "pending"
        /\ locks' = IF FenceClaim(p) /\ claim[p].control # "cancelled"
                    THEN [k \in LockKeys |-> IF locks[k] = o THEN Nil ELSE locks[k]]
                    ELSE locks
    /\ Goto(p, "finish")
    /\ UNCHANGED <<rec, status, world, claim, snap, target, launches, faults>>

\* release_pending_workflow_locks: a stopped workflow gives up the locks of an
\* operation that never reached its dispatch boundary.
AdvanceReleasesPending(p) ==
    /\ pc[p] = "advance"
    /\ Stopped(p)
    /\ \E o \in ActiveOps(claim[p].item) :
        /\ status[o] = "pending"
        /\ locks' = IF FenceClaim(p)
                    THEN [k \in LockKeys |-> IF locks[k] = o THEN Nil ELSE locks[k]]
                    ELSE locks
    /\ Goto(p, "finish")
    /\ UNCHANGED <<rec, status, world, claim, snap, target, launches, faults>>

-----------------------------------------------------------------------------
\* execute_operation: record the boundary, then call the stage executor.

\* Mutant: every outcome releases the locks.
RecordReleases(p, o, s) ==
    /\ status' = [status EXCEPT ![o] = s]
    /\ locks' = IF s # "running"
                THEN [k \in LockKeys |-> IF locks[k] = o THEN Nil ELSE locks[k]]
                ELSE locks

\* record_workflow_operation, refused unless the claim is current; success
\* releases the locks and is never undone.
RecordAdmitted(p, o) == FenceClaim(p) /\ status[o] \notin {"none", "succeeded"}

RecordWorkflowOperation(p, o, s) ==
    IF RecordAdmitted(p, o)
    THEN /\ status' = [status EXCEPT ![o] = s]
         /\ locks' = IF s = "succeeded"
                     THEN [k \in LockKeys |-> IF locks[k] = o THEN Nil ELSE locks[k]]
                     ELSE locks
    ELSE UNCHANGED <<status, locks>>

\* The approval behind the action was withdrawn: approval::validate fails.
ApprovalInvalid(p) ==
    /\ pc[p] = "begun"
    /\ Action(target[p]) \notin {"start_planner", "continue_stage"}
    /\ PassError(p)

\* "running" is persisted before anything is sent.
RecordRunning(p) ==
    /\ pc[p] = "begun"
    /\ RecordWorkflowOperation(p, target[p], "running")
    /\ Goto(p, IF RecordAdmitted(p, target[p]) THEN "dispatch" ELSE "finish")
    /\ UNCHANGED <<rec, world, claim, snap, target, launches, faults>>

\* The executor derives the actions again and refuses a stale one; only the
\* stage continuation goes by the recorded predecessor instead.
ExecutorAdmits(p) ==
    /\ pc[p] = "dispatch"
    /\ \/ Action(target[p]) = "continue_stage"
       \/ Ready(Snapshot(target[p][1]), target[p][2])
    /\ Goto(p, "admitted")
    /\ UNCHANGED <<store, world, claim, snap, target, launches, faults>>

\* The executor can fail at every write of the startup.
ExecutorFails(p) ==
    /\ pc[p] \in {"dispatch", "admitted", "startup"}
    /\ Goto(p, "failed")
    /\ UNCHANGED <<store, world, claim, snap, target, launches, faults>>

\* A planner Run has an identity derived from its operation, so creating it
\* again is refused; every other Run gets a fresh id.
CreateRun(o, r) ==
    /\ runs' = [runs EXCEPT ![o] = r]
    /\ created' = [created EXCEPT ![o] = @ + 1]

\* Mutant: the planner Run gets a fresh identity on every attempt.
StartRunFresh(p) ==
    LET o == target[p]
    IN  /\ pc[p] = "admitted"
        /\ RunsWorker(o)
        /\ CreateRun(o, "partial")
        /\ Goto(p, "startup")
        /\ UNCHANGED <<store, closed, jobs, claim, snap, target, launches, faults>>

\* The first write of a Run's startup: the Run row without stage and context.
StartRun(p) ==
    LET o == target[p]
    IN  /\ pc[p] = "admitted"
        /\ RunsWorker(o)
        /\ Action(o) = "start_planner" => runs[o] = "none"
        /\ CreateRun(o, "partial")
        /\ Goto(p, "startup")
        /\ UNCHANGED <<store, closed, jobs, claim, snap, target, launches, faults>>

\* The approval is a single decision.
ApplyDecision(p) ==
    LET o == target[p]
    IN  /\ pc[p] = "admitted"
        /\ ~RunsWorker(o)
        /\ CreateRun(o, "completed")
        /\ Goto(p, "reconcile")
        /\ UNCHANGED <<store, closed, jobs, claim, snap, target, launches, faults>>

\* The last startup write, then spawn_run, which returns at once.
CompleteStartup(p) ==
    LET o == target[p]
    IN  /\ pc[p] = "startup"
        /\ runs[o] = "partial"
        /\ runs' = [runs EXCEPT ![o] = "queued"]
        /\ launches' = launches \cup {<<p, o>>}
        /\ Goto(p, "reconcile")
        /\ UNCHANGED <<store, created, closed, jobs, claim, snap, target, faults>>

\* The stage continuation finds nothing to start.
NoContinuation(p) ==
    /\ pc[p] = "admitted"
    /\ Action(target[p]) = "continue_stage"
    /\ Goto(p, "examined")
    /\ UNCHANGED <<store, world, claim, snap, target, launches, faults>>

RecordExamined(p) ==
    /\ pc[p] = "examined"
    /\ RecordWorkflowOperation(p, target[p], "succeeded")
    /\ Goto(p, "finish")
    /\ UNCHANGED <<rec, world, claim, snap, target, launches, faults>>

RecordBlocked(p) ==
    /\ pc[p] = "failed"
    /\ RecordWorkflowOperation(p, target[p], "blocked")
    /\ Goto(p, "finish")
    /\ UNCHANGED <<rec, world, claim, snap, target, launches, faults>>

-----------------------------------------------------------------------------
\* reconcile_operation, for an operation past its dispatch boundary.  The pass
\* gets here either first thing (and may dispatch again) or after its own
\* dispatch, with the snapshot it loads then.

Dispatched(p, o) ==
    \/ /\ pc[p] = "advance"
       /\ o \in ActiveOps(claim[p].item)
       /\ status[o] \in {"running", "blocked"}
    \/ pc[p] = "reconcile" /\ o = target[p]

SeenRun(p, o) == IF pc[p] = "advance" THEN snap[p].runs[o[2]] ELSE runs[o]

PlannerIncomplete(o) == Action(o) = "start_planner" /\ runs[o] \in {"none", "partial"}

\* An interrupted planner startup is completed under its recorded identity and
\* without a dispatch; otherwise the pass only reports it.
RecoverPlannerStartup(p) ==
    /\ \E o \in OpIds :
        /\ Dispatched(p, o)
        /\ PlannerIncomplete(o)
        /\ ~Stopped(p)
        /\ status[o] = "running"
        /\ runs[o] = "none" => Ready(snap[p], o[2])
        /\ IF runs[o] = "none" THEN CreateRun(o, "partial") ELSE UNCHANGED <<runs, created>>
        /\ target' = [target EXCEPT ![p] = o]
    /\ Goto(p, "deferred")
    /\ UNCHANGED <<store, closed, jobs, claim, snap, launches, faults>>

CompleteDeferredStartup(p) ==
    LET o == target[p]
    IN  /\ pc[p] = "deferred"
        /\ runs[o] = "partial"
        /\ runs' = [runs EXCEPT ![o] = "queued"]
        /\ Goto(p, "reconcile")
        /\ UNCHANGED <<store, created, closed, jobs, claim, snap, target, launches, faults>>

DeferredStartupFails(p) ==
    /\ pc[p] = "deferred"
    /\ PassError(p)

\* No unique Run, a partial Run, a missing decision, a stopped recovery: the
\* operation and its locks are left as they are.
ReconcileWaits(p) ==
    /\ \E o \in OpIds :
        /\ Dispatched(p, o)
        /\ \/ /\ PlannerIncomplete(o)
              /\ \/ Stopped(p)
                 \/ status[o] # "running"
                 \/ runs[o] = "none" /\ ~Ready(snap[p], o[2])
           \/ /\ ~PlannerIncomplete(o)
              /\ SeenRun(p, o) \in {"none", "partial"}
    /\ PassError(p)

\* The Run (or decision) is final: the operation succeeds and frees its locks.
ReconcileTerminal(p) ==
    /\ \E o \in OpIds :
        /\ Dispatched(p, o)
        /\ ~PlannerIncomplete(o)
        /\ SeenRun(p, o) \in Terminal
        /\ RecordWorkflowOperation(p, o, "succeeded")
    /\ Goto(p, "finish")
    /\ UNCHANGED <<rec, world, claim, snap, target, launches, faults>>

\* reconcile_terminal_hosted_run fails to finalise the Run's stage: nothing is
\* recorded, and a later pass finds the operation and its locks as they were.
FinalizationFails(p) ==
    /\ faults < MaxFaults
    /\ faults' = faults + 1
    /\ \E o \in OpIds :
        /\ Dispatched(p, o)
        /\ Action(o) \in WorkerActions
        /\ SeenRun(p, o) \in Terminal
    /\ Goto(p, "finish")
    /\ UNCHANGED <<store, world, claim, snap, target, launches>>

\* The Run is still going.  A queued one is launched again, unless this pass
\* just launched it or the workflow is stopped.
ReconcileLive(p) ==
    /\ \E o \in OpIds :
        /\ Dispatched(p, o)
        /\ ~PlannerIncomplete(o)
        /\ SeenRun(p, o) \in {"queued", "running"}
        /\ RecordWorkflowOperation(p, o, "running")
        /\ launches' = IF /\ RecordAdmitted(p, o)
                          /\ pc[p] = "advance"
                          /\ SeenRun(p, o) = "queued"
                          /\ ~Stopped(p)
                       THEN launches \cup {<<p, o>>}
                       ELSE launches
    /\ Goto(p, "finish")
    /\ UNCHANGED <<rec, world, claim, snap, target, faults>>

-----------------------------------------------------------------------------
\* Controls, faults, the clock and the world the controller observes.

\* The controls control_actions offers.
ControlOffered(from, to) ==
    \/ from = "active" /\ to \in {"paused", "cancelled"}
    \/ from = "paused" /\ to \in {"active", "cancelled"}

\* Mutant: controls do not take DISPATCH_BOUNDARY.
NoBoundary(p) == TRUE

\* execute_control waits for DISPATCH_BOUNDARY, so its process is not inside
\* a pass.
BoundaryFree(p) == pc[p] = "idle"

\* set_workflow_control: a new version, a new fence, no claim, due now.
SetWorkflowControl(p, w, c) ==
    /\ BoundaryFree(p)
    /\ ~closed[w]
    /\ ControlOffered(rec[w].control, c)
    /\ rec' = [rec EXCEPT ![w].control = c, ![w].version = @ + 1, ![w].fence = @ + 1,
                          ![w].owner = Nil, ![w].until = 0, ![w].due = 0, ![w].checks = 0]
    /\ UNCHANGED <<status, locks, world, pc, claim, snap, target, launches, faults>>

\* The process dies and its background tasks with it; it restarts idle.
Crash(p) ==
    /\ faults < MaxFaults
    /\ faults' = faults + 1
    /\ pc[p] # "idle" \/ \E o \in OpIds : <<p, o>> \in launches
    /\ EndPass(p)
    /\ launches' = {l \in launches : l[1] # p}
    /\ UNCHANGED <<store, world>>

\* The 45 s timeout drops the pass at an await, or the store fails: the claim
\* stays.
AbandonPass(p) ==
    /\ faults < MaxFaults
    /\ faults' = faults + 1
    /\ pc[p] # "idle"
    /\ EndPass(p)
    /\ UNCHANGED <<store, world, launches>>

\* create_job finds the exact Job before it creates one.
LaunchJob ==
    \E l \in launches :
        /\ launches' = launches \ {l}
        /\ jobs' = jobs \cup {l[2]}
        /\ UNCHANGED <<store, runs, created, closed, pc, claim, snap, target, faults>>

\* No capacity, or the create never reached the cluster.
LaunchLost ==
    \E l \in launches :
        /\ launches' = launches \ {l}
        /\ UNCHANGED <<store, world, pc, claim, snap, target, faults>>

RunStarts(o) ==
    /\ o \in jobs
    /\ runs[o] = "queued"
    /\ runs' = [runs EXCEPT ![o] = "running"]
    /\ UNCHANGED <<store, created, closed, jobs, pc, claim, snap, target, launches, faults>>

\* The worker reports its outcome, and the callback wakes the workflow.
RunReports(o) ==
    /\ runs[o] = "running"
    /\ \E r \in Terminal : runs' = [runs EXCEPT ![o] = r]
    /\ rec' = [rec EXCEPT ![o[1]].due = IF @ < 0 THEN @ ELSE 0]
    /\ UNCHANGED <<status, locks, created, closed, jobs, pc, claim, snap, target,
                   launches, faults>>

\* The Job reaper fails a Run whose worker died: nobody wakes the workflow.
RunReaped(o) ==
    /\ o \in jobs
    /\ runs[o] \in {"queued", "running"}
    /\ runs' = [runs EXCEPT ![o] = "failed"]
    /\ UNCHANGED <<store, created, closed, jobs, pc, claim, snap, target, launches, faults>>

\* The last stage closes the WorkItem, possibly before its operation is
\* recorded.
CloseWorkItem(w) ==
    /\ ~closed[w]
    /\ \A i \in Positions : runs[<<w, i>>] = "completed"
    /\ closed' = [closed EXCEPT ![w] = TRUE]
    /\ UNCHANGED <<store, runs, created, jobs, pc, claim, snap, target, launches, faults>>

Age(r) == [r EXCEPT !.due   = IF r.due > -MaxLag THEN r.due - 1 ELSE r.due,
                    !.until = IF r.until > 0 THEN r.until - 1 ELSE r.until]

\* One tick.  A pass that does not stall is dropped by its timeout (45 s) before
\* its lease (60 s) ends.  A claimable row waits at most MaxLag ticks.
Tick ==
    /\ \/ PassesStall
       \/ \A p \in Processes :
            pc[p] # "idle" /\ rec[claim[p].item].owner = p => rec[claim[p].item].until # 1
    /\ \A w \in WorkItems : Claimable(w) => rec[w].due > -MaxLag
    /\ rec' = [w \in WorkItems |-> Age(rec[w])]
    /\ UNCHANGED <<status, locks, world, pc, claim, snap, target, launches, faults>>

-----------------------------------------------------------------------------
Init ==
    /\ rec = [w \in WorkItems |->
                [control |-> "active", version |-> 1, due |-> 0, owner |-> Nil,
                 fence |-> 0, until |-> 0, checks |-> 0, hash |-> Nil]]
    /\ status = [o \in OpIds |-> "none"]
    /\ locks = [k \in LockKeys |-> Nil]
    /\ runs = [o \in OpIds |-> "none"]
    /\ created = [o \in OpIds |-> 0]
    /\ closed = [w \in WorkItems |-> FALSE]
    /\ pc = [p \in Processes |-> "idle"]
    /\ claim = [p \in Processes |-> NoClaim]
    /\ snap = [p \in Processes |-> Nil]
    /\ target = [p \in Processes |-> Nil]
    /\ launches = {}
    /\ jobs = {}
    /\ faults = 0

\* One step of a reconciliation pass.
PassStep(p) ==
    \/ ReconcileOnce(p)
    \/ AdvanceWaits(p)
    \/ LoadFails(p)
    \/ AdvanceRefused(p)
    \/ AdvanceBegins(p)
    \/ AdvanceConflicts(p)
    \/ AdvanceReleasesPending(p)
    \/ ApprovalInvalid(p)
    \/ RecordRunning(p)
    \/ ExecutorAdmits(p)
    \/ ExecutorFails(p)
    \/ StartRun(p)
    \/ ApplyDecision(p)
    \/ CompleteStartup(p)
    \/ NoContinuation(p)
    \/ RecordExamined(p)
    \/ RecordBlocked(p)
    \/ RecoverPlannerStartup(p)
    \/ CompleteDeferredStartup(p)
    \/ DeferredStartupFails(p)
    \/ ReconcileWaits(p)
    \/ ReconcileTerminal(p)
    \/ FinalizationFails(p)
    \/ ReconcileLive(p)
    \/ Finish(p)

Next ==
    \/ \E p \in Processes : PassStep(p) \/ Crash(p) \/ AbandonPass(p)
    \/ \E p \in Processes, w \in WorkItems, c \in Controls : SetWorkflowControl(p, w, c)
    \/ LaunchJob
    \/ LaunchLost
    \/ \E o \in OpIds : RunStarts(o) \/ RunReports(o) \/ RunReaped(o)
    \/ \E w \in WorkItems : CloseWorkItem(w)
    \/ Tick

\* The scheduler loop restarts with its process and never stops; time passes.
Fairness ==
    /\ \A p \in Processes : WF_vars(PassStep(p))
    /\ WF_vars(Tick)

Spec == Init /\ [][Next]_vars /\ Fairness

-----------------------------------------------------------------------------
Snapshots == [closed : BOOLEAN, runs : [Positions -> RunStates],
              ops : [Positions -> OpStates]]

Rows == [control : Controls, version : Nat, due : Int, owner : Processes \cup {Nil},
         fence : Nat, until : Nat, checks : 0..MaxChecks, hash : Snapshots \cup {Nil}]

Claims == [item : WorkItems \cup {Nil}, fence : Nat, version : Nat, control : Controls,
           expired : BOOLEAN]

StoreTypeOK ==
    /\ rec \in [WorkItems -> Rows]
    /\ status \in [OpIds -> OpStates]
    /\ locks \in [LockKeys -> OpIds \cup {Nil}]

WorldTypeOK ==
    /\ runs \in [OpIds -> RunStates]
    /\ created \in [OpIds -> Nat]
    /\ closed \in [WorkItems -> BOOLEAN]
    /\ jobs \subseteq OpIds

PassTypeOK ==
    /\ pc \in [Processes -> PassSteps \cup {"idle"}]
    /\ claim \in [Processes -> Claims]
    /\ snap \in [Processes -> Snapshots \cup {Nil}]
    /\ target \in [Processes -> OpIds \cup {Nil}]
    /\ launches \subseteq Processes \X OpIds
    /\ faults \in 0..MaxFaults

\* What a process inside a pass has: its claim, the snapshot it loaded, and
\* past advance an operation of the WorkItem it claimed.
PassKnows ==
    \A p \in Processes :
        /\ pc[p] # "idle" => claim[p].item \in WorkItems
        /\ pc[p] \notin {"idle", "finish"} => snap[p] \in Snapshots
        /\ pc[p] \notin {"idle", "advance", "finish"} =>
             target[p] \in OpIds /\ target[p][1] = claim[p].item

\* The tables and the controller's own state are well formed, and a process
\* inside a pass knows what it claimed, loaded and works on.
TypeOK == StoreTypeOK /\ WorldTypeOK /\ PassTypeOK /\ PassKnows

\* A live Run of a worker operation still has every resource lock of that
\* operation, whatever happened to the pass, the claim or the process that
\* started it: locks do not expire with the claim (0053_hosted_reconciliation).
LiveRunsHoldTheirLocks ==
    \A o \in OpIds :
        RunsWorker(o) /\ runs[o] \in LiveRun => \A k \in ResourceKeys(o) : locks[k] = o

\* One coding Run globally, over all WorkItems, restarts and lost claims.
OneCodingRun ==
    \A o1, o2 \in OpIds :
        /\ RunsWorker(o1) /\ runs[o1] \in LiveRun
        /\ RunsWorker(o2) /\ runs[o2] \in LiveRun
        => o1 = o2

\* An operation identity dispatches at most one Run or decision: a replaced
\* owner, a lost acknowledgement or a repeated pass never makes a second one.
AtMostOneRun == \A o \in OpIds : created[o] <= 1

\* Cancellation is final, and no operation of a cancelled WorkItem is begun
\* or crosses its dispatch boundary, not even by a pass that claimed earlier.
CancellationIsFinal ==
    [][\A w \in WorkItems : rec[w].control = "cancelled" =>
         /\ rec'[w].control = "cancelled"
         /\ \A o \in OpIds : o[1] = w /\ status[o] \in {"none", "pending"} =>
              status'[o] = status[o]]_vars

\* With one API process nothing is started for a paused or cancelled WorkItem:
\* the control waits for the dispatch boundary, and later passes see it.
NothingStartsWhileStopped ==
    [][\A o \in OpIds :
         \/ created'[o] # created[o]
         \/ \E p \in Processes : <<p, o>> \in launches' \ launches
         => rec[o[1]].control = "active"]_vars

\* A Run that ended is reconciled, and its locks are freed, also while its
\* workflow is paused or cancelled and after a crash lost the claim.
TerminalRunIsReconciled ==
    \A o \in OpIds :
        (status[o] \in {"running", "blocked"} /\ runs[o] \in Terminal)
            ~> (status[o] = "succeeded" /\ Held(o) = {})

\* A cancelled workflow gives up the locks of an operation it never sent, so
\* other WorkItems can use the coding slot and the repository.
CancelledFreesPendingLocks ==
    \A o \in OpIds :
        (rec[o[1]].control = "cancelled" /\ status[o] = "pending") ~> (Held(o) = {})

\* Once operators stop changing controls, every eligible WorkItem keeps being
\* claimed: one busy or waiting WorkItem does not starve another.
EveryItemIsServed ==
    <>[][\A w \in WorkItems : rec'[w].control = rec[w].control]_vars
    => \A w \in WorkItems : []<>(~Eligible(w) \/ rec[w].owner # Nil)

\* What an operation needs, which operations were sent, have a live Run, are over.
Needs == [o \in OpIds |-> ResourceKeys(o)]
Sent  == {o \in OpIds : runs[o] # "none"}
Alive == {o \in OpIds : runs[o] \in LiveRun}
Over  == {o \in OpIds : status[o] = "succeeded"}

Resources == INSTANCE OperationLocks
    WITH Ops <- OpIds, Keys <- LockKeys, holder <- locks, sent <- Sent, live <- Alive,
         over <- Over

\* Claims, fences, passes and restarts together implement exclusive resources: a
\* Run starts once and only under all its operation's locks, and a key changes
\* hands only when nothing its holder sent is alive and the holder gave up all.
ImplementsOperationLocks == Resources!Spec

-----------------------------------------------------------------------------
\* The inductive invariant behind the safety properties, part by part.

\* An operation past its dispatch boundary has all its locks.
DispatchedHoldsLocks ==
    \A o \in OpIds : status[o] \in {"running", "blocked"} =>
        \A k \in ResourceKeys(o) : locks[k] = o

\* Nothing was started for an operation before its boundary, and a worker Run
\* is only live under an operation past it.
RunsFollowOperations ==
    \A o \in OpIds :
        /\ status[o] \in {"none", "pending"} => runs[o] = "none"
        /\ RunsWorker(o) /\ runs[o] \in LiveRun => status[o] \in {"running", "blocked"}

\* Success means the Run ended, except for a continuation that started none.
SuccessIsFinal ==
    \A o \in OpIds : status[o] = "succeeded" /\ Action(o) # "continue_stage" =>
        runs[o] \in Terminal

CreatedCountsRuns ==
    \A o \in OpIds : created[o] = IF runs[o] = "none" THEN 0 ELSE 1

\* What a process began under a claim it still holds is pending and locked, and
\* was claimed while the workflow was active.
BegunIsPending ==
    \A p \in Processes : pc[p] = "begun" /\ FenceClaim(p) =>
        /\ claim[p].control = "active"
        /\ status[target[p]] = "pending"
        /\ \A k \in ResourceKeys(target[p]) : locks[k] = target[p]

\* Steps between the recorded boundary and the first write of the executor.
BeforeEffect == {"dispatch", "admitted", "examined"}

\* One process at a time is about to send an operation, and nothing was sent
\* before; a planner startup may have been recovered meanwhile.
OneDispatcher ==
    \A p \in Processes : pc[p] \in BeforeEffect =>
        LET o == target[p]
        IN  /\ Action(o) = "start_planner" \/ runs[o] = "none"
            /\ \/ status[o] \in {"running", "blocked"}
               \/ Action(o) = "start_planner" /\ status[o] = "succeeded"
            /\ pc[p] = "examined" => Action(o) = "continue_stage"
            /\ \A q \in Processes : pc[q] \in BeforeEffect /\ target[q] = o => q = p

\* Later steps work on an operation past its boundary.
PastBoundary ==
    \A p \in Processes : pc[p] \in {"startup", "deferred", "reconcile", "failed"} =>
        status[target[p]] \in {"running", "blocked", "succeeded"}

\* A Run a snapshot shows ended has ended.
SnapshotsAge ==
    \A p \in Processes : pc[p] \notin {"idle", "finish"} =>
        \A i \in Positions : snap[p].runs[i] \in Terminal =>
            runs[<<claim[p].item, i>>] \in Terminal

IInv ==
    /\ TypeOK
    /\ DispatchedHoldsLocks
    /\ RunsFollowOperations
    /\ SuccessIsFinal
    /\ CreatedCountsRuns
    /\ BegunIsPending
    /\ OneDispatcher
    /\ PastBoundary
    /\ SnapshotsAge
=============================================================================
