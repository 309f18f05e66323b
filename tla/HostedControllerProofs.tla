----------------------- MODULE HostedControllerProofs -----------------------
(***************************************************************************)
(* Proofs that hold for every set of WorkItems and API processes, every    *)
(* chain of actions and every lease.  The order: types; what one step may  *)
(* do to one operation (OpMoves); the parts of IInv from OpMoves and from  *)
(* the fence; the safety properties from IInv; what holds of one process;  *)
(* the refinement of OperationLocks.                                       *)
(***************************************************************************)
EXTENDS HostedController, TLAPS

\* What Snapshot::load returns is a snapshot.
LEMMA SnapshotType ==
    ASSUME StoreTypeOK, WorldTypeOK, NEW w \in WorkItems
    PROVE  Snapshot(w) \in Snapshots
<1>1. \A i \in Positions : <<w, i>> \in OpIds
  BY DEF OpIds
<1> QED
  BY <1>1 DEF StoreTypeOK, WorldTypeOK, Snapshot, Snapshots

\* Enrolled WorkItems start with well-formed rows.
LEMMA TypeInit == Init => TypeOK
<1> SUFFICES ASSUME Init PROVE TypeOK
  OBVIOUS
<1>1. StoreTypeOK
  BY ConstantsAssumption DEF Init, StoreTypeOK, Rows, Controls, OpStates
<1>2. WorldTypeOK
  BY DEF Init, WorldTypeOK, RunStates
<1>3. PassTypeOK
  BY ConstantsAssumption DEF Init, PassTypeOK, NoClaim, Claims, Controls
<1>4. PassKnows
  BY DEF Init, PassKnows
<1> QED
  BY <1>1, <1>2, <1>3, <1>4 DEF TypeOK

\* What record_workflow_operation leaves in the tables.
LEMMA RecordType ==
    ASSUME StoreTypeOK, NEW p \in Processes, NEW o \in OpIds, NEW s \in OpStates,
           RecordWorkflowOperation(p, o, s)
    PROVE  /\ status' \in [OpIds -> OpStates]
           /\ locks' \in [LockKeys -> OpIds \cup {Nil}]
<1>1. CASE RecordAdmitted(p, o)
  BY <1>1 DEF RecordWorkflowOperation, StoreTypeOK
<1>2. CASE ~RecordAdmitted(p, o)
  BY <1>2 DEF RecordWorkflowOperation, StoreTypeOK
<1> QED
  BY <1>1, <1>2

\* Every step keeps the tables typed.
LEMMA TypeStore == TypeOK /\ [Next]_vars => StoreTypeOK'
<1> SUFFICES ASSUME TypeOK, [Next]_vars PROVE StoreTypeOK'
  OBVIOUS
<1> USE DEF TypeOK
<1>1. ASSUME UNCHANGED store PROVE StoreTypeOK'
  BY <1>1 DEF store, StoreTypeOK
<1>2. ASSUME NEW p \in Processes, ReconcileOnce(p) PROVE StoreTypeOK'
  <2>1. PICK w \in WorkItems : ClaimDueWorkflow(p, w)
    BY <1>2 DEF ReconcileOnce
  <2>2. rec[w] \in Rows
    BY DEF StoreTypeOK
  <2>3. PICK f \in Nat : f = rec[w].fence + 1
    BY <2>2 DEF Rows
  <2>4. [rec[w] EXCEPT !.owner = p, !.fence = f, !.until = LeaseTicks] \in Rows
    BY <2>2, ConstantsAssumption DEF Rows
  <2>5. rec' = [rec EXCEPT ![w] = [rec[w] EXCEPT !.owner = p, !.fence = f,
                                                 !.until = LeaseTicks]]
    BY <2>1, <2>3 DEF ClaimDueWorkflow, StoreTypeOK
  <2> QED
    BY <1>2, <2>4, <2>5 DEF ReconcileOnce, StoreTypeOK
<1>3. ASSUME NEW p \in Processes, Finish(p) PROVE StoreTypeOK'
  <2>1. PICK w \in WorkItems : w = claim[p].item
    BY <1>3 DEF Finish, PassKnows
  <2>2. rec[w] \in Rows
    BY DEF StoreTypeOK
  <2>3. PICK h \in Snapshots \cup {Nil} : h = snap[p]
    BY DEF PassTypeOK
  <2>4. PICK c \in 0..MaxChecks :
           c = IF rec[w].hash = h
               THEN IF rec[w].checks < MaxChecks THEN rec[w].checks + 1 ELSE rec[w].checks
               ELSE 0
    BY <2>2, ConstantsAssumption DEF Rows
  <2>z. PICK z \in Nat, d \in Int : z = 0 /\ d = WaitTicks
    BY ConstantsAssumption
  <2>5. [rec[w] EXCEPT !.due = d, !.owner = Nil, !.until = z, !.checks = c,
                       !.hash = h] \in Rows
    BY <2>2 DEF Rows
  <2>6. \/ rec' = rec
        \/ rec' = [rec EXCEPT ![w] = [rec[w] EXCEPT !.due = d, !.owner = Nil,
                                        !.until = z, !.checks = c, !.hash = h]]
    BY <1>3, <2>1, <2>3, <2>4, <2>z DEF Finish, FinishWorkflowReconciliation, StoreTypeOK
  <2> QED
    BY <1>3, <2>5, <2>6 DEF Finish, StoreTypeOK
<1>4. ASSUME NEW p \in Processes, NEW w \in WorkItems, NEW c \in Controls,
             SetWorkflowControl(p, w, c)
      PROVE  StoreTypeOK'
  <2>1. rec[w] \in Rows
    BY DEF StoreTypeOK
  <2>2. PICK f \in Nat : f = rec[w].fence + 1
    BY <2>1 DEF Rows
  <2>3. PICK v \in Nat : v = rec[w].version + 1
    BY <2>1 DEF Rows
  <2>z. PICK z \in Nat, d \in Int, n \in 0..MaxChecks : z = 0 /\ d = 0 /\ n = 0
    BY ConstantsAssumption
  <2>4. [rec[w] EXCEPT !.control = c, !.version = v, !.fence = f, !.owner = Nil,
                       !.until = z, !.due = d, !.checks = n] \in Rows
    BY <2>1 DEF Rows
  <2>5. rec' = [rec EXCEPT ![w] = [rec[w] EXCEPT !.control = c, !.version = v, !.fence = f,
                                     !.owner = Nil, !.until = z, !.due = d, !.checks = n]]
    BY <1>4, <2>2, <2>3, <2>z DEF SetWorkflowControl, StoreTypeOK
  <2>6. UNCHANGED <<status, locks>>
    BY <1>4 DEF SetWorkflowControl
  <2> QED
    BY <2>4, <2>5, <2>6 DEF StoreTypeOK
<1>5. ASSUME NEW o \in OpIds, RunReports(o) PROVE StoreTypeOK'
  <2>1. PICK w \in WorkItems : w = o[1]
    BY DEF OpIds
  <2>2. rec[w] \in Rows
    BY DEF StoreTypeOK
  <2>3. PICK d \in Int : d = IF rec[w].due < 0 THEN rec[w].due ELSE 0
    BY <2>2 DEF Rows
  <2>4. [rec[w] EXCEPT !.due = d] \in Rows
    BY <2>2 DEF Rows
  <2>5. rec' = [rec EXCEPT ![w] = [rec[w] EXCEPT !.due = d]]
    BY <1>5, <2>1, <2>3 DEF RunReports, StoreTypeOK
  <2> QED
    BY <1>5, <2>4, <2>5 DEF RunReports, StoreTypeOK
<1>6. ASSUME Tick PROVE StoreTypeOK'
  <2>1. rec' = [w \in WorkItems |-> Age(rec[w])] /\ status' = status /\ locks' = locks
    BY <1>6, Zenon DEF Tick
  <2>2. ASSUME NEW w \in WorkItems PROVE Age(rec[w]) \in Rows
    <3>1. rec[w] \in Rows
      BY DEF StoreTypeOK
    <3>2. PICK d \in Int : d = IF rec[w].due > -MaxLag THEN rec[w].due - 1 ELSE rec[w].due
      BY <3>1, ConstantsAssumption DEF Rows
    <3>3. PICK u \in Nat : u = IF rec[w].until > 0 THEN rec[w].until - 1 ELSE rec[w].until
      BY <3>1 DEF Rows
    <3>4. [rec[w] EXCEPT !.due = d, !.until = u] \in Rows
      BY <3>1 DEF Rows
    <3> QED
      BY <3>2, <3>3, <3>4 DEF Age
  <2> QED
    BY <2>1, <2>2 DEF StoreTypeOK
<1>7. ASSUME NEW p \in Processes, AdvanceBegins(p) PROVE StoreTypeOK'
  BY <1>7 DEF AdvanceBegins, BeginWorkflowOperation, StoreTypeOK, OpStates
<1>8. ASSUME NEW p \in Processes, AdvanceReleasesPending(p) PROVE StoreTypeOK'
  BY <1>8 DEF AdvanceReleasesPending, StoreTypeOK
<1>9. ASSUME NEW p \in Processes,
             \/ RecordRunning(p) \/ RecordExamined(p) \/ RecordBlocked(p)
             \/ ReconcileTerminal(p) \/ ReconcileLive(p)
      PROVE  StoreTypeOK'
  <2>1. PICK o \in OpIds, s \in OpStates : RecordWorkflowOperation(p, o, s) /\ rec' = rec
    BY <1>9 DEF RecordRunning, RecordExamined, RecordBlocked, ReconcileTerminal,
                ReconcileLive, PassKnows, OpStates
  <2> QED
    BY <2>1, RecordType DEF StoreTypeOK
<1>10. ASSUME NEW p \in Processes,
              \/ AdvanceWaits(p) \/ LoadFails(p)
              \/ FinalizationFails(p) \/ AdvanceRefused(p) \/ AdvanceConflicts(p)
              \/ ApprovalInvalid(p) \/ ExecutorAdmits(p) \/ ExecutorFails(p) \/ StartRun(p)
              \/ ApplyDecision(p) \/ CompleteStartup(p) \/ NoContinuation(p)
              \/ RecoverPlannerStartup(p) \/ CompleteDeferredStartup(p)
              \/ DeferredStartupFails(p) \/ ReconcileWaits(p) \/ Crash(p) \/ AbandonPass(p)
       PROVE  UNCHANGED store
  BY <1>10 DEF AdvanceWaits, LoadFails,
               FinalizationFails, AdvanceRefused, AdvanceConflicts, ApprovalInvalid,
               ExecutorAdmits, ExecutorFails, StartRun, ApplyDecision, CompleteStartup,
               NoContinuation, RecoverPlannerStartup, CompleteDeferredStartup,
               DeferredStartupFails, ReconcileWaits, Crash, AbandonPass, PassError
<1>11. ASSUME \/ LaunchJob \/ LaunchLost \/ vars' = vars
              \/ \E o \in OpIds : RunStarts(o) \/ RunReaped(o)
              \/ \E w \in WorkItems : CloseWorkItem(w)
       PROVE  UNCHANGED store
  BY <1>11 DEF LaunchJob, LaunchLost, vars, store, RunStarts, RunReaped, CloseWorkItem
<1> QED
  BY <1>1, <1>2, <1>3, <1>4, <1>5, <1>6, <1>7, <1>8, <1>9, <1>10, <1>11
     DEF Next, PassStep

\* Creating a Run keeps the Runs and their counts typed.
LEMMA CreateRunType ==
    ASSUME WorldTypeOK, NEW o \in OpIds, NEW r \in RunStates, CreateRun(o, r)
    PROVE  runs' \in [OpIds -> RunStates] /\ created' \in [OpIds -> Nat]
BY DEF CreateRun, WorldTypeOK

\* Every step keeps what the controller observes typed.
LEMMA TypeWorld == TypeOK /\ [Next]_vars => WorldTypeOK'
<1> SUFFICES ASSUME TypeOK, [Next]_vars PROVE WorldTypeOK'
  OBVIOUS
<1> USE DEF TypeOK
<1>1. ASSUME UNCHANGED world PROVE WorldTypeOK'
  BY <1>1 DEF world, WorldTypeOK
<1>2. ASSUME NEW p \in Processes, StartRun(p) \/ ApplyDecision(p) PROVE WorldTypeOK'
  <2>1. target[p] \in OpIds
    BY <1>2 DEF StartRun, ApplyDecision, PassKnows
  <2>2. PICK r \in RunStates : CreateRun(target[p], r)
    BY <1>2 DEF StartRun, ApplyDecision, RunStates, LiveRun
  <2>3. UNCHANGED <<closed, jobs>>
    BY <1>2 DEF StartRun, ApplyDecision
  <2> QED
    BY <2>1, <2>2, <2>3, CreateRunType DEF WorldTypeOK
<1>3. ASSUME NEW p \in Processes, CompleteStartup(p) \/ CompleteDeferredStartup(p)
      PROVE  WorldTypeOK'
  BY <1>3 DEF CompleteStartup, CompleteDeferredStartup, WorldTypeOK, RunStates, LiveRun
<1>4. ASSUME NEW p \in Processes, RecoverPlannerStartup(p) PROVE WorldTypeOK'
  <2>1. PICK o \in OpIds : CreateRun(o, "partial") \/ UNCHANGED <<runs, created>>
    BY <1>4 DEF RecoverPlannerStartup
  <2>2. "partial" \in RunStates
    BY DEF RunStates, LiveRun
  <2>3. UNCHANGED <<closed, jobs>>
    BY <1>4 DEF RecoverPlannerStartup
  <2> QED
    BY <2>1, <2>2, <2>3, CreateRunType DEF WorldTypeOK
<1>5. ASSUME NEW o \in OpIds, RunStarts(o) \/ RunReports(o) \/ RunReaped(o)
      PROVE  WorldTypeOK'
  BY <1>5 DEF RunStarts, RunReports, RunReaped, WorldTypeOK, RunStates, LiveRun, Terminal
<1>6. ASSUME NEW w \in WorkItems, CloseWorkItem(w) PROVE WorldTypeOK'
  BY <1>6 DEF CloseWorkItem, WorldTypeOK
<1>7. ASSUME LaunchJob PROVE WorldTypeOK'
  BY <1>7 DEF LaunchJob, WorldTypeOK, PassTypeOK
<1>8. ASSUME NEW p \in Processes,
             \/ ReconcileOnce(p) \/ AdvanceWaits(p) \/ LoadFails(p)
             \/ FinalizationFails(p) \/ AdvanceRefused(p)
             \/ AdvanceBegins(p) \/ AdvanceConflicts(p) \/ AdvanceReleasesPending(p)
             \/ ApprovalInvalid(p) \/ RecordRunning(p) \/ ExecutorAdmits(p)
             \/ ExecutorFails(p) \/ NoContinuation(p) \/ RecordExamined(p)
             \/ RecordBlocked(p) \/ DeferredStartupFails(p) \/ ReconcileWaits(p)
             \/ ReconcileTerminal(p) \/ ReconcileLive(p) \/ Finish(p) \/ Crash(p)
             \/ AbandonPass(p)
      PROVE  UNCHANGED world
  BY <1>8, Zenon DEF ReconcileOnce, AdvanceWaits, LoadFails,
                     FinalizationFails, AdvanceRefused, AdvanceBegins,
              AdvanceConflicts, AdvanceReleasesPending, ApprovalInvalid, RecordRunning,
              ExecutorAdmits, ExecutorFails, NoContinuation, RecordExamined, RecordBlocked,
              DeferredStartupFails, ReconcileWaits, ReconcileTerminal, ReconcileLive,
              Finish, Crash, AbandonPass, PassError
<1>9. ASSUME NEW p \in Processes, NEW w \in WorkItems, NEW c \in Controls,
             SetWorkflowControl(p, w, c)
      PROVE  UNCHANGED world
  BY <1>9, Zenon DEF SetWorkflowControl
<1>10. ASSUME LaunchLost PROVE UNCHANGED world
  BY <1>10, Zenon DEF LaunchLost
<1>11. ASSUME Tick PROVE UNCHANGED world
  BY <1>11, Zenon DEF Tick
<1>12. ASSUME UNCHANGED vars PROVE UNCHANGED world
  BY <1>12 DEF vars, world
<1> QED
  BY <1>1, <1>2, <1>3, <1>4, <1>5, <1>6, <1>7, <1>8, <1>9, <1>10, <1>11, <1>12
     DEF Next, PassStep

\* Every step keeps the state of the processes typed.
LEMMA TypePass == TypeOK /\ [Next]_vars => PassTypeOK' /\ PassKnows'
<1> SUFFICES ASSUME TypeOK, [Next]_vars PROVE PassTypeOK' /\ PassKnows'
  OBVIOUS
<1> USE DEF TypeOK
<1>1. ASSUME UNCHANGED <<pc, claim, snap, target, launches, faults>>
      PROVE  PassTypeOK' /\ PassKnows'
  BY <1>1 DEF PassTypeOK, PassKnows
<1>2. ASSUME NEW p \in Processes, ReconcileOnce(p) PROVE PassTypeOK' /\ PassKnows'
  <2>1. PICK w \in WorkItems :
          /\ claim' = [claim EXCEPT ![p] =
               [item |-> w, fence |-> rec[w].fence + 1, version |-> rec[w].version,
                control |-> rec[w].control,
                expired |-> rec[w].checks >= MaxChecks /\ rec[w].hash = Snapshot(w)]]
          /\ snap' = [snap EXCEPT ![p] = Snapshot(w)]
    BY <1>2 DEF ReconcileOnce
  <2>2. rec[w] \in Rows /\ Snapshot(w) \in Snapshots
    BY SnapshotType DEF StoreTypeOK
  <2>3. PICK e \in BOOLEAN : e = (rec[w].checks >= MaxChecks /\ rec[w].hash = Snapshot(w))
    OBVIOUS
  <2>f. PICK f \in Nat : f = rec[w].fence + 1
    BY <2>2 DEF Rows
  <2>g. rec[w].version \in Nat /\ rec[w].control \in Controls
    BY <2>2 DEF Rows
  <2>4. PICK c \in Claims :
          c.item = w /\ c = [item |-> w, fence |-> f, version |-> rec[w].version,
               control |-> rec[w].control, expired |-> e]
    BY <2>g DEF Claims
  <2>5. claim' = [claim EXCEPT ![p] = c]
    BY <2>1, <2>3, <2>4, <2>f
  <2>6. /\ pc' = [pc EXCEPT ![p] = "advance"]
        /\ UNCHANGED <<target, launches, faults>>
    BY <1>2 DEF ReconcileOnce, Goto
  <2>7. snap' = [snap EXCEPT ![p] = Snapshot(w)]
    BY <2>1
  <2> QED
    BY <2>2, <2>4, <2>5, <2>6, <2>7 DEF PassTypeOK, PassKnows, PassSteps
<1>3. ASSUME NEW p \in Processes, EndPass(p), launches' \subseteq launches,
             faults' \in 0..MaxFaults
      PROVE  PassTypeOK' /\ PassKnows'
  <2>1. NoClaim \in Claims
    BY DEF NoClaim, Claims, Controls
  <2> QED
    BY <1>3, <2>1 DEF EndPass, Goto, PassTypeOK, PassKnows
<1>4. ASSUME NEW p \in Processes, Finish(p) \/ Crash(p) \/ AbandonPass(p)
      PROVE  PassTypeOK' /\ PassKnows'
  <2>1. faults' \in 0..MaxFaults
    BY <1>4, ConstantsAssumption DEF Finish, Crash, AbandonPass, PassTypeOK
  <2>2. launches' \subseteq launches
    BY <1>4, Zenon DEF Finish, Crash, AbandonPass
  <2> QED
    BY <1>3, <1>4, <2>1, <2>2 DEF Finish, Crash, AbandonPass
<1>5. ASSUME NEW p \in Processes, LoadFails(p) PROVE PassTypeOK' /\ PassKnows'
  BY <1>5, ConstantsAssumption DEF LoadFails, Goto, PassTypeOK, PassKnows, PassSteps
<1>17. ASSUME NEW p \in Processes, FinalizationFails(p) PROVE PassTypeOK' /\ PassKnows'
  <2>1. pc[p] \notin {"idle", "finish"}
    BY <1>17 DEF FinalizationFails, Dispatched
  <2>2. faults' \in 0..MaxFaults
    BY <1>17, ConstantsAssumption DEF FinalizationFails, PassTypeOK
  <2> QED
    BY <1>17, <2>1, <2>2 DEF FinalizationFails, Goto, PassTypeOK, PassKnows, PassSteps
<1>6. ASSUME NEW p \in Processes, NEW step \in PassSteps, Goto(p, step),
             UNCHANGED <<claim, snap, target, faults>>,
             launches' \subseteq Processes \X OpIds,
             pc[p] \notin {"idle", "finish"},
             step \in {"advance", "finish"} \/ pc[p] # "advance"
      PROVE  PassTypeOK' /\ PassKnows'
  BY <1>6 DEF Goto, PassTypeOK, PassKnows
<1>7. ASSUME NEW p \in Processes,
             \/ AdvanceWaits(p) \/ AdvanceRefused(p) \/ AdvanceConflicts(p)
             \/ AdvanceReleasesPending(p) \/ ApprovalInvalid(p) \/ RecordRunning(p)
             \/ ExecutorAdmits(p) \/ ExecutorFails(p) \/ StartRun(p) \/ ApplyDecision(p)
             \/ NoContinuation(p) \/ RecordExamined(p) \/ RecordBlocked(p)
             \/ CompleteDeferredStartup(p) \/ DeferredStartupFails(p)
      PROVE  PassTypeOK' /\ PassKnows'
  <2>1. PICK step \in PassSteps :
          /\ Goto(p, step)
          /\ step = "finish" \/ pc[p] # "advance"
    BY <1>7 DEF AdvanceWaits, AdvanceRefused, AdvanceConflicts, AdvanceReleasesPending,
                ApprovalInvalid, RecordRunning, ExecutorAdmits, ExecutorFails, StartRun,
                ApplyDecision, NoContinuation, RecordExamined, RecordBlocked,
                CompleteDeferredStartup, DeferredStartupFails, PassError, PassSteps
  <2>2. UNCHANGED <<claim, snap, target, launches, faults>> /\ pc[p] \notin {"idle", "finish"}
    BY <1>7 DEF AdvanceWaits, AdvanceRefused, AdvanceConflicts, AdvanceReleasesPending,
                ApprovalInvalid, RecordRunning, ExecutorAdmits, ExecutorFails, StartRun,
                ApplyDecision, NoContinuation, RecordExamined, RecordBlocked,
                CompleteDeferredStartup, DeferredStartupFails, PassError
  <2> QED
    BY <1>6, <2>1, <2>2 DEF PassTypeOK
<1>8. ASSUME NEW p \in Processes, CompleteStartup(p) PROVE PassTypeOK' /\ PassKnows'
  BY <1>8 DEF CompleteStartup, Goto, PassTypeOK, PassKnows, PassSteps
<1>9. ASSUME NEW p \in Processes, ReconcileWaits(p) \/ ReconcileTerminal(p)
      PROVE  PassTypeOK' /\ PassKnows'
  <2>1. /\ Goto(p, "finish") /\ UNCHANGED <<claim, snap, target, launches, faults>>
        /\ pc[p] \notin {"idle", "finish"}
    BY <1>9 DEF ReconcileWaits, ReconcileTerminal, PassError, Dispatched
  <2> QED
    BY <1>6, <2>1 DEF PassTypeOK, PassSteps
<1>10. ASSUME NEW p \in Processes, ReconcileLive(p) PROVE PassTypeOK' /\ PassKnows'
  <2>1. /\ Goto(p, "finish") /\ UNCHANGED <<claim, snap, target, faults>>
        /\ pc[p] \notin {"idle", "finish"}
        /\ \E o \in OpIds : launches' \subseteq launches \cup {<<p, o>>}
    BY <1>10 DEF ReconcileLive, Dispatched
  <2> QED
    BY <1>6, <2>1 DEF PassTypeOK, PassSteps
<1>11. ASSUME NEW p \in Processes, AdvanceBegins(p) \/ RecoverPlannerStartup(p)
       PROVE  PassTypeOK' /\ PassKnows'
  <2>1. PICK o \in OpIds : target' = [target EXCEPT ![p] = o] /\ o[1] = claim[p].item
    BY <1>11 DEF AdvanceBegins, RecoverPlannerStartup, Candidate, Dispatched, ActiveOps,
                 PassKnows
  <2>2. PICK step \in PassSteps : pc' = [pc EXCEPT ![p] = step]
    BY <1>11 DEF AdvanceBegins, RecoverPlannerStartup, Goto, PassSteps
  <2>3. UNCHANGED <<claim, snap, launches, faults>> /\ pc[p] \notin {"idle", "finish"}
    BY <1>11 DEF AdvanceBegins, RecoverPlannerStartup, Dispatched
  <2> QED
    BY <2>1, <2>2, <2>3 DEF PassTypeOK, PassKnows
<1>12. ASSUME LaunchJob \/ LaunchLost PROVE PassTypeOK' /\ PassKnows'
  BY <1>12 DEF LaunchJob, LaunchLost, PassTypeOK, PassKnows
<1>13. ASSUME \/ \E o \in OpIds : RunStarts(o) \/ RunReports(o) \/ RunReaped(o)
              \/ \E w \in WorkItems : CloseWorkItem(w)
       PROVE  UNCHANGED <<pc, claim, snap, target, launches, faults>>
  BY <1>13 DEF RunStarts, RunReports, RunReaped, CloseWorkItem
<1>15. ASSUME NEW p \in Processes, NEW w \in WorkItems, NEW c \in Controls,
              SetWorkflowControl(p, w, c)
       PROVE  UNCHANGED <<pc, claim, snap, target, launches, faults>>
  BY <1>15 DEF SetWorkflowControl
<1>16. ASSUME Tick PROVE UNCHANGED <<pc, claim, snap, target, launches, faults>>
  BY <1>16, Zenon DEF Tick
<1>14. ASSUME UNCHANGED vars PROVE UNCHANGED <<pc, claim, snap, target, launches, faults>>
  BY <1>14 DEF vars
<1> QED
  BY <1>1, <1>2, <1>4, <1>5, <1>17, <1>7, <1>8, <1>9, <1>10, <1>11, <1>12, <1>13, <1>14,
     <1>15, <1>16
     DEF Next, PassStep

\* The tables, the claims and the passes are well formed in every reachable
\* state.
THEOREM TypeCorrect == Spec => []TypeOK
<1>1. TypeOK /\ [Next]_vars => TypeOK'
  BY TypeStore, TypeWorld, TypePass DEF TypeOK
<1> QED
  BY TypeInit, <1>1, PTL DEF Spec

-----------------------------------------------------------------------------
\* What one step may do to an operation, its Run and its locks.

Frame(p) == /\ pc'[p] = pc[p]
            /\ claim'[p] = claim[p]
            /\ snap'[p] = snap[p]
            /\ target'[p] = target[p]

\* A process that was about to send an operation takes its next step.
Sends(o) ==
    \E q \in Processes : pc[q] \in BeforeEffect /\ target[q] = o /\ pc'[q] \notin BeforeEffect

\* A Run is created once, for a dispatched operation; it never comes back.
RunMoves(o) ==
    \/ runs'[o] = runs[o] /\ created'[o] = created[o]
    \/ /\ runs[o] = "none"
       /\ created'[o] = created[o] + 1
       /\ status'[o] = status[o]
       /\ Action(o) = "start_planner" \/ Sends(o)
       /\ \/ runs'[o] = "partial" /\ status[o] \in {"running", "blocked"}
          \/ runs'[o] = "completed" /\ status[o] \notin {"none", "pending"}
    \/ /\ runs[o] \in LiveRun
       /\ runs'[o] \in LiveRun \cup Terminal
       /\ created'[o] = created[o]
       /\ status'[o] = status[o]

StatusMoves(o) ==
    \/ status'[o] = status[o]
    \/ /\ \/ status[o] = "none" /\ status'[o] = "pending"
          \/ status[o] = "pending" /\ status'[o] = "running"
       /\ rec[o[1]].control = "active"
    \/ status[o] \in {"running", "blocked"} /\ status'[o] \in {"running", "blocked"}
    \/ /\ status[o] \in {"running", "blocked"}
       /\ status'[o] = "succeeded"
       /\ \/ runs[o] \in Terminal
          \/ runs[o] = "none" /\ Action(o) = "continue_stage" /\ Sends(o)

\* A dispatched operation has its locks until it succeeds.
LockMoves(o) ==
    \/ status'[o] \notin {"running", "blocked"}
    \/ \A k \in ResourceKeys(o) : locks'[k] = o

\* Only the current owner of a WorkItem touches its operation, and moves on.
OwnerMoves(o) ==
    \/ /\ status'[o] = status[o]
       /\ \A k \in LockKeys : locks[k] = o => locks'[k] = o
    \/ \E p \in Processes : FenceClaim(p) /\ claim[p].item = o[1] /\ pc'[p] # pc[p]

OpMoves(o) == RunMoves(o) /\ StatusMoves(o) /\ LockMoves(o) /\ OwnerMoves(o)

\* Every resource key of an operation is a row of the lock table.
LEMMA KeysAreLocks == \A o \in OpIds : ResourceKeys(o) \subseteq LockKeys
BY DEF ResourceKeys, LockKeys, OpIds

\* A free lock is held by no operation.
LEMMA NilIsNoOp == Nil \notin OpIds
BY ConstantsAssumption

\* Nothing about any operation changes.
LEMMA QuietMoves ==
    ASSUME IInv, NEW o \in OpIds,
           status' = status, locks' = locks, runs'[o] = runs[o], created'[o] = created[o]
    PROVE  OpMoves(o)
BY KeysAreLocks DEF IInv, DispatchedHoldsLocks, OpMoves, RunMoves, StatusMoves, LockMoves, OwnerMoves

\* An operation that a process records is past its boundary, or was begun by
\* this process under the claim it still holds.
LEMMA RecordMoves ==
    ASSUME IInv, NEW p \in Processes, NEW o \in OpIds, NEW s \in OpStates,
           RecordWorkflowOperation(p, o, s), o[1] = claim[p].item, pc'[p] # pc[p],
           UNCHANGED <<runs, created>>,
           \/ s = "running" /\ pc[p] = "begun" /\ o = target[p]
           \/ s \in {"running", "blocked"} /\ status[o] \in {"running", "blocked", "succeeded"}
           \/ /\ s = "succeeded"
              /\ status[o] \in {"running", "blocked", "succeeded"}
              /\ \/ runs[o] \in Terminal
                 \/ runs[o] = "none" /\ Action(o) = "continue_stage" /\ Sends(o)
    PROVE  \A x \in OpIds : OpMoves(x)
<1>1. CASE ~RecordAdmitted(p, o)
  BY <1>1, QuietMoves DEF RecordWorkflowOperation
<1>2. CASE RecordAdmitted(p, o)
  <2>1. /\ FenceClaim(p)
        /\ status' = [status EXCEPT ![o] = s]
        /\ locks' = IF s = "succeeded"
                    THEN [k \in LockKeys |-> IF locks[k] = o THEN Nil ELSE locks[k]]
                    ELSE locks
        /\ status[o] # "succeeded"
    BY <1>2 DEF RecordWorkflowOperation, RecordAdmitted
  <2>2. status \in [OpIds -> OpStates]
    BY DEF IInv, TypeOK, StoreTypeOK
  <2>3. \/ /\ s = "running" /\ status[o] = "pending" /\ rec[o[1]].control = "active"
           /\ \A k \in ResourceKeys(o) : locks[k] = o
        \/ status[o] \in {"running", "blocked"} /\ \A k \in ResourceKeys(o) : locks[k] = o
    BY <2>1 DEF IInv, BegunIsPending, DispatchedHoldsLocks, FenceClaim
  <2>4. OpMoves(o)
    <3>1. RunMoves(o)
      BY DEF RunMoves
    <3>2. StatusMoves(o)
      BY <2>1, <2>2, <2>3 DEF StatusMoves
    <3>3. LockMoves(o)
      BY <2>1, <2>2, <2>3 DEF LockMoves
    <3>4. OwnerMoves(o)
      BY <2>1 DEF OwnerMoves
    <3> QED
      BY <3>1, <3>2, <3>3, <3>4 DEF OpMoves
  <2>5. ASSUME NEW x \in OpIds, x # o PROVE OpMoves(x)
    <3>1. status'[x] = status[x]
      BY <2>1, <2>2, <2>5
    <3>2. \A k \in LockKeys : locks[k] = x => locks'[k] = x
      BY <2>1, <2>5
    <3>3. status[x] \in {"running", "blocked"} => \A k \in ResourceKeys(x) : locks'[k] = x
      BY <3>2, KeysAreLocks DEF IInv, DispatchedHoldsLocks
    <3> QED
      BY <3>1, <3>2, <3>3 DEF OpMoves, RunMoves, StatusMoves, LockMoves, OwnerMoves
  <2> QED
    BY <2>4, <2>5
<1> QED
  BY <1>1, <1>2

\* begin_workflow_operation takes only free locks and only a new or pending
\* operation.
LEMMA BeginMoves ==
    ASSUME IInv, NEW p \in Processes, AdvanceBegins(p)
    PROVE  \A x \in OpIds : OpMoves(x)
<1>1. PICK o \in OpIds : Candidate(p, o) /\ MayBegin(p, o) /\ BeginWorkflowOperation(o)
  BY DEF AdvanceBegins
<1>2. status \in [OpIds -> OpStates] /\ pc \in [Processes -> PassSteps \cup {"idle"}]
  BY DEF IInv, TypeOK, StoreTypeOK, PassTypeOK
<1>3. pc[p] = "advance" /\ pc'[p] = "begun" /\ UNCHANGED <<runs, created>>
  BY <1>2 DEF AdvanceBegins, Goto, world
<1>4. /\ FenceClaim(p) /\ o[1] = claim[p].item
      /\ status[o] \in {"none", "pending"}
      /\ status' = [status EXCEPT ![o] = "pending"]
      /\ locks' = [k \in LockKeys |-> IF k \in ResourceKeys(o) THEN o ELSE locks[k]]
      /\ \A k \in ResourceKeys(o) : locks[k] \in {Nil, o}
  BY <1>1, Zenon DEF Candidate, MayBegin, BeginWorkflowOperation
<1>7. rec[o[1]].control = "active"
  BY <1>1 DEF Candidate, MayBegin, FenceClaim
<1>5. OpMoves(o)
  BY <1>2, <1>3, <1>4, <1>7 DEF OpMoves, RunMoves, StatusMoves, LockMoves, OwnerMoves
<1>6. ASSUME NEW x \in OpIds, x # o PROVE OpMoves(x)
  <2>1. status'[x] = status[x]
    BY <1>2, <1>4, <1>6
  <2>2. \A k \in LockKeys : locks[k] = x => locks'[k] = x
    BY <1>4, <1>6, NilIsNoOp
  <2>3. status[x] \in {"running", "blocked"} => \A k \in ResourceKeys(x) : locks'[k] = x
    BY <2>2, KeysAreLocks DEF IInv, DispatchedHoldsLocks
  <2> QED
    BY <1>3, <2>1, <2>2, <2>3 DEF OpMoves, RunMoves, StatusMoves, LockMoves, OwnerMoves
<1> QED
  BY <1>5, <1>6

\* release_pending_workflow_locks frees only a pending operation's locks.
LEMMA ReleaseMoves ==
    ASSUME IInv, NEW p \in Processes, AdvanceReleasesPending(p)
    PROVE  \A x \in OpIds : OpMoves(x)
<1>1. PICK o \in ActiveOps(claim[p].item) :
        /\ status[o] = "pending"
        /\ locks' = IF FenceClaim(p)
                    THEN [k \in LockKeys |-> IF locks[k] = o THEN Nil ELSE locks[k]]
                    ELSE locks
  BY DEF AdvanceReleasesPending
<1>2. o \in OpIds /\ o[1] = claim[p].item
  BY <1>1 DEF ActiveOps
<1>3. /\ pc \in [Processes -> PassSteps \cup {"idle"}]
      /\ pc[p] = "advance" /\ pc'[p] = "finish" /\ UNCHANGED <<status, runs, created>>
  BY DEF IInv, TypeOK, PassTypeOK, AdvanceReleasesPending, Goto, world
<1>4. ASSUME NEW x \in OpIds PROVE OpMoves(x)
  <2>1. (x # o \/ ~FenceClaim(p)) => \A k \in LockKeys : locks[k] = x => locks'[k] = x
    BY <1>1
  <2>2. status[x] \in {"running", "blocked"} => \A k \in ResourceKeys(x) : locks'[k] = x
    BY <1>1, <2>1, KeysAreLocks DEF IInv, DispatchedHoldsLocks
  <2>3. OwnerMoves(x)
    BY <1>2, <1>3, <2>1 DEF OwnerMoves
  <2> QED
    BY <1>3, <2>2, <2>3 DEF OpMoves, RunMoves, StatusMoves, LockMoves
<1> QED
  BY <1>4

\* A step that only moves Runs.
LEMMA RunStepMoves ==
    ASSUME IInv, UNCHANGED store, \A x \in OpIds : RunMoves(x)
    PROVE  \A x \in OpIds : OpMoves(x)
BY KeysAreLocks
   DEF IInv, DispatchedHoldsLocks, store, OpMoves, StatusMoves, LockMoves, OwnerMoves

\* StartRun and ApplyDecision find an operation past its boundary without Run.
LEMMA CreateMoves ==
    ASSUME IInv, NEW p \in Processes, StartRun(p) \/ ApplyDecision(p)
    PROVE  \A x \in OpIds : OpMoves(x)
<1> DEFINE o == target[p]
<1>1. pc[p] = "admitted" /\ o \in OpIds /\ UNCHANGED store
  BY DEF StartRun, ApplyDecision, IInv, TypeOK, PassKnows
<1>2. runs[o] = "none"
  BY <1>1 DEF StartRun, ApplyDecision, IInv, OneDispatcher, BeforeEffect, RunsWorker,
              WorkerActions
<1>3. /\ status[o] \notin {"none", "pending"}
      /\ RunsWorker(o) => status[o] \in {"running", "blocked"}
  BY <1>1, <1>2 DEF IInv, OneDispatcher, BeforeEffect, SuccessIsFinal, Terminal
<1>4. PICK r \in {"partial", "completed"} :
        CreateRun(o, r) /\ (r = "partial" => RunsWorker(o))
  BY DEF StartRun, ApplyDecision
<1>5. runs \in [OpIds -> RunStates] /\ created \in [OpIds -> Nat] /\ status' = status
  BY <1>1 DEF IInv, TypeOK, WorldTypeOK, store
<1>6. Sends(o)
  <2>1. pc' = [pc EXCEPT ![p] = "startup"] \/ pc' = [pc EXCEPT ![p] = "reconcile"]
    BY DEF StartRun, ApplyDecision, Goto
  <2>2. pc'[p] \notin BeforeEffect
    BY <2>1 DEF IInv, TypeOK, PassTypeOK, BeforeEffect
  <2> QED
    BY <1>1, <2>2 DEF Sends, BeforeEffect
<1>7. \A x \in OpIds : RunMoves(x)
  BY <1>1, <1>2, <1>3, <1>4, <1>5, <1>6 DEF CreateRun, RunMoves
<1> QED
  BY <1>1, <1>7, RunStepMoves

\* The planner recovery creates a Run only where there is none.
LEMMA RecoverMoves ==
    ASSUME IInv, NEW p \in Processes, RecoverPlannerStartup(p)
    PROVE  \A x \in OpIds : OpMoves(x)
<1>1. PICK o \in OpIds :
        /\ status[o] = "running" /\ Action(o) = "start_planner"
        /\ IF runs[o] = "none" THEN CreateRun(o, "partial") ELSE UNCHANGED <<runs, created>>
  BY DEF RecoverPlannerStartup, PlannerIncomplete
<1>2. /\ runs \in [OpIds -> RunStates] /\ created \in [OpIds -> Nat]
      /\ UNCHANGED store /\ status' = status
  BY DEF IInv, TypeOK, WorldTypeOK, store, RecoverPlannerStartup
<1>3. \A x \in OpIds : RunMoves(x)
  BY <1>1, <1>2 DEF CreateRun, RunMoves
<1> QED
  BY <1>2, <1>3, RunStepMoves

\* A live Run goes on or ends.
LEMMA LiveMoves ==
    ASSUME IInv, NEW o \in OpIds, NEW r \in LiveRun \cup Terminal,
           runs[o] \in LiveRun, runs' = [runs EXCEPT ![o] = r],
           created' = created, UNCHANGED <<status, locks>>
    PROVE  \A x \in OpIds : OpMoves(x)
<1>1. runs \in [OpIds -> RunStates]
  BY DEF IInv, TypeOK, WorldTypeOK
<1>2. \A x \in OpIds : RunMoves(x)
  BY <1>1 DEF RunMoves
<1> QED
  BY <1>2, KeysAreLocks
     DEF IInv, DispatchedHoldsLocks, OpMoves, StatusMoves, LockMoves, OwnerMoves

\* What a pass reconciles is past its boundary, and a Run it saw ended has ended.
LEMMA DispatchedMeans ==
    ASSUME IInv, NEW p \in Processes, NEW o \in OpIds, Dispatched(p, o)
    PROVE  /\ o[1] = claim[p].item /\ pc[p] \in {"advance", "reconcile"}
           /\ status[o] \in {"running", "blocked", "succeeded"}
           /\ SeenRun(p, o) \in Terminal => runs[o] \in Terminal
<1>1. CASE pc[p] = "advance"
  <2>1. o[1] = claim[p].item /\ status[o] \in {"running", "blocked"}
    BY <1>1 DEF Dispatched, ActiveOps
  <2>2. o[2] \in Positions /\ o = <<o[1], o[2]>>
    BY DEF OpIds
  <2>3. SeenRun(p, o) \in Terminal => runs[o] \in Terminal
    BY <1>1, <2>1, <2>2 DEF SeenRun, IInv, SnapshotsAge
  <2> QED
    BY <1>1, <2>1, <2>3
<1>2. CASE pc[p] # "advance"
  <2>1. pc[p] = "reconcile" /\ o = target[p]
    BY <1>2 DEF Dispatched
  <2> QED
    BY <2>1 DEF SeenRun, IInv, PastBoundary, TypeOK, PassKnows
<1> QED
  BY <1>1, <1>2

\* Every step moves every operation along its life cycle, under its claim.
LEMMA StepMoves == IInv /\ [Next]_vars => \A x \in OpIds : OpMoves(x)
<1> SUFFICES ASSUME IInv, [Next]_vars PROVE \A x \in OpIds : OpMoves(x)
  OBVIOUS
<1> DEFINE Goal == \A x \in OpIds : OpMoves(x)
<1>t. TypeOK /\ pc \in [Processes -> PassSteps \cup {"idle"}]
  BY DEF IInv, TypeOK, PassTypeOK
<1>q. ASSUME UNCHANGED <<status, locks, runs, created>> PROVE Goal
  BY <1>q, QuietMoves
<1>1. ASSUME NEW p \in Processes, RecordRunning(p) PROVE Goal
  <2>1. /\ target[p] \in OpIds /\ target[p][1] = claim[p].item
        /\ pc[p] = "begun" /\ pc'[p] # "begun" /\ UNCHANGED <<runs, created>>
        /\ RecordWorkflowOperation(p, target[p], "running")
    BY <1>1, <1>t DEF RecordRunning, TypeOK, PassKnows, Goto, world
  <2> QED
    BY <2>1, RecordMoves DEF OpStates
<1>2. ASSUME NEW p \in Processes, RecordExamined(p) PROVE Goal
  <2>1. /\ target[p] \in OpIds /\ target[p][1] = claim[p].item
        /\ pc[p] = "examined" /\ pc'[p] # "examined" /\ UNCHANGED <<runs, created>>
        /\ RecordWorkflowOperation(p, target[p], "succeeded")
    BY <1>2, <1>t DEF RecordExamined, TypeOK, PassKnows, Goto, world
  <2>2. /\ Action(target[p]) = "continue_stage" /\ runs[target[p]] = "none"
        /\ status[target[p]] \in {"running", "blocked", "succeeded"}
    BY <2>1 DEF IInv, OneDispatcher, BeforeEffect
  <2>3. Sends(target[p])
    BY <1>2, <1>t, <2>1 DEF Sends, BeforeEffect, RecordExamined, Goto
  <2> QED
    BY <2>1, <2>2, <2>3, RecordMoves DEF OpStates
<1>3. ASSUME NEW p \in Processes, RecordBlocked(p) PROVE Goal
  <2>1. /\ target[p] \in OpIds /\ target[p][1] = claim[p].item
        /\ pc[p] = "failed" /\ pc'[p] # "failed" /\ UNCHANGED <<runs, created>>
        /\ RecordWorkflowOperation(p, target[p], "blocked")
    BY <1>3, <1>t DEF RecordBlocked, TypeOK, PassKnows, Goto, world
  <2>2. status[target[p]] \in {"running", "blocked", "succeeded"}
    BY <2>1 DEF IInv, PastBoundary
  <2> QED
    BY <2>1, <2>2, RecordMoves DEF OpStates
<1>5. ASSUME NEW p \in Processes, ReconcileTerminal(p) PROVE Goal
  <2>1. PICK o \in OpIds : /\ Dispatched(p, o) /\ SeenRun(p, o) \in Terminal
                           /\ RecordWorkflowOperation(p, o, "succeeded")
    BY <1>5 DEF ReconcileTerminal
  <2>2. pc'[p] = "finish" /\ UNCHANGED <<runs, created>>
    BY <1>5, <1>t DEF ReconcileTerminal, Goto, world
  <2> QED
    BY <2>1, <2>2, DispatchedMeans, RecordMoves DEF OpStates
<1>6. ASSUME NEW p \in Processes, ReconcileLive(p) PROVE Goal
  <2>1. PICK o \in OpIds : Dispatched(p, o) /\ RecordWorkflowOperation(p, o, "running")
    BY <1>6 DEF ReconcileLive
  <2>2. pc'[p] = "finish" /\ UNCHANGED <<runs, created>>
    BY <1>6, <1>t DEF ReconcileLive, Goto, world
  <2> QED
    BY <2>1, <2>2, DispatchedMeans, RecordMoves DEF OpStates
<1>7. ASSUME NEW p \in Processes, CompleteStartup(p) \/ CompleteDeferredStartup(p) PROVE Goal
  <2>1. /\ target[p] \in OpIds /\ runs[target[p]] \in LiveRun
        /\ runs' = [runs EXCEPT ![target[p]] = "queued"]
        /\ created' = created /\ UNCHANGED <<status, locks>>
    BY <1>7, <1>t DEF CompleteStartup, CompleteDeferredStartup, TypeOK, PassKnows, LiveRun, store
  <2> QED
    BY <2>1, LiveMoves DEF LiveRun
<1>8. ASSUME NEW o \in OpIds, RunStarts(o) \/ RunReports(o) \/ RunReaped(o) PROVE Goal
  <2>1. PICK r \in LiveRun \cup Terminal : runs' = [runs EXCEPT ![o] = r]
    BY <1>8 DEF RunStarts, RunReports, RunReaped, LiveRun, Terminal
  <2>2. runs[o] \in LiveRun /\ created' = created /\ UNCHANGED <<status, locks>>
    BY <1>8 DEF RunStarts, RunReports, RunReaped, LiveRun, store
  <2> QED
    BY <2>1, <2>2, LiveMoves
<1>9. ASSUME NEW p \in Processes,
             \/ AdvanceWaits(p) \/ LoadFails(p)
             \/ FinalizationFails(p) \/ AdvanceRefused(p) \/ AdvanceConflicts(p)
             \/ ApprovalInvalid(p) \/ ExecutorAdmits(p) \/ ExecutorFails(p)
             \/ NoContinuation(p) \/ DeferredStartupFails(p) \/ ReconcileWaits(p)
             \/ Crash(p) \/ AbandonPass(p)
      PROVE  UNCHANGED <<store, world>>
  BY <1>9 DEF AdvanceWaits, LoadFails,
              FinalizationFails, AdvanceRefused, AdvanceConflicts, ApprovalInvalid,
              ExecutorAdmits, ExecutorFails, NoContinuation, DeferredStartupFails,
              ReconcileWaits, Crash, AbandonPass, PassError
<1>10. ASSUME NEW p \in Processes, ReconcileOnce(p) \/ Finish(p)
       PROVE  UNCHANGED <<status, locks, world>>
  BY <1>10 DEF ReconcileOnce, Finish
<1>11. ASSUME NEW p \in Processes, NEW w \in WorkItems, NEW c \in Controls,
              SetWorkflowControl(p, w, c)
       PROVE  UNCHANGED <<status, locks, world>>
  BY <1>11 DEF SetWorkflowControl
<1>12. ASSUME Tick PROVE UNCHANGED <<status, locks, world>>
  BY <1>12, Zenon DEF Tick
<1>13. ASSUME \/ LaunchJob \/ LaunchLost \/ \E w \in WorkItems : CloseWorkItem(w)
       PROVE  UNCHANGED <<store, runs, created>>
  BY <1>13 DEF LaunchJob, LaunchLost, CloseWorkItem, world
<1>14. ASSUME UNCHANGED vars PROVE UNCHANGED <<status, locks, runs, created>>
  BY <1>14 DEF vars
<1>15. ASSUME UNCHANGED <<store, world>> \/ UNCHANGED <<status, locks, world>>
              \/ UNCHANGED <<store, runs, created>>
       PROVE  Goal
  BY <1>15, <1>q DEF store, world
<1> QED
  BY <1>1, <1>2, <1>3, <1>5, <1>6, <1>7, <1>8, <1>9, <1>10, <1>11, <1>12, <1>13, <1>14,
     <1>15, <1>q, BeginMoves, ReleaseMoves, CreateMoves, RecoverMoves
     DEF Next, PassStep

-----------------------------------------------------------------------------
\* The parts of the inductive invariant about operations follow from OpMoves.
LEMMA OperationParts ==
    ASSUME IInv, TypeOK', \A x \in OpIds : OpMoves(x)
    PROVE  /\ DispatchedHoldsLocks'
           /\ RunsFollowOperations'
           /\ SuccessIsFinal'
           /\ CreatedCountsRuns'
<1> USE DEF OpMoves
<1>1. DispatchedHoldsLocks'
  BY DEF DispatchedHoldsLocks, LockMoves
<1>2. RunsFollowOperations'
  BY DEF IInv, RunsFollowOperations, RunMoves, StatusMoves, LiveRun, Terminal, RunsWorker, Action
<1>3. SuccessIsFinal'
  BY DEF IInv, SuccessIsFinal, RunMoves, StatusMoves, LiveRun, Terminal, Action
<1>4. CreatedCountsRuns'
  BY DEF IInv, CreatedCountsRuns, RunMoves, LiveRun, Terminal
<1> QED
  BY <1>1, <1>2, <1>3, <1>4

\* A step of one process leaves the others where they are.
LEMMA Frames ==
    ASSUME TypeOK, [Next]_vars, NEW p \in Processes
    PROVE  Frame(p) \/ PassStep(p) \/ Crash(p) \/ AbandonPass(p)
<1>1. /\ pc \in [Processes -> PassSteps \cup {"idle"}] /\ claim \in [Processes -> Claims]
      /\ snap \in [Processes -> Snapshots \cup {Nil}]
      /\ target \in [Processes -> OpIds \cup {Nil}]
  BY DEF TypeOK, PassTypeOK
<1>2. ASSUME NEW q \in Processes, q # p,
             \/ ReconcileOnce(q) \/ Finish(q) \/ Crash(q) \/ AbandonPass(q) \/ LoadFails(q)
             \/ FinalizationFails(q)
             \/ AdvanceBegins(q) \/ RecoverPlannerStartup(q)
      PROVE  Frame(p)
  BY <1>1, <1>2 DEF Frame, ReconcileOnce, Finish, Crash, AbandonPass, LoadFails,
                    FinalizationFails,
                    AdvanceBegins, RecoverPlannerStartup, EndPass, Goto
<1>3. ASSUME NEW q \in Processes, q # p,
             \/ AdvanceWaits(q) \/ AdvanceRefused(q) \/ AdvanceConflicts(q)
             \/ AdvanceReleasesPending(q) \/ ApprovalInvalid(q) \/ RecordRunning(q)
             \/ ExecutorAdmits(q) \/ ExecutorFails(q) \/ StartRun(q) \/ ApplyDecision(q)
             \/ CompleteStartup(q) \/ NoContinuation(q) \/ RecordExamined(q)
             \/ RecordBlocked(q) \/ CompleteDeferredStartup(q) \/ DeferredStartupFails(q)
             \/ ReconcileWaits(q) \/ ReconcileTerminal(q) \/ ReconcileLive(q)
      PROVE  Frame(p)
  <2>1. UNCHANGED <<claim, snap, target>> /\ \E step \in PassSteps : Goto(q, step)
    BY <1>3 DEF AdvanceWaits, AdvanceRefused, AdvanceConflicts, AdvanceReleasesPending,
                ApprovalInvalid, RecordRunning, ExecutorAdmits, ExecutorFails, StartRun,
                ApplyDecision, CompleteStartup, NoContinuation, RecordExamined,
                RecordBlocked, CompleteDeferredStartup, DeferredStartupFails,
                ReconcileWaits, ReconcileTerminal, ReconcileLive, PassError, PassSteps
  <2> QED
    BY <1>1, <1>3, <2>1 DEF Frame, Goto
<1>4. ASSUME UNCHANGED <<pc, claim, snap, target>> PROVE Frame(p)
  BY <1>4 DEF Frame
<1>5. ASSUME \/ LaunchJob \/ LaunchLost
             \/ \E o \in OpIds : RunStarts(o) \/ RunReports(o) \/ RunReaped(o)
             \/ \E w \in WorkItems : CloseWorkItem(w)
      PROVE  UNCHANGED <<pc, claim, snap, target>>
  BY <1>5 DEF LaunchJob, LaunchLost, RunStarts, RunReports, RunReaped, CloseWorkItem
<1>6. ASSUME NEW q \in Processes, NEW w \in WorkItems, NEW c \in Controls,
             SetWorkflowControl(q, w, c)
      PROVE  UNCHANGED <<pc, claim, snap, target>>
  BY <1>6 DEF SetWorkflowControl
<1>7. ASSUME Tick PROVE UNCHANGED <<pc, claim, snap, target>>
  BY <1>7, Zenon DEF Tick
<1>8. ASSUME UNCHANGED vars PROVE UNCHANGED <<pc, claim, snap, target>>
  BY <1>8 DEF vars
<1> QED
  BY <1>2, <1>3, <1>4, <1>5, <1>6, <1>7, <1>8 DEF Next, PassStep

\* The steps of a process that do not write its reconciliation row.
LeavesRec(q) ==
    \/ AdvanceWaits(q) \/ LoadFails(q)
    \/ FinalizationFails(q) \/ AdvanceRefused(q) \/ AdvanceBegins(q)
    \/ AdvanceConflicts(q) \/ AdvanceReleasesPending(q) \/ ApprovalInvalid(q)
    \/ RecordRunning(q) \/ ExecutorAdmits(q) \/ ExecutorFails(q) \/ StartRun(q)
    \/ ApplyDecision(q) \/ CompleteStartup(q) \/ NoContinuation(q)
    \/ RecordExamined(q) \/ RecordBlocked(q) \/ RecoverPlannerStartup(q)
    \/ CompleteDeferredStartup(q) \/ DeferredStartupFails(q) \/ ReconcileWaits(q)
    \/ ReconcileTerminal(q) \/ ReconcileLive(q) \/ Crash(q) \/ AbandonPass(q)

\* These steps leave what a process is recording alone.
LEMMA RecUnchanged == ASSUME NEW q \in Processes, LeavesRec(q) PROVE rec' = rec
BY DEF LeavesRec, AdvanceWaits, LoadFails,
       FinalizationFails, AdvanceRefused, AdvanceBegins, AdvanceConflicts,
       AdvanceReleasesPending, ApprovalInvalid, RecordRunning, ExecutorAdmits,
       ExecutorFails, StartRun, ApplyDecision, CompleteStartup, NoContinuation,
       RecordExamined, RecordBlocked, RecoverPlannerStartup, CompleteDeferredStartup,
       DeferredStartupFails, ReconcileWaits, ReconcileTerminal, ReconcileLive,
       Crash, AbandonPass, PassError, store

\* A claim is never won back: who passes the fence after a step passed before.
LEMMA FenceBack ==
    ASSUME TypeOK, [Next]_vars, NEW p \in Processes, Frame(p), pc[p] # "idle",
           FenceClaim(p)'
    PROVE  FenceClaim(p)
<1> DEFINE w == claim[p].item
<1>1. /\ w \in WorkItems /\ claim'[p] = claim[p] /\ rec \in [WorkItems -> Rows]
      /\ rec' \in [WorkItems -> Rows] /\ rec[w] \in Rows
  BY TypeStore DEF TypeOK, PassKnows, Frame, StoreTypeOK
<1>2. /\ rec'[w].owner = p /\ rec'[w].fence = claim[p].fence /\ rec'[w].until > 0
      /\ rec'[w].version = claim[p].version /\ rec'[w].control = claim[p].control
  BY <1>1 DEF FenceClaim
<1>3. ASSUME rec'[w] = rec[w] PROVE FenceClaim(p)
  BY <1>2, <1>3 DEF FenceClaim
<1>4. ASSUME NEW q \in Processes, ReconcileOnce(q) PROVE FenceClaim(p)
  <2>1. pc[q] = "idle" /\ q # p
    BY <1>4 DEF ReconcileOnce
  <2>2. PICK v \in WorkItems : ClaimDueWorkflow(q, v)
    BY <1>4 DEF ReconcileOnce
  <2>6. PICK f \in Nat : f = rec[v].fence + 1
    BY <1>1 DEF Rows
  <2>3. rec' = [rec EXCEPT ![v] = [rec[v] EXCEPT !.owner = q, !.fence = f,
                                                 !.until = LeaseTicks]]
    BY <1>1, <2>2, <2>6 DEF ClaimDueWorkflow
  <2>4. v = w => rec'[w].owner = q
    BY <1>1, <2>3 DEF Rows
  <2>5. v # w => rec'[w] = rec[w]
    BY <1>1, <2>3
  <2> QED
    BY <1>2, <1>3, <2>1, <2>4, <2>5
<1>5. ASSUME NEW q \in Processes, Finish(q) PROVE FenceClaim(p)
  <2>1. rec'[w] = rec[w] \/ rec'[w].owner = Nil
    BY <1>1, <1>5 DEF Finish, FinishWorkflowReconciliation, Rows
  <2> QED
    BY <1>2, <1>3, <2>1, ConstantsAssumption
<1>6. ASSUME NEW q \in Processes, NEW v \in WorkItems, NEW c \in Controls,
             SetWorkflowControl(q, v, c)
      PROVE  FenceClaim(p)
  <2>4. PICK n \in Nat, f \in Nat : n = rec[v].version + 1 /\ f = rec[v].fence + 1
    BY <1>1 DEF Rows
  <2>1. rec' = [rec EXCEPT ![v] = [rec[v] EXCEPT !.control = c, !.version = n, !.fence = f,
                                     !.owner = Nil, !.until = 0, !.due = 0, !.checks = 0]]
    BY <1>1, <1>6, <2>4 DEF SetWorkflowControl
  <2>2. v = w => rec'[w].owner = Nil
    BY <1>1, <2>1 DEF Rows
  <2>3. v # w => rec'[w] = rec[w]
    BY <1>1, <2>1
  <2> QED
    BY <1>2, <1>3, <2>2, <2>3, ConstantsAssumption
<1>7. ASSUME NEW o \in OpIds, RunReports(o) PROVE FenceClaim(p)
  <2>1. PICK d : rec'[w] = [rec[w] EXCEPT !.due = d] \/ rec'[w] = rec[w]
    BY <1>1, <1>7 DEF RunReports
  <2> QED
    BY <1>1, <1>2, <2>1 DEF FenceClaim, Rows
<1>8. ASSUME Tick PROVE FenceClaim(p)
  <2>1. rec'[w] = Age(rec[w])
    BY <1>1, <1>8, Zenon DEF Tick
  <2>2. /\ rec'[w].owner = rec[w].owner /\ rec'[w].fence = rec[w].fence
        /\ rec'[w].version = rec[w].version /\ rec'[w].control = rec[w].control
    BY <1>1, <2>1 DEF Age, Rows
  <2>3. rec'[w].until > 0 => rec[w].until > 0
    BY <1>1, <2>1 DEF Age, Rows
  <2> QED
    BY <1>2, <2>2, <2>3, Zenon DEF FenceClaim
<1>9. ASSUME NEW q \in Processes, LeavesRec(q) PROVE rec' = rec
  BY <1>9, RecUnchanged
<1>10. ASSUME \/ LaunchJob \/ LaunchLost \/ \E o \in OpIds : RunStarts(o) \/ RunReaped(o)
              \/ \E v \in WorkItems : CloseWorkItem(v)
       PROVE  rec' = rec
  BY <1>10 DEF LaunchJob, LaunchLost, RunStarts, RunReaped, CloseWorkItem, store
<1>11. ASSUME UNCHANGED vars PROVE rec' = rec
  BY <1>11 DEF vars
<1> QED
  BY <1>3, <1>4, <1>5, <1>6, <1>7, <1>8, <1>9, <1>10, <1>11 DEF Next, PassStep, LeavesRec

\* Two processes never pass the fence for the same WorkItem.
LEMMA OneOwner ==
    ASSUME NEW p \in Processes, NEW q \in Processes, FenceClaim(p), FenceClaim(q),
           claim[p].item = claim[q].item
    PROVE  p = q
BY DEF FenceClaim

\* The steps that lead a process to each kind of program point.
LEMMA Entries ==
    ASSUME TypeOK, NEW p \in Processes, PassStep(p) \/ Crash(p) \/ AbandonPass(p)
    PROVE  /\ pc'[p] = "begun" => AdvanceBegins(p)
           /\ pc'[p] = "dispatch" => RecordRunning(p)
           /\ pc'[p] = "admitted" => ExecutorAdmits(p)
           /\ pc'[p] = "examined" => NoContinuation(p)
           /\ pc'[p] = "startup" => StartRun(p)
           /\ pc'[p] = "failed" => ExecutorFails(p)
           /\ pc'[p] = "deferred" => RecoverPlannerStartup(p)
           /\ pc'[p] = "reconcile" =>
                ApplyDecision(p) \/ CompleteStartup(p) \/ CompleteDeferredStartup(p)
           /\ pc'[p] = "advance" => ReconcileOnce(p)
<1>1. pc \in [Processes -> PassSteps \cup {"idle"}]
  BY DEF TypeOK, PassTypeOK
<1>2. ASSUME AdvanceWaits(p) \/ LoadFails(p)
             \/ FinalizationFails(p) \/ AdvanceRefused(p) \/ AdvanceConflicts(p)
             \/ AdvanceReleasesPending(p) \/ ApprovalInvalid(p) \/ RecordExamined(p)
             \/ RecordBlocked(p) \/ DeferredStartupFails(p) \/ ReconcileWaits(p)
             \/ ReconcileTerminal(p) \/ ReconcileLive(p)
      PROVE  pc'[p] = "finish"
  BY <1>1, <1>2 DEF AdvanceWaits, LoadFails,
                    FinalizationFails, AdvanceRefused, AdvanceConflicts,
                    AdvanceReleasesPending, ApprovalInvalid, RecordExamined, RecordBlocked,
                    DeferredStartupFails, ReconcileWaits, ReconcileTerminal, ReconcileLive,
                    PassError, Goto
<1>3. ASSUME Finish(p) \/ Crash(p) \/ AbandonPass(p) PROVE pc'[p] = "idle"
  BY <1>1, <1>3 DEF Finish, Crash, AbandonPass, EndPass, Goto
<1>4. /\ ReconcileOnce(p) => pc'[p] = "advance"
      /\ AdvanceBegins(p) => pc'[p] = "begun"
      /\ ExecutorAdmits(p) => pc'[p] = "admitted"
      /\ ExecutorFails(p) => pc'[p] = "failed"
      /\ StartRun(p) => pc'[p] = "startup"
      /\ ApplyDecision(p) => pc'[p] = "reconcile"
      /\ CompleteStartup(p) => pc'[p] = "reconcile"
      /\ CompleteDeferredStartup(p) => pc'[p] = "reconcile"
      /\ NoContinuation(p) => pc'[p] = "examined"
      /\ RecoverPlannerStartup(p) => pc'[p] = "deferred"
      /\ RecordRunning(p) => pc'[p] \in {"dispatch", "finish"}
  BY <1>1 DEF ReconcileOnce, AdvanceBegins, ExecutorAdmits, ExecutorFails, StartRun,
              ApplyDecision, CompleteStartup, CompleteDeferredStartup, NoContinuation,
              RecoverPlannerStartup, RecordRunning, Goto
<1> QED
  BY <1>2, <1>3, <1>4 DEF PassStep

\* What a process began stays pending while its claim holds: nobody else passes
\* the fence.
LEMMA BegunPart ==
    ASSUME IInv, [Next]_vars, TypeOK', \A x \in OpIds : OpMoves(x)
    PROVE  BegunIsPending'
<1> SUFFICES ASSUME NEW p \in Processes, pc'[p] = "begun", FenceClaim(p)'
             PROVE  /\ claim'[p].control = "active"
                    /\ status'[target'[p]] = "pending"
                    /\ \A k \in ResourceKeys(target'[p]) : locks'[k] = target'[p]
  BY DEF BegunIsPending, ResourceKeys, RunsWorker, Action
<1>t. TypeOK
  BY DEF IInv
<1>1. CASE Frame(p)
  <2>1. pc[p] = "begun" /\ target'[p] = target[p] /\ target[p] \in OpIds
        /\ target[p][1] = claim[p].item
    BY <1>1, <1>t DEF Frame, TypeOK, PassKnows
  <2>2. FenceClaim(p)
    BY <1>1, <1>t, <2>1, FenceBack
  <2>3. /\ claim[p].control = "active" /\ status[target[p]] = "pending"
        /\ \A k \in ResourceKeys(target[p]) : locks[k] = target[p]
    BY <2>1, <2>2 DEF IInv, BegunIsPending
  <2>4. OwnerMoves(target[p])
    BY <2>1 DEF OpMoves
  <2>5. pc'[p] = pc[p] /\ claim'[p] = claim[p]
    BY <1>1 DEF Frame
  <2>6. /\ status'[target[p]] = status[target[p]]
        /\ \A k \in LockKeys : locks[k] = target[p] => locks'[k] = target[p]
    BY <2>1, <2>2, <2>4, <2>5, OneOwner DEF OwnerMoves
  <2> QED
    BY <2>1, <2>3, <2>5, <2>6, KeysAreLocks
<1>2. CASE AdvanceBegins(p)
  <2>1. PICK o \in OpIds : BeginWorkflowOperation(o) /\ target' = [target EXCEPT ![p] = o]
    BY <1>2 DEF AdvanceBegins
  <2>2. target'[p] = o
    BY <1>t, <2>1 DEF TypeOK, PassTypeOK
  <2>3. claim'[p].control = "active"
    BY <1>2 DEF AdvanceBegins, MayBegin
  <2> QED
    BY <1>t, <2>1, <2>2, <2>3, KeysAreLocks DEF BeginWorkflowOperation, TypeOK, StoreTypeOK
<1> QED
  BY <1>t, <1>1, <1>2, Frames, Entries

\* Nobody sends an operation that another process is about to send.
LEMMA DispatcherPart ==
    ASSUME IInv, [Next]_vars, TypeOK', \A x \in OpIds : OpMoves(x)
    PROVE  OneDispatcher'
<1>t. TypeOK
  BY DEF IInv
\* Who is before its effect after the step was so before, or was begun and holds
\* the claim.
<1>1. ASSUME NEW p \in Processes, pc'[p] \in BeforeEffect
      PROVE  /\ target'[p] = target[p] /\ target[p] \in OpIds
             /\ \/ pc[p] \in BeforeEffect
                \/ /\ RecordRunning(p)
                   /\ status[target[p]] = "pending" /\ runs[target[p]] = "none"
             /\ pc'[p] = "examined" => Action(target[p]) = "continue_stage"
  <2>1. CASE Frame(p)
    BY <1>t, <1>1, <2>1 DEF Frame, IInv, OneDispatcher, BeforeEffect, TypeOK, PassKnows
  <2>2. CASE ExecutorAdmits(p) \/ NoContinuation(p)
    BY <1>t, <1>1, <2>2
       DEF ExecutorAdmits, NoContinuation, BeforeEffect, Goto, TypeOK, PassKnows, PassTypeOK
  <2>3. CASE RecordRunning(p) /\ pc'[p] = "dispatch"
    <3>1. pc[p] = "begun" /\ target' = target
      BY <2>3 DEF RecordRunning
    <3>2. target[p] \in OpIds
      BY <1>t, <3>1 DEF TypeOK, PassKnows
    <3>3. RecordAdmitted(p, target[p])
      BY <1>t, <2>3 DEF RecordRunning, Goto, TypeOK, PassTypeOK
    <3>4. status[target[p]] = "pending"
      BY <3>1, <3>3 DEF RecordAdmitted, IInv, BegunIsPending
    <3> QED
      BY <2>3, <3>1, <3>2, <3>4 DEF IInv, RunsFollowOperations
  <2> QED
    BY <1>t, <1>1, <2>1, <2>2, <2>3, Frames, Entries DEF BeforeEffect
\* One dispatcher at a time.
<1>2. ASSUME NEW p \in Processes, NEW q \in Processes,
             pc'[p] \in BeforeEffect, pc'[q] \in BeforeEffect, target'[q] = target'[p]
      PROVE  q = p
  <2>1. CASE pc[p] \in BeforeEffect /\ pc[q] \in BeforeEffect
    BY <1>1, <1>2, <2>1 DEF IInv, OneDispatcher
  <2>2. CASE pc[p] \notin BeforeEffect /\ pc[q] \in BeforeEffect
    BY <1>1, <1>2, <2>2 DEF IInv, OneDispatcher
  <2>3. CASE pc[p] \in BeforeEffect /\ pc[q] \notin BeforeEffect
    BY <1>1, <1>2, <2>3 DEF IInv, OneDispatcher
  <2>4. CASE pc[p] \notin BeforeEffect /\ pc[q] \notin BeforeEffect
    <3>1. RecordRunning(p) /\ RecordRunning(q)
      BY <1>1, <1>2, <2>4
    <3>2. /\ pc[p] = "begun" /\ pc[q] = "begun"
          /\ \E s \in PassSteps : pc' = [pc EXCEPT ![p] = s]
      BY <3>1 DEF RecordRunning, Goto, PassSteps
    <3> QED
      BY <1>t, <1>2, <3>2 DEF BeforeEffect, TypeOK, PassTypeOK
  <2> QED
    BY <2>1, <2>2, <2>3, <2>4
\* Nobody else sends it, and it stays past its boundary.
<1>3. ASSUME NEW p \in Processes, pc'[p] \in BeforeEffect
      PROVE  LET o == target[p]
             IN  /\ Action(o) = "start_planner" \/ runs'[o] = "none"
                 /\ \/ status'[o] \in {"running", "blocked"}
                    \/ Action(o) = "start_planner" /\ status'[o] = "succeeded"
  <2> DEFINE o == target[p]
  <2>1. o \in OpIds /\ OpMoves(o) /\ TypeOK
    BY <1>t, <1>1, <1>3
  <2>2. CASE pc[p] \notin BeforeEffect
    <3>1. /\ RecordRunning(p) /\ status[o] = "pending" /\ runs[o] = "none"
      BY <1>1, <1>3, <2>2
    <3>2. runs'[o] = "none" /\ RecordAdmitted(p, o)
      BY <1>t, <1>3, <3>1 DEF RecordRunning, world, BeforeEffect, Goto, TypeOK, PassTypeOK
    <3>3. status'[o] = "running"
      BY <1>t, <2>1, <3>1, <3>2
         DEF RecordRunning, RecordWorkflowOperation, TypeOK, StoreTypeOK
    <3> QED
      BY <3>2, <3>3
  <2>3. CASE pc[p] \in BeforeEffect
    <3>1. /\ Action(o) = "start_planner" \/ runs[o] = "none"
          /\ \/ status[o] \in {"running", "blocked"}
             \/ Action(o) = "start_planner" /\ status[o] = "succeeded"
      BY <2>3 DEF IInv, OneDispatcher
    <3>2. runs[o] = "none" /\ Action(o) # "start_planner" =>
            runs'[o] = "none" /\ status'[o] # "succeeded"
      <4>1. ~Sends(o)
        BY <1>3, <2>3 DEF Sends, IInv, OneDispatcher
      <4> QED
        BY <2>1, <3>1, <4>1 DEF OpMoves, RunMoves, StatusMoves, LiveRun, Terminal
    <3> QED
      BY <2>1, <3>1, <3>2 DEF OpMoves, StatusMoves
  <2> QED
    BY <2>2, <2>3
<1> QED
  BY <1>1, <1>2, <1>3 DEF OneDispatcher, Action

\* An operation never goes back before its dispatch boundary.
LEMMA BoundaryPart ==
    ASSUME IInv, [Next]_vars, TypeOK', \A x \in OpIds : OpMoves(x)
    PROVE  PastBoundary'
<1> DEFINE Past == {"running", "blocked", "succeeded"}
<1> SUFFICES ASSUME NEW p \in Processes,
                    pc'[p] \in {"startup", "deferred", "reconcile", "failed"}
             PROVE  status'[target'[p]] \in Past
  BY DEF PastBoundary
<1>t. TypeOK
  BY DEF IInv
<1>1. target'[p] \in OpIds
  BY DEF TypeOK, PassKnows
<1>2. ASSUME status[target'[p]] \in Past PROVE status'[target'[p]] \in Past
  BY <1>1, <1>2 DEF OpMoves, StatusMoves
<1>3. CASE Frame(p)
  BY <1>2, <1>3 DEF Frame, IInv, PastBoundary
<1>4. CASE StartRun(p) \/ ApplyDecision(p) \/ ExecutorFails(p)
  <2>1. pc[p] \in {"dispatch", "admitted", "startup"} /\ target' = target
    BY <1>4 DEF StartRun, ApplyDecision, ExecutorFails
  <2> QED
    BY <1>2, <2>1 DEF IInv, OneDispatcher, PastBoundary, BeforeEffect
<1>5. CASE CompleteStartup(p) \/ CompleteDeferredStartup(p)
  BY <1>2, <1>5 DEF CompleteStartup, CompleteDeferredStartup, IInv, PastBoundary
<1>6. CASE RecoverPlannerStartup(p)
  <2>1. PICK o \in OpIds : status[o] = "running" /\ target' = [target EXCEPT ![p] = o]
    BY <1>6 DEF RecoverPlannerStartup
  <2>2. target'[p] = o
    BY <1>t, <2>1 DEF TypeOK, PassTypeOK
  <2> QED
    BY <1>2, <2>1, <2>2
<1> QED
  BY <1>t, <1>3, <1>4, <1>5, <1>6, Frames, Entries

\* Ended Runs stay ended, so what a snapshot shows ended has ended.
LEMMA SnapshotPart ==
    ASSUME IInv, [Next]_vars, TypeOK', \A x \in OpIds : OpMoves(x)
    PROVE  SnapshotsAge'
<1> SUFFICES ASSUME NEW p \in Processes, pc'[p] \notin {"idle", "finish"},
                    NEW i \in Positions, snap'[p].runs[i] \in Terminal
             PROVE  runs'[<<claim'[p].item, i>>] \in Terminal
  BY DEF SnapshotsAge
<1>t. TypeOK
  BY DEF IInv
<1>1. claim'[p].item \in WorkItems /\ <<claim'[p].item, i>> \in OpIds
  BY DEF TypeOK, PassKnows, OpIds
<1>2. ASSUME runs[<<claim'[p].item, i>>] \in Terminal
      PROVE  runs'[<<claim'[p].item, i>>] \in Terminal
  BY <1>1, <1>2 DEF OpMoves, RunMoves, Terminal, LiveRun
\* The claim and the snapshot are kept until the next claim.
<1>3. CASE /\ claim'[p] = claim[p] /\ snap'[p] = snap[p]
           /\ pc[p] \notin {"idle", "finish"}
  BY <1>2, <1>3 DEF IInv, SnapshotsAge
<1>4. CASE ReconcileOnce(p)
  <2>1. PICK w \in WorkItems :
          /\ claim' = [claim EXCEPT ![p] =
               [item |-> w, fence |-> rec[w].fence + 1, version |-> rec[w].version,
                control |-> rec[w].control,
                expired |-> rec[w].checks >= MaxChecks /\ rec[w].hash = Snapshot(w)]]
          /\ snap' = [snap EXCEPT ![p] = Snapshot(w)]
    BY <1>4 DEF ReconcileOnce
  <2>2. snap'[p].runs[i] = runs[<<w, i>>]
    BY <1>t, <2>1 DEF Snapshot, TypeOK, PassTypeOK
  <2>3. claim'[p].item = w
    BY <1>t, <2>1 DEF TypeOK, PassTypeOK
  <2> QED
    BY <1>2, <2>2, <2>3
<1>5. CASE \/ AdvanceBegins(p) \/ RecordRunning(p) \/ ExecutorAdmits(p)
           \/ NoContinuation(p) \/ StartRun(p) \/ ExecutorFails(p)
           \/ RecoverPlannerStartup(p) \/ ApplyDecision(p) \/ CompleteStartup(p)
           \/ CompleteDeferredStartup(p)
  BY <1>3, <1>5 DEF AdvanceBegins, RecordRunning, ExecutorAdmits, NoContinuation, StartRun,
                    ExecutorFails, RecoverPlannerStartup, ApplyDecision, CompleteStartup,
                    CompleteDeferredStartup, Dispatched
<1>6. CASE Frame(p)
  BY <1>3, <1>6 DEF Frame
<1>7. pc'[p] \in PassSteps
  BY DEF TypeOK, PassTypeOK
<1> QED
  BY <1>t, <1>4, <1>5, <1>6, <1>7, Frames, Entries DEF PassSteps

-----------------------------------------------------------------------------
\* The inductive invariant holds when the WorkItems are enrolled.
LEMMA IInvInit == Init => IInv
<1> SUFFICES ASSUME Init PROVE IInv
  OBVIOUS
<1>1. TypeOK
  BY TypeInit
<1>2. DispatchedHoldsLocks /\ RunsFollowOperations /\ SuccessIsFinal /\ CreatedCountsRuns
  BY DEF Init, DispatchedHoldsLocks, RunsFollowOperations, SuccessIsFinal,
         CreatedCountsRuns, LiveRun
<1>3. BegunIsPending /\ OneDispatcher /\ PastBoundary /\ SnapshotsAge
  BY DEF Init, BegunIsPending, OneDispatcher, PastBoundary, SnapshotsAge, BeforeEffect
<1> QED
  BY <1>1, <1>2, <1>3 DEF IInv

\* Every step keeps the inductive invariant.
LEMMA IInvNext == IInv /\ [Next]_vars => IInv'
<1> SUFFICES ASSUME IInv, [Next]_vars PROVE IInv'
  OBVIOUS
<1>1. TypeOK'
  BY TypeStore, TypeWorld, TypePass DEF IInv, TypeOK
<1>2. \A x \in OpIds : OpMoves(x)
  BY StepMoves
<1> QED
  BY <1>1, <1>2, OperationParts, BegunPart, DispatcherPart, BoundaryPart, SnapshotPart
     DEF IInv

\* Over every interleaving of passes, crashes, timeouts, stale owners and
\* control changes the inductive invariant holds.
THEOREM Invariant == Spec => []IInv
<1> QED
  BY IInvInit, IInvNext, PTL DEF Spec

\* A live worker Run has all locks of its operation, for any number of
\* processes and WorkItems and any lease.
THEOREM LocksOutliveClaims == Spec => []LiveRunsHoldTheirLocks
<1>1. IInv => LiveRunsHoldTheirLocks
  BY DEF IInv, LiveRunsHoldTheirLocks, RunsFollowOperations, DispatchedHoldsLocks
<1> QED
  BY <1>1, Invariant, PTL

\* At most one coding Run is live over all WorkItems.
THEOREM CodingIsExclusive == Spec => []OneCodingRun
<1>1. IInv => OneCodingRun
  BY DEF IInv, OneCodingRun, RunsFollowOperations, DispatchedHoldsLocks, ResourceKeys
<1> QED
  BY <1>1, Invariant, PTL

\* No operation is sent twice, even by owners that lost their claim between
\* recording the boundary and sending.
THEOREM NeverSentTwice == Spec => []AtMostOneRun
<1>1. IInv => AtMostOneRun
  BY DEF IInv, AtMostOneRun, CreatedCountsRuns
<1> QED
  BY <1>1, Invariant, PTL

\* Only set_workflow_control writes the control.
LEMMA ControlWrites ==
    ASSUME TypeOK, [Next]_vars, NEW w \in WorkItems
    PROVE  \/ rec'[w].control = rec[w].control
           \/ \E p \in Processes, c \in Controls : SetWorkflowControl(p, w, c)
<1>1. rec \in [WorkItems -> Rows] /\ rec[w] \in Rows
  BY DEF TypeOK, StoreTypeOK
<1>2. ASSUME NEW p \in Processes, ReconcileOnce(p) PROVE rec'[w].control = rec[w].control
  <2>1. PICK v \in WorkItems : ClaimDueWorkflow(p, v)
    BY <1>2 DEF ReconcileOnce
  <2> QED
    BY <1>1, <2>1 DEF ClaimDueWorkflow, Rows
<1>3. ASSUME NEW p \in Processes, Finish(p) PROVE rec'[w].control = rec[w].control
  BY <1>1, <1>3 DEF Finish, FinishWorkflowReconciliation, Rows
<1>4. ASSUME NEW p \in Processes, NEW v \in WorkItems, NEW c \in Controls,
             SetWorkflowControl(p, v, c), v # w
      PROVE  rec'[w].control = rec[w].control
  BY <1>1, <1>4 DEF SetWorkflowControl
<1>5. ASSUME NEW o \in OpIds, RunReports(o) PROVE rec'[w].control = rec[w].control
  BY <1>1, <1>5 DEF RunReports, Rows
<1>6. ASSUME Tick PROVE rec'[w].control = rec[w].control
  <2>1. rec'[w] = Age(rec[w])
    BY <1>6, Zenon DEF Tick
  <2> QED
    BY <1>1, <2>1 DEF Age, Rows
<1>7. ASSUME NEW q \in Processes, LeavesRec(q) PROVE rec' = rec
  BY <1>7, RecUnchanged
<1>8. ASSUME \/ LaunchJob \/ LaunchLost \/ UNCHANGED vars
             \/ \E o \in OpIds : RunStarts(o) \/ RunReaped(o)
             \/ \E v \in WorkItems : CloseWorkItem(v)
       PROVE  rec' = rec
  BY <1>8 DEF LaunchJob, LaunchLost, RunStarts, RunReaped, CloseWorkItem, store, vars
<1> QED
  BY <1>2, <1>3, <1>4, <1>5, <1>6, <1>7, <1>8 DEF Next, PassStep, LeavesRec

\* A cancelled WorkItem is offered no control.
LEMMA ControlMoves ==
    ASSUME TypeOK, [Next]_vars, NEW w \in WorkItems, rec[w].control = "cancelled"
    PROVE  rec'[w].control = rec[w].control
BY ControlWrites DEF SetWorkflowControl, ControlOffered

\* Cancellation is final for every WorkItem, and nothing of it is begun or
\* crosses its dispatch boundary afterwards.
THEOREM CancelledStaysCancelled == Spec => CancellationIsFinal
<1>1. IInv /\ [Next]_vars =>
        [\A w \in WorkItems : rec[w].control = "cancelled" =>
           /\ rec'[w].control = "cancelled"
           /\ \A o \in OpIds : o[1] = w /\ status[o] \in {"none", "pending"} =>
                status'[o] = status[o]]_vars
  <2> SUFFICES ASSUME IInv, [Next]_vars, NEW w \in WorkItems,
                      rec[w].control = "cancelled"
               PROVE  /\ rec'[w].control = "cancelled"
                      /\ \A o \in OpIds : o[1] = w /\ status[o] \in {"none", "pending"} =>
                           status'[o] = status[o]
    OBVIOUS
  <2>1. ASSUME NEW o \in OpIds, o[1] = w, status[o] \in {"none", "pending"}
        PROVE  status'[o] = status[o]
    BY <2>1, StepMoves DEF OpMoves, StatusMoves
  <2>2. rec'[w].control = rec[w].control
    BY ControlMoves DEF IInv
  <2> QED
    BY <2>1, <2>2
<1> QED
  BY <1>1, Invariant, PTL DEF Spec, CancellationIsFinal

-----------------------------------------------------------------------------
\* One API process: no control falls into its pass, because execute_control waits
\* for DISPATCH_BOUNDARY.  So a pass sees the control it claimed under until it is
\* over, and goes past advance towards a start only under an active one.
Starting == {"begun", "dispatch", "admitted", "startup"}

Undisturbed ==
    \A p \in Processes : pc[p] # "idle" =>
        /\ claim[p].control = rec[claim[p].item].control
        /\ pc[p] \in Starting => claim[p].control = "active"

\* A pass keeps its claim until it ends.
LEMMA ClaimStays ==
    ASSUME NEW p \in Processes, PassStep(p), pc \in [Processes -> PassSteps \cup {"idle"}],
           pc[p] # "idle", pc'[p] # "idle"
    PROVE  claim' = claim
<1>1. ~ReconcileOnce(p) /\ ~Finish(p)
  BY DEF ReconcileOnce, Finish, EndPass, Goto
<1> QED
  BY <1>1 DEF PassStep, AdvanceWaits, LoadFails,
              FinalizationFails, AdvanceRefused, AdvanceBegins,
       AdvanceConflicts, AdvanceReleasesPending, ApprovalInvalid, RecordRunning,
       ExecutorAdmits, ExecutorFails, StartRun, ApplyDecision, CompleteStartup,
       NoContinuation, RecordExamined, RecordBlocked, RecoverPlannerStartup,
       CompleteDeferredStartup, DeferredStartupFails, ReconcileWaits, ReconcileTerminal,
       ReconcileLive, PassError

\* With one process, every step leaves a pass undisturbed.
LEMMA UndisturbedStep ==
    ASSUME \A p, q \in Processes : p = q, TypeOK, TypeOK', Undisturbed, [Next]_vars
    PROVE  Undisturbed'
<1> SUFFICES ASSUME NEW p \in Processes, pc'[p] # "idle"
             PROVE  /\ claim'[p].control = rec'[claim'[p].item].control
                    /\ pc'[p] \in Starting => claim'[p].control = "active"
  BY DEF Undisturbed
<1>1. pc \in [Processes -> PassSteps \cup {"idle"}] /\ claim \in [Processes -> Claims]
  BY DEF TypeOK, PassTypeOK
<1>2. ASSUME pc[p] # "idle" PROVE rec'[claim[p].item].control = rec[claim[p].item].control
  <2>1. claim[p].item \in WorkItems
    BY <1>2 DEF TypeOK, PassKnows
  <2>2. \A q \in Processes, c \in Controls : ~SetWorkflowControl(q, claim[p].item, c)
    BY <1>2 DEF SetWorkflowControl, BoundaryFree
  <2> QED
    BY <2>1, <2>2, ControlWrites
<1>3. CASE Frame(p)
  BY <1>2, <1>3 DEF Frame, Undisturbed
<1>4. CASE ReconcileOnce(p)
  <2>1. PICK w \in WorkItems :
          /\ ClaimDueWorkflow(p, w)
          /\ claim' = [claim EXCEPT ![p] =
                [item |-> w, fence |-> rec[w].fence + 1, version |-> rec[w].version,
                 control |-> rec[w].control,
                 expired |-> rec[w].checks >= MaxChecks /\ rec[w].hash = Snapshot(w)]]
    BY <1>4 DEF ReconcileOnce
  <2>2. claim'[p].item = w /\ claim'[p].control = rec[w].control
    BY <1>1, <2>1
  <2>3. rec'[w].control = rec[w].control
    BY <2>1 DEF ClaimDueWorkflow, TypeOK, StoreTypeOK, Rows
  <2>4. pc'[p] = "advance"
    BY <1>1, <1>4 DEF ReconcileOnce, Goto
  <2> QED
    BY <2>2, <2>3, <2>4 DEF Starting
<1>5. CASE (PassStep(p) /\ ~ReconcileOnce(p)) \/ Crash(p) \/ AbandonPass(p)
  <2>1. PassStep(p) /\ ~ReconcileOnce(p)
    BY <1>1, <1>5 DEF Crash, AbandonPass, EndPass, Goto
  <2>2. pc[p] # "idle"
    <3>1. ASSUME \/ AdvanceWaits(p) \/ LoadFails(p) \/ AdvanceRefused(p) \/ AdvanceBegins(p)
                 \/ AdvanceConflicts(p) \/ AdvanceReleasesPending(p)
          PROVE  pc[p] # "idle"
      BY <3>1 DEF AdvanceWaits, LoadFails, AdvanceRefused, AdvanceBegins,
                  AdvanceConflicts, AdvanceReleasesPending
    <3>2. ASSUME \/ ApprovalInvalid(p) \/ RecordRunning(p) \/ ExecutorAdmits(p)
                 \/ ExecutorFails(p) \/ StartRun(p) \/ ApplyDecision(p)
                 \/ CompleteStartup(p) \/ NoContinuation(p)
          PROVE  pc[p] # "idle"
      BY <3>2 DEF ApprovalInvalid, RecordRunning, ExecutorAdmits, ExecutorFails, StartRun,
                  ApplyDecision, CompleteStartup, NoContinuation
    <3>3. ASSUME \/ RecordExamined(p) \/ RecordBlocked(p) \/ CompleteDeferredStartup(p)
                 \/ DeferredStartupFails(p) \/ Finish(p)
          PROVE  pc[p] # "idle"
      BY <3>3 DEF RecordExamined, RecordBlocked, CompleteDeferredStartup,
                  DeferredStartupFails, Finish
    <3>4. ASSUME \/ RecoverPlannerStartup(p) \/ ReconcileWaits(p) \/ ReconcileTerminal(p)
                 \/ FinalizationFails(p) \/ ReconcileLive(p)
          PROVE  pc[p] # "idle"
      <4>1. PICK o \in OpIds : Dispatched(p, o)
        BY <3>4 DEF RecoverPlannerStartup, ReconcileWaits, ReconcileTerminal,
                    FinalizationFails,
             ReconcileLive
      <4> QED
        BY <4>1 DEF Dispatched
    <3> QED
      BY <2>1, <3>1, <3>2, <3>3, <3>4 DEF PassStep
  <2>3. claim' = claim
    BY <1>1, <2>1, <2>2, ClaimStays
  <2>4. ASSUME pc'[p] \in Starting PROVE claim[p].control = "active"
    <3>1. CASE pc'[p] = "begun"
      BY <2>1, <3>1, Entries DEF AdvanceBegins, Stopped
    <3>2. CASE pc'[p] \in {"dispatch", "admitted", "startup"}
      <4>1. pc[p] \in Starting
        BY <2>1, <3>2, Entries DEF RecordRunning, ExecutorAdmits, StartRun, Starting
      <4> QED
        BY <2>2, <4>1 DEF Undisturbed
    <3> QED
      BY <2>4, <3>1, <3>2 DEF Starting
  <2> QED
    BY <1>2, <2>2, <2>3, <2>4 DEF Undisturbed
<1> QED
  BY <1>3, <1>4, <1>5, Frames

\* What creates a Run or a decision, or launches one: a process whose pass works on
\* that operation, at a step it takes under an active control.
LEMMA StartedByAPass ==
    ASSUME TypeOK, Undisturbed, [Next]_vars, NEW o \in OpIds,
           \/ created'[o] # created[o]
           \/ \E p \in Processes : <<p, o>> \in launches' \ launches
    PROVE  rec[o[1]].control = "active"
<1>1. created \in [OpIds -> Nat]
  BY DEF TypeOK, WorldTypeOK
<1>2. ASSUME NEW p \in Processes, StartRun(p) \/ ApplyDecision(p) PROVE rec[o[1]].control = "active"
  <2>1. pc[p] = "admitted" /\ launches' = launches
    BY <1>2 DEF StartRun, ApplyDecision
  <2>2. target[p] = o
    BY <1>1, <1>2, <2>1 DEF StartRun, ApplyDecision, CreateRun
  <2> QED
    BY <2>1, <2>2 DEF Undisturbed, Starting, TypeOK, PassKnows
<1>3. ASSUME NEW p \in Processes, CompleteStartup(p) PROVE rec[o[1]].control = "active"
  <2>1. pc[p] = "startup" /\ created' = created /\ launches' = launches \cup {<<p, target[p]>>}
    BY <1>3 DEF CompleteStartup
  <2>2. target[p] = o
    BY <2>1
  <2> QED
    BY <2>1, <2>2 DEF Undisturbed, Starting, TypeOK, PassKnows
<1>4. ASSUME NEW p \in Processes, RecoverPlannerStartup(p) PROVE rec[o[1]].control = "active"
  <2>1. launches' = launches /\ ~Stopped(p)
    BY <1>4 DEF RecoverPlannerStartup
  <2>2. PICK x \in OpIds : Dispatched(p, x) /\ (created' = created \/ CreateRun(x, "partial"))
    BY <1>4 DEF RecoverPlannerStartup
  <2>3. x = o
    BY <1>1, <2>1, <2>2 DEF CreateRun
  <2>4. pc[p] # "idle" /\ o[1] = claim[p].item
    BY <2>2, <2>3 DEF Dispatched, ActiveOps, TypeOK, PassKnows
  <2> QED
    BY <2>1, <2>4 DEF Stopped, Undisturbed
<1>5. ASSUME NEW p \in Processes, ReconcileLive(p) PROVE rec[o[1]].control = "active"
  <2>1. created' = created
    BY <1>5 DEF ReconcileLive, world
  <2>2. PICK x \in OpIds :
          /\ Dispatched(p, x)
          /\ launches' = launches \/ (~Stopped(p) /\ launches' = launches \cup {<<p, x>>})
    BY <1>5 DEF ReconcileLive
  <2>3. x = o /\ ~Stopped(p)
    BY <2>1, <2>2
  <2>4. pc[p] # "idle" /\ o[1] = claim[p].item
    BY <2>2, <2>3 DEF Dispatched, ActiveOps, TypeOK, PassKnows
  <2> QED
    BY <2>3, <2>4 DEF Stopped, Undisturbed
<1>6. ASSUME NEW p \in Processes,
             \/ ReconcileOnce(p) \/ AdvanceWaits(p) \/ LoadFails(p)
             \/ FinalizationFails(p) \/ AdvanceRefused(p)
             \/ AdvanceBegins(p) \/ AdvanceConflicts(p) \/ AdvanceReleasesPending(p)
             \/ ApprovalInvalid(p) \/ RecordRunning(p) \/ ExecutorAdmits(p) \/ ExecutorFails(p)
             \/ NoContinuation(p) \/ RecordExamined(p) \/ RecordBlocked(p)
             \/ CompleteDeferredStartup(p) \/ DeferredStartupFails(p) \/ ReconcileWaits(p)
             \/ ReconcileTerminal(p) \/ Finish(p) \/ Crash(p) \/ AbandonPass(p)
      PROVE  created' = created /\ launches' \subseteq launches
  BY <1>6 DEF ReconcileOnce, AdvanceWaits, LoadFails,
              FinalizationFails, AdvanceRefused, AdvanceBegins,
       AdvanceConflicts, AdvanceReleasesPending, ApprovalInvalid, RecordRunning,
       ExecutorAdmits, ExecutorFails, NoContinuation, RecordExamined, RecordBlocked,
       CompleteDeferredStartup, DeferredStartupFails, ReconcileWaits, ReconcileTerminal,
       Finish, Crash, AbandonPass, PassError, world
<1>7. ASSUME \/ LaunchJob \/ LaunchLost
             \/ \E x \in OpIds : RunStarts(x) \/ RunReports(x) \/ RunReaped(x)
             \/ \E w \in WorkItems : CloseWorkItem(w)
             \/ \E p \in Processes, w \in WorkItems, c \in Controls : SetWorkflowControl(p, w, c)
      PROVE  created' = created /\ launches' \subseteq launches
  <2>1. ASSUME LaunchJob \/ LaunchLost
        PROVE  created' = created /\ launches' \subseteq launches
    BY <2>1 DEF LaunchJob, LaunchLost, world
  <2>2. ASSUME NEW x \in OpIds, RunStarts(x) \/ RunReports(x) \/ RunReaped(x)
        PROVE  created' = created /\ launches' = launches
    BY <2>2 DEF RunStarts, RunReports, RunReaped
  <2>3. ASSUME NEW w \in WorkItems, CloseWorkItem(w)
        PROVE  created' = created /\ launches' = launches
    BY <2>3 DEF CloseWorkItem
  <2>4. ASSUME NEW p \in Processes, NEW w \in WorkItems, NEW c \in Controls,
               SetWorkflowControl(p, w, c)
        PROVE  created' = created /\ launches' = launches
    BY <2>4 DEF SetWorkflowControl, world
  <2> QED
    BY <1>7, <2>1, <2>2, <2>3, <2>4
<1>8. ASSUME Tick PROVE created' = created /\ launches' = launches
  BY <1>8, Zenon DEF Tick, world
<1>9. ASSUME UNCHANGED vars PROVE created' = created /\ launches' = launches
  BY <1>9 DEF vars
<1> QED
  BY <1>2, <1>3, <1>4, <1>5, <1>6, <1>7, <1>8, <1>9 DEF Next, PassStep

\* With one API process, as the chart deploys it (replicas 1, Recreate), nothing is
\* created or launched for a paused or cancelled WorkItem, wherever the control falls,
\* for any number of WorkItems and any chain of actions.
THEOREM OneProcessStops ==
    ASSUME \A p, q \in Processes : p = q
    PROVE  Spec => NothingStartsWhileStopped
<1>1. Init => Undisturbed
  BY DEF Init, Undisturbed
<1>2. TypeOK /\ TypeOK' /\ Undisturbed /\ [Next]_vars => Undisturbed'
  BY UndisturbedStep
<1>3. Spec => []Undisturbed
  BY <1>1, <1>2, TypeCorrect, PTL DEF Spec
<1>4. TypeOK /\ Undisturbed /\ [Next]_vars =>
        [\A o \in OpIds :
           \/ created'[o] # created[o]
           \/ \E p \in Processes : <<p, o>> \in launches' \ launches
           => rec[o[1]].control = "active"]_vars
  BY StartedByAPass
<1> QED
  BY <1>3, <1>4, TypeCorrect, PTL DEF Spec, NothingStartsWhileStopped

-----------------------------------------------------------------------------
\* The refinement: every step is one step of OperationLocks, or none.
LockStep == [Resources!Next]_(Resources!vars)

\* A step that touches neither the operations, the locks nor the Runs.
LEMMA QuietLocks == ASSUME UNCHANGED <<status, locks, runs>> PROVE LockStep
BY DEF LockStep, Resources!vars, Sent, Alive, Over

LEMMA BeginTakes ==
    ASSUME IInv, NEW p \in Processes, AdvanceBegins(p)
    PROVE  LockStep
<1>1. PICK o \in OpIds : MayBegin(p, o) /\ BeginWorkflowOperation(o)
  BY DEF AdvanceBegins
<1>2. status \in [OpIds -> OpStates] /\ runs' = runs
  BY DEF IInv, TypeOK, StoreTypeOK, AdvanceBegins, world
<1>3. /\ status[o] \in {"none", "pending"}
      /\ status' = [status EXCEPT ![o] = "pending"]
      /\ locks' = [k \in LockKeys |-> IF k \in ResourceKeys(o) THEN o ELSE locks[k]]
      /\ \A k \in ResourceKeys(o) : locks[k] \in {Nil, o}
  BY <1>1, Zenon DEF MayBegin, BeginWorkflowOperation
<1>4. UNCHANGED <<Sent, Alive, Over>>
  BY <1>2, <1>3 DEF Sent, Alive, Over
<1>5. o \notin Sent \cup Over
  BY <1>3 DEF Sent, Over, IInv, RunsFollowOperations
<1>6. Needs[o] = ResourceKeys(o)
  BY DEF Needs
<1>7. Resources!Take(o)
  BY <1>3, <1>4, <1>5, <1>6 DEF Resources!Take
<1> QED
  BY <1>7 DEF LockStep, Resources!Next

LEMMA ReleaseYields ==
    ASSUME IInv, NEW p \in Processes, AdvanceReleasesPending(p)
    PROVE  LockStep
<1>1. PICK o \in ActiveOps(claim[p].item) :
        /\ status[o] = "pending"
        /\ locks' = IF FenceClaim(p)
                    THEN [k \in LockKeys |-> IF locks[k] = o THEN Nil ELSE locks[k]]
                    ELSE locks
  BY DEF AdvanceReleasesPending
<1>2. o \in OpIds /\ UNCHANGED <<status, runs>>
  BY DEF ActiveOps, AdvanceReleasesPending, world
<1>3. UNCHANGED <<Sent, Alive, Over>> /\ o \notin Sent
  BY <1>1, <1>2 DEF Sent, Alive, Over, IInv, RunsFollowOperations
<1>4. CASE FenceClaim(p)
  <2>1. Resources!Yield(o)
    BY <1>1, <1>3, <1>4 DEF Resources!Yield, Resources!Without
  <2> QED
    BY <1>2, <2>1 DEF LockStep, Resources!Next
<1>5. CASE ~FenceClaim(p)
  BY <1>1, <1>2, <1>5, QuietLocks
<1> QED
  BY <1>4, <1>5

\* record_workflow_operation frees locks only of an operation with no live Run.
LEMMA RecordSucceeds ==
    ASSUME IInv, NEW p \in Processes, NEW o \in OpIds, NEW s \in OpStates,
           RecordWorkflowOperation(p, o, s), runs' = runs,
           s = "succeeded" => /\ status[o] \in {"running", "blocked", "succeeded"}
                              /\ runs[o] \notin LiveRun
    PROVE  LockStep
<1>1. status \in [OpIds -> OpStates]
  BY DEF IInv, TypeOK, StoreTypeOK
<1>2. CASE ~RecordAdmitted(p, o)
  BY <1>2, QuietLocks DEF RecordWorkflowOperation
<1>3. CASE RecordAdmitted(p, o) /\ s # "succeeded"
  <2>1. locks' = locks /\ status' = [status EXCEPT ![o] = s] /\ status[o] # "succeeded"
    BY <1>3 DEF RecordWorkflowOperation, RecordAdmitted
  <2>2. UNCHANGED <<Sent, Alive, Over>>
    BY <1>1, <1>3, <2>1 DEF Sent, Alive, Over
  <2> QED
    BY <2>1, <2>2 DEF LockStep, Resources!vars
<1>4. CASE RecordAdmitted(p, o) /\ s = "succeeded"
  <2>1. /\ status' = [status EXCEPT ![o] = "succeeded"] /\ status[o] # "succeeded"
        /\ locks' = [k \in LockKeys |-> IF locks[k] = o THEN Nil ELSE locks[k]]
    BY <1>4 DEF RecordWorkflowOperation, RecordAdmitted
  <2>2. UNCHANGED <<Sent, Alive>> /\ o \notin Alive
    BY <1>4 DEF Sent, Alive
  <2>3. Over' = Over \cup {o}
    BY <1>1, <2>1 DEF Over
  <2>4. Resources!Holds(o)
    BY <1>4, <2>1 DEF Resources!Holds, Needs, IInv, DispatchedHoldsLocks
  <2>5. Resources!Succeed(o)
    BY <2>1, <2>2, <2>3, <2>4 DEF Resources!Succeed, Resources!Without
  <2> QED
    BY <2>5 DEF LockStep, Resources!Next
<1> QED
  BY <1>2, <1>3, <1>4

\* A Run is created once, under all the locks of its operation.
LEMMA CreateSends ==
    ASSUME IInv, NEW o \in OpIds, CreateRun(o, "partial"), UNCHANGED <<status, locks>>,
           runs[o] = "none", status[o] \in {"running", "blocked"}
    PROVE  LockStep
<1>1. runs \in [OpIds -> RunStates] /\ runs' = [runs EXCEPT ![o] = "partial"]
  BY DEF IInv, TypeOK, WorldTypeOK, CreateRun
<1>2. Sent' = Sent \cup {o} /\ Alive' = Alive \cup {o} /\ Over' = Over
  BY <1>1 DEF Sent, Alive, Over, LiveRun
<1>3. o \notin Sent \cup Over
  BY DEF Sent, Over
<1>4. Resources!Holds(o)
  BY DEF Resources!Holds, Needs, IInv, DispatchedHoldsLocks
<1>5. Resources!Send(o)
  BY <1>2, <1>3, <1>4 DEF Resources!Send
<1> QED
  BY <1>5 DEF LockStep, Resources!Next

LEMMA StartSends ==
    ASSUME IInv, NEW p \in Processes, StartRun(p)
    PROVE  LockStep
<1> DEFINE o == target[p]
<1>1. pc[p] = "admitted" /\ o \in OpIds /\ RunsWorker(o) /\ CreateRun(o, "partial")
  BY DEF StartRun, IInv, TypeOK, PassKnows
<1>2. runs[o] = "none"
  BY <1>1 DEF StartRun, IInv, OneDispatcher, BeforeEffect
<1>3. status[o] \in {"running", "blocked"}
  BY <1>1, <1>2 DEF IInv, OneDispatcher, BeforeEffect, SuccessIsFinal, Terminal
<1>4. UNCHANGED <<status, locks>>
  BY DEF StartRun, store
<1> QED
  BY <1>1, <1>2, <1>3, <1>4, CreateSends

LEMMA DecisionDecides ==
    ASSUME IInv, NEW p \in Processes, ApplyDecision(p)
    PROVE  LockStep
<1> DEFINE o == target[p]
<1>1. pc[p] = "admitted" /\ o \in OpIds /\ ~RunsWorker(o) /\ CreateRun(o, "completed")
  BY DEF ApplyDecision, IInv, TypeOK, PassKnows
<1>2. Action(o) # "start_planner"
  BY <1>1 DEF RunsWorker, WorkerActions
<1>3. runs[o] = "none" /\ status[o] \in {"running", "blocked"}
  BY <1>1, <1>2 DEF IInv, OneDispatcher, BeforeEffect
<1>4. runs \in [OpIds -> RunStates] /\ runs' = [runs EXCEPT ![o] = "completed"]
  BY <1>1 DEF IInv, TypeOK, WorldTypeOK, CreateRun
<1>5. UNCHANGED <<status, locks>>
  BY DEF ApplyDecision, store
<1>6. Sent' = Sent \cup {o} /\ Alive' = Alive /\ Over' = Over
  BY <1>1, <1>3, <1>4, <1>5 DEF Sent, Alive, Over, LiveRun
<1>7. o \notin Sent \cup Over /\ Needs[o] = {}
  BY <1>1, <1>3 DEF Sent, Over, Needs, ResourceKeys
<1>8. Resources!Decide(o)
  BY <1>5, <1>6, <1>7 DEF Resources!Decide
<1> QED
  BY <1>1, <1>8 DEF LockStep, Resources!Next

LEMMA RecoverSends ==
    ASSUME IInv, NEW p \in Processes, RecoverPlannerStartup(p)
    PROVE  LockStep
<1>1. PICK o \in OpIds :
        /\ status[o] = "running"
        /\ IF runs[o] = "none" THEN CreateRun(o, "partial") ELSE UNCHANGED <<runs, created>>
  BY DEF RecoverPlannerStartup
<1>2. UNCHANGED <<status, locks>>
  BY DEF RecoverPlannerStartup, store
<1> QED
  BY <1>1, <1>2, CreateSends, QuietLocks

LEMMA LiveEnds ==
    ASSUME IInv, NEW o \in OpIds, NEW r \in LiveRun \cup Terminal,
           runs[o] \in LiveRun, runs' = [runs EXCEPT ![o] = r], UNCHANGED <<status, locks>>
    PROVE  LockStep
<1>1. runs \in [OpIds -> RunStates]
  BY DEF IInv, TypeOK, WorldTypeOK
<1>2. Sent' = Sent /\ Over' = Over
  BY <1>1 DEF Sent, Over, LiveRun, Terminal
<1>3. CASE r \in LiveRun
  <2>1. Alive' = Alive
    BY <1>1, <1>3 DEF Alive
  <2> QED
    BY <1>2, <2>1 DEF LockStep, Resources!vars
<1>4. CASE r \in Terminal
  <2>1. Alive' = Alive \ {o} /\ o \in Alive
    BY <1>1, <1>4 DEF Alive, LiveRun, Terminal
  <2>2. Resources!End(o)
    BY <1>2, <2>1 DEF Resources!End
  <2> QED
    BY <2>2 DEF LockStep, Resources!Next
<1> QED
  BY <1>3, <1>4

\* Claims, fences, passes, controls and restarts together implement exclusive
\* resources, for every set of WorkItems and processes, every chain of actions and
\* every number of faults.
THEOREM LocksImplemented == Spec => ImplementsOperationLocks
<1>1. Init => Resources!Init
  BY DEF Init, Resources!Init, Sent, Alive, Over, LiveRun
<1>2. IInv /\ [Next]_vars => LockStep
  <2> SUFFICES ASSUME IInv, [Next]_vars PROVE LockStep
    OBVIOUS
  <2>1. ASSUME NEW p \in Processes, RecordRunning(p) PROVE LockStep
    BY <2>1, RecordSucceeds DEF RecordRunning, world, IInv, TypeOK, PassKnows, OpStates
  <2>2. ASSUME NEW p \in Processes, RecordBlocked(p) PROVE LockStep
    BY <2>2, RecordSucceeds DEF RecordBlocked, world, IInv, TypeOK, PassKnows, OpStates
  <2>3. ASSUME NEW p \in Processes, RecordExamined(p) PROVE LockStep
    <3>1. /\ pc[p] = "examined" /\ target[p] \in OpIds /\ runs' = runs
          /\ RecordWorkflowOperation(p, target[p], "succeeded")
      BY <2>3 DEF RecordExamined, world, IInv, TypeOK, PassKnows
    <3>2. /\ runs[target[p]] \notin LiveRun
          /\ status[target[p]] \in {"running", "blocked", "succeeded"}
      BY <3>1 DEF IInv, OneDispatcher, BeforeEffect, LiveRun
    <3> QED
      BY <3>1, <3>2, RecordSucceeds DEF OpStates
  <2>4. ASSUME NEW p \in Processes, ReconcileTerminal(p) PROVE LockStep
    <3>1. runs' = runs
      BY <2>4 DEF ReconcileTerminal, world
    <3>2. PICK o \in OpIds : /\ Dispatched(p, o) /\ SeenRun(p, o) \in Terminal
                             /\ RecordWorkflowOperation(p, o, "succeeded")
      BY <2>4 DEF ReconcileTerminal
    <3>3. /\ runs[o] \notin LiveRun
          /\ status[o] \in {"running", "blocked", "succeeded"}
      BY <3>2, DispatchedMeans DEF LiveRun, Terminal
    <3> QED
      BY <3>1, <3>2, <3>3, RecordSucceeds DEF OpStates
  <2>5. ASSUME NEW p \in Processes, ReconcileLive(p) PROVE LockStep
    <3>1. runs' = runs
      BY <2>5 DEF ReconcileLive, world
    <3>2. PICK o \in OpIds : RecordWorkflowOperation(p, o, "running")
      BY <2>5 DEF ReconcileLive
    <3> QED
      BY <3>1, <3>2, RecordSucceeds DEF OpStates
  <2>6. ASSUME NEW p \in Processes, CompleteStartup(p) \/ CompleteDeferredStartup(p)
        PROVE  LockStep
    <3>1. /\ target[p] \in OpIds /\ runs[target[p]] \in LiveRun
          /\ runs' = [runs EXCEPT ![target[p]] = "queued"] /\ UNCHANGED <<status, locks>>
      BY <2>6 DEF CompleteStartup, CompleteDeferredStartup, IInv, TypeOK, PassKnows,
                  LiveRun, store
    <3> QED
      BY <3>1, LiveEnds DEF LiveRun
  <2>7. ASSUME NEW o \in OpIds, RunStarts(o) \/ RunReports(o) \/ RunReaped(o)
        PROVE  LockStep
    <3>1. PICK r \in LiveRun \cup Terminal : runs' = [runs EXCEPT ![o] = r]
      BY <2>7 DEF RunStarts, RunReports, RunReaped, LiveRun, Terminal
    <3>2. runs[o] \in LiveRun /\ UNCHANGED <<status, locks>>
      BY <2>7 DEF RunStarts, RunReports, RunReaped, LiveRun, store
    <3> QED
      BY <3>1, <3>2, LiveEnds
  <2>8. ASSUME NEW p \in Processes,
               \/ AdvanceWaits(p) \/ LoadFails(p)
               \/ FinalizationFails(p) \/ AdvanceRefused(p) \/ AdvanceConflicts(p)
               \/ ApprovalInvalid(p) \/ ExecutorAdmits(p) \/ ExecutorFails(p)
               \/ NoContinuation(p) \/ DeferredStartupFails(p) \/ ReconcileWaits(p)
               \/ ReconcileOnce(p) \/ Finish(p) \/ Crash(p) \/ AbandonPass(p)
        PROVE  UNCHANGED <<status, locks, runs>>
    BY <2>8 DEF AdvanceWaits, LoadFails,
                FinalizationFails, AdvanceRefused, AdvanceConflicts, ApprovalInvalid,
                ExecutorAdmits, ExecutorFails, NoContinuation, DeferredStartupFails,
                ReconcileWaits, ReconcileOnce, Finish, Crash, AbandonPass, PassError,
                store, world
  <2>9. ASSUME NEW p \in Processes, NEW w \in WorkItems, NEW c \in Controls,
               SetWorkflowControl(p, w, c)
        PROVE  UNCHANGED <<status, locks, runs>>
    BY <2>9 DEF SetWorkflowControl, world
  <2>10. ASSUME Tick PROVE UNCHANGED <<status, locks, runs>>
    BY <2>10, Zenon DEF Tick, world
  <2>11. ASSUME LaunchJob \/ LaunchLost \/ \E w \in WorkItems : CloseWorkItem(w)
         PROVE  UNCHANGED <<status, locks, runs>>
    BY <2>11 DEF LaunchJob, LaunchLost, CloseWorkItem, store, world
  <2>12. ASSUME UNCHANGED vars PROVE UNCHANGED <<status, locks, runs>>
    BY <2>12 DEF vars
  <2> QED
    BY <2>1, <2>2, <2>3, <2>4, <2>5, <2>6, <2>7, <2>8, <2>9, <2>10, <2>11, <2>12,
       BeginTakes, ReleaseYields, StartSends, DecisionDecides, RecoverSends, QuietLocks
       DEF Next, PassStep
<1> QED
  BY <1>1, <1>2, Invariant, PTL DEF Spec, ImplementsOperationLocks, Resources!Spec, LockStep
=============================================================================
