-------------------------- MODULE CampusLabProofs --------------------------
(***************************************************************************)
(* Proofs about CampusLab, for any number of sessions, slots and workers   *)
(* and any bounds.                                                         *)
(*                                                                         *)
(* 1. Types: the journal, the provider and the workers stay well formed.   *)
(* 2. Moves: what one step may do to the sessions and their slots          *)
(*    (SlotMoves), to the provider (ProviderMoves), to the workers         *)
(*    (StepWorker) and to the operations (StepOperation), each action read *)
(*    once.                                                                *)
(* 3. IInv is inductive, conjunct by conjunct, from the moves.             *)
(* 4. The properties follow from IInv and the moves.                       *)
(***************************************************************************)
EXTENDS CampusLab, TLAPS

\* The tables start well formed: empty (migration 0058).
LEMMA TypeInit == Init => TypeOK
<1> SUFFICES ASSUME Init PROVE TypeOK
  OBVIOUS
<1>1. JournalTypeOK
  BY CampusAssumption DEF Init, JournalTypeOK, LabRows, SlotRows, OpRows, States
<1>2. ProviderTypeOK
  BY CampusAssumption DEF Init, ProviderTypeOK
<1>3. WorkerTypeOK
  BY DEF Init, WorkerTypeOK, Steps, Copies, NoCopy, NoLease, Answers, States
<1>4. \A w \in Workers : pc[w] \notin {"idle", "sweep"} => cur[w].session \in Sessions
  BY DEF Init
<1> QED
  BY <1>1, <1>2, <1>3, <1>4 DEF TypeOK

\* Every step keeps the provider's sets within the sessions.
LEMMA TypeProvider == TypeOK /\ [Next]_vars => ProviderTypeOK'
<1> SUFFICES ASSUME TypeOK, [Next]_vars PROVE ProviderTypeOK'
  OBVIOUS
<1>1. ASSUME UNCHANGED <<provider, faults>> PROVE ProviderTypeOK'
  BY <1>1 DEF provider, TypeOK, ProviderTypeOK
<1>2. ASSUME NEW w \in Workers, ProviderProvision(w) PROVE ProviderTypeOK'
  BY <1>2, CampusAssumption DEF ProviderProvision, Answer, Goto, Fault, TypeOK, ProviderTypeOK
<1>3. ASSUME NEW w \in Workers, ProviderObserve(w) \/ ConfirmTeardown(w) PROVE ProviderTypeOK'
  BY <1>3, CampusAssumption DEF ProviderObserve, ConfirmTeardown, Answer, Goto, Fault, provider, TypeOK, ProviderTypeOK
<1>4. ASSUME NEW w \in Workers, ProviderDelete(w) PROVE ProviderTypeOK'
  BY <1>4, CampusAssumption DEF ProviderDelete, Answer, Goto, Fault, TypeOK, ProviderTypeOK
<1>5. ASSUME NEW w \in Workers, StepFails(w) \/ Crash(w) PROVE ProviderTypeOK'
  BY <1>5, CampusAssumption DEF StepFails, Crash, Fault, provider, TypeOK, ProviderTypeOK
<1>6. ASSUME NEW s \in Sessions, StrayProvision(s) \/ LoseWorkspace(s) PROVE ProviderTypeOK'
  BY <1>6, CampusAssumption DEF StrayProvision, LoseWorkspace, Fault, TypeOK, ProviderTypeOK
<1> QED
  <2>1. ASSUME NEW w \in Workers, Reconcile(w) \/ StepFails(w) \/ Crash(w)
        PROVE  ProviderTypeOK'
    <3>1. ASSUME \/ BeginSweep(w) \/ ListSteppable(w) \/ ListBlocked(w) \/ EndSweep(w)
                 \/ \E s \in Sessions : Load(w, s) \/ LoadBlocked(w, s)
          PROVE  ProviderTypeOK'
      BY <1>1, <3>1 DEF BeginSweep, ListSteppable, ListBlocked, EndSweep, Load, LoadBlocked,
                        Loads
    <3>2. ASSUME \/ NothingToDo(w) \/ StaleCopy(w) \/ StartOrDrop(w) \/ Admit(w)
                 \/ AdmitWaits(w) \/ AbandonProvision(w)
          PROVE  ProviderTypeOK'
      BY <1>1, <3>2 DEF NothingToDo, StaleCopy, StartOrDrop, Admit, AdmitWaits,
                        AbandonProvision
    <3>3. ASSUME \/ Lease(w) \/ StopReady(w) \/ Observe(w) \/ Clean(w)
          PROVE  ProviderTypeOK'
      BY <1>1, <3>3 DEF Lease, StopReady, Observe, Clean
    <3>4. ASSUME \/ RecordProvisioned(w) \/ RecordObserved(w) \/ RecordDeleted(w)
                 \/ ReleaseLease(w)
          PROVE  ProviderTypeOK'
      BY <1>1, <3>4 DEF RecordProvisioned, RecordObserved, RecordDeleted, ReleaseLease
    <3> QED
      BY <1>2, <1>3, <1>4, <1>5, <2>1, <3>1, <3>2, <3>3, <3>4 DEF Reconcile
  <2>2. ASSUME NEW s \in Sessions, CreateSession(s) \/ RequestStop(s) PROVE ProviderTypeOK'
    BY <1>1, <2>2 DEF CreateSession, RequestStop
  <2>3. ASSUME NEW k \in Slots, HoldSlot(k) \/ ReleaseHold(k) PROVE ProviderTypeOK'
    BY <1>1, <2>3 DEF HoldSlot, ReleaseHold
  <2>4. ASSUME Tick \/ UNCHANGED vars PROVE ProviderTypeOK'
    BY <1>1, <2>4 DEF Tick, vars, provider
  <2> QED
    BY <1>6, <2>1, <2>2, <2>3, <2>4 DEF Next

\* Every row a transition writes is a row.
LEMMA LabWrites ==
    ASSUME JournalTypeOK, NEW s \in Sessions, NEW to \in States
    PROVE  /\ Move(s, to) \in [Sessions -> LabRows]
           /\ Revoke(s) \in [Sessions -> LabRows]
           /\ RevokeFailed(s) \in [Sessions -> LabRows]
<1>1. lab \in [Sessions -> LabRows] /\ lab[s] \in LabRows
  BY DEF JournalTypeOK
<1>2. PICK st \in States, yes \in BOOLEAN : st = "stopping" /\ yes = TRUE
  BY DEF States, HoldsSlot
<1>3. PICK g \in Nat : g = lab[s].gen + 1
  BY <1>1 DEF LabRows
<1>4. Move(s, to) \in [Sessions -> LabRows]
  <2>1. [lab[s] EXCEPT !.state = to, !.gen = g] \in LabRows
    BY <1>1 DEF LabRows
  <2>2. Move(s, to) = [lab EXCEPT ![s] = [lab[s] EXCEPT !.state = to, !.gen = g]]
    BY <1>1, <1>3 DEF Move
  <2> QED
    BY <1>1, <2>1, <2>2
<1>5. Revoke(s) \in [Sessions -> LabRows]
  <2>1. [lab[s] EXCEPT !.state = st, !.gen = g, !.stop = yes] \in LabRows
    BY <1>1 DEF LabRows
  <2>2. Revoke(s) = [lab EXCEPT ![s] = [lab[s] EXCEPT !.state = st, !.gen = g, !.stop = yes]]
    BY <1>1, <1>2, <1>3 DEF Revoke
  <2> QED
    BY <1>1, <2>1, <2>2
<1>6. RevokeFailed(s) \in [Sessions -> LabRows]
  <2>1. [lab[s] EXCEPT !.state = st, !.gen = g, !.stop = yes, !.failed = yes] \in LabRows
    BY <1>1 DEF LabRows
  <2>2. RevokeFailed(s) = [lab EXCEPT ![s] = [lab[s] EXCEPT !.state = st, !.gen = g,
                                                !.stop = yes, !.failed = yes]]
    BY <1>1, <1>2, <1>3 DEF RevokeFailed
  <2> QED
    BY <1>1, <2>1, <2>2
<1> QED
  BY <1>4, <1>5, <1>6

\* So is every operation row: completed, released or leased again.
LEMMA OpCompletes ==
    ASSUME JournalTypeOK, NEW s \in Sessions,
           NEW st \in {"succeeded", "failed", "blocked", "abandoned"}, Completes(s, st)
    PROVE  op' \in [Sessions -> OpRows]
<1>1. op \in [Sessions -> OpRows] /\ op[s] \in OpRows
  BY DEF JournalTypeOK
<1>2. [op[s] EXCEPT !.status = st, !.owner = Nil] \in OpRows
  BY <1>1 DEF OpRows
<1>3. op' = [op EXCEPT ![s] = [op[s] EXCEPT !.status = st, !.owner = Nil]]
  BY <1>1 DEF Completes
<1> QED
  BY <1>1, <1>2, <1>3

\* A released operation row is a row.
LEMMA OpReleased ==
    ASSUME JournalTypeOK, NEW s \in Sessions
    PROVE  [op EXCEPT ![s].owner = Nil] \in [Sessions -> OpRows]
BY DEF OpRows, JournalTypeOK

\* A leased operation row is a row, and its lease end a number.
LEMMA OpLeased ==
    ASSUME JournalTypeOK, NEW s \in Sessions, NEW w \in Workers
    PROVE  [op EXCEPT ![s].owner = w, ![s].fence = @ + 1] \in [Sessions -> OpRows]
<1>1. op \in [Sessions -> OpRows] /\ op[s] \in OpRows
  BY DEF JournalTypeOK
<1>2. PICK f \in Nat : f = op[s].fence + 1
  BY <1>1 DEF OpRows
<1>3. [op[s] EXCEPT !.owner = w, !.fence = f] \in OpRows
  BY <1>1 DEF OpRows
<1>4. [op EXCEPT ![s].owner = w, ![s].fence = @ + 1]
        = [op EXCEPT ![s] = [op[s] EXCEPT !.owner = w, !.fence = f]]
  BY <1>1, <1>2
<1> QED
  BY <1>1, <1>3, <1>4

\* An operation that begins is leased to the worker.
LEMMA BeginWrites ==
    ASSUME JournalTypeOK, WorkerTypeOK, NEW s \in Sessions, NEW w \in Workers,
           NEW kind \in {"provision", "delete"}, Begins(w, s, kind)
    PROVE  op' \in [Sessions -> OpRows] /\ until' \in [Sessions -> Int]
<1>1. PICK g \in Nat : g = lab[s].gen + 1
  BY DEF JournalTypeOK, LabRows
<1>2. [kind |-> kind, gen |-> g, status |-> "pending", owner |-> w, fence |-> 1] \in OpRows
  BY DEF OpRows
<1>3. op' = [op EXCEPT ![s] = [kind |-> kind, gen |-> g, status |-> "pending",
                               owner |-> w, fence |-> 1]]
  BY <1>1 DEF Begins
<1>4. op' \in [Sessions -> OpRows]
  BY <1>2, <1>3 DEF JournalTypeOK
<1>5. LeaseTicks - lag[w] \in Int
  BY CampusAssumption DEF WorkerTypeOK
<1>6. until' \in [Sessions -> Int]
  BY <1>5 DEF Begins, JournalTypeOK
<1> QED
  BY <1>4, <1>6

\* A worker in the middle of a step has a session.
LEMMA BusySession ==
    ASSUME TypeOK, NEW w \in Workers, pc[w] \notin {"idle", "sweep"}
    PROVE  cur[w].session \in Sessions
BY DEF TypeOK

\* Every step keeps the journal typed.
LEMMA TypeJournal == TypeOK /\ [Next]_vars => JournalTypeOK'
<1> SUFFICES ASSUME TypeOK, [Next]_vars PROVE JournalTypeOK'
  OBVIOUS
<1>j. JournalTypeOK /\ WorkerTypeOK
  BY DEF TypeOK
<1>s. States = {"none", "requested", "authorizing", "provisioning", "ready", "stopping",
                "cleaning", "cleanup_blocked", "terminated", "failed"}
  BY DEF States, HoldsSlot, Terminal
<1>1. ASSUME UNCHANGED <<journal, held>> PROVE JournalTypeOK'
  BY <1>j, <1>1 DEF journal, JournalTypeOK
<1>2. ASSUME NEW w \in Workers, NEW s \in Sessions, Load(w, s) PROVE JournalTypeOK'
  <2>1. PICK b \in BOOLEAN : b = (lab[s].stop \/ Ends(w, s))
    BY <1>j DEF JournalTypeOK, LabRows, Ends
  <2>2. lab' = [lab EXCEPT ![s].stop = b]
    BY <1>2, <2>1 DEF Load
  <2>3. lab' \in [Sessions -> LabRows]
    BY <1>j, <2>2 DEF JournalTypeOK, LabRows
  <2> QED
    BY <1>j, <1>2, <2>3 DEF Load, Loads, JournalTypeOK
<1>3. ASSUME NEW w \in Workers, StartOrDrop(w) PROVE JournalTypeOK'
  <2>1. PICK s \in Sessions : s = cur[w].session
    BY <1>3, BusySession DEF StartOrDrop
  <2>2. Move(s, "authorizing") \in [Sessions -> LabRows]
        /\ Move(s, "terminated") \in [Sessions -> LabRows]
    BY <1>j, <1>s, LabWrites
  <2>3. [Move(s, "terminated") EXCEPT ![s].stop = TRUE] \in [Sessions -> LabRows]
    BY <2>2 DEF LabRows
  <2> QED
    BY <1>j, <1>3, <2>1, <2>2, <2>3 DEF StartOrDrop, JournalTypeOK
<1>4. ASSUME NEW w \in Workers, Admit(w) PROVE JournalTypeOK'
  <2>1. PICK s \in Sessions : s = cur[w].session
    BY <1>4, BusySession DEF Admit
  <2>2. Move(s, "provisioning") \in [Sessions -> LabRows]
    BY <1>j, <1>s, LabWrites
  <2>3. PICK k \in Slots :
          /\ slot' = [slot EXCEPT ![k] = [occupant |-> s, gen |-> @.gen + 1]]
          /\ lab' = [Move(s, "provisioning") EXCEPT ![s].slot = k,
                                                    ![s].slotGen = slot[k].gen + 1]
    BY <1>4, <2>1 DEF Admit, FreeSlots
  <2>4. PICK g \in Nat : g = slot[k].gen + 1
    BY <1>j DEF JournalTypeOK, SlotRows
  <2>5. [occupant |-> s, gen |-> g] \in SlotRows
    BY DEF SlotRows
  <2>6. slot' \in [Slots -> SlotRows]
    BY <1>j, <2>3, <2>4, <2>5 DEF JournalTypeOK
  <2>7. DEFINE m == Move(s, "provisioning")
  <2>8. [m[s] EXCEPT !.slot = k, !.slotGen = g] \in LabRows
    BY <2>2 DEF LabRows
  <2>9. lab' = [m EXCEPT ![s] = [m[s] EXCEPT !.slot = k, !.slotGen = g]]
    BY <2>2, <2>3, <2>4
  <2>10. lab' \in [Sessions -> LabRows]
    <3> HIDE DEF m
    <3>1. m \in [Sessions -> LabRows]
      BY <2>2 DEF m
    <3> QED
      BY <2>8, <2>9, <3>1
  <2>11. op' \in [Sessions -> OpRows] /\ until' \in [Sessions -> Int]
    BY <1>j, <1>4, <2>1, BeginWrites DEF Admit
  <2>12. UNCHANGED <<left, retry, held>>
    BY <1>4 DEF Admit
  <2> QED
    BY <1>j, <2>6, <2>10, <2>11, <2>12 DEF JournalTypeOK
<1>5. ASSUME NEW w \in Workers, AbandonProvision(w) PROVE JournalTypeOK'
  <2>1. PICK s \in Sessions : s = cur[w].session
    BY <1>5, BusySession DEF AbandonProvision
  <2>2. CASE LeaseLive(w, s)
    BY <1>j, <1>5, <2>1, <2>2 DEF AbandonProvision, JournalTypeOK
  <2>3. CASE ~LeaseLive(w, s)
    <3>1. lab' = Revoke(s) /\ Completes(s, "abandoned") /\ "stopping" \in States
      BY <1>s, <1>5, <2>1, <2>3 DEF AbandonProvision
    <3>2. lab' \in [Sessions -> LabRows] /\ op' \in [Sessions -> OpRows]
      BY <1>j, <3>1, LabWrites, OpCompletes
    <3> QED
      BY <1>j, <1>5, <3>2 DEF AbandonProvision, JournalTypeOK
  <2> QED
    BY <2>2, <2>3
<1>6. ASSUME NEW w \in Workers, Lease(w) PROVE JournalTypeOK'
  <2>1. PICK s \in Sessions : s = cur[w].session
    BY <1>6, BusySession DEF Lease
  <2>2. op' \in [Sessions -> OpRows]
    <3>1. op' = op \/ op' = [op EXCEPT ![s].owner = w, ![s].fence = @ + 1]
      BY <1>6, <2>1 DEF Lease
    <3>2. [op EXCEPT ![s].owner = w, ![s].fence = @ + 1] \in [Sessions -> OpRows]
      BY <1>j, OpLeased
    <3>3. op \in [Sessions -> OpRows]
      BY <1>j DEF JournalTypeOK
    <3> QED
      BY <3>1, <3>2, <3>3
  <2>3. LeaseTicks - lag[w] \in Int
    BY <1>j, CampusAssumption DEF WorkerTypeOK
  <2>4. until' \in [Sessions -> Int]
    BY <1>j, <1>6, <2>1, <2>3 DEF Lease, JournalTypeOK
  <2>5. UNCHANGED <<lab, slot, left, retry, held>>
    BY <1>6 DEF Lease
  <2> QED
    BY <1>j, <2>2, <2>4, <2>5 DEF JournalTypeOK
<1>7. ASSUME NEW w \in Workers, StopReady(w) \/ RecordObserved(w) PROVE JournalTypeOK'
  <2>1. PICK s \in Sessions : s = cur[w].session
    BY <1>7, BusySession DEF StopReady, RecordObserved
  <2> QED
    BY <1>j, <1>s, <1>7, <2>1, LabWrites DEF StopReady, RecordObserved, JournalTypeOK
<1>8. ASSUME NEW w \in Workers, Clean(w) PROVE JournalTypeOK'
  <2>1. PICK s \in Sessions : s = cur[w].session
    BY <1>8, BusySession DEF Clean
  <2>2. op' \in [Sessions -> OpRows] /\ until' \in [Sessions -> Int]
    BY <1>j, <1>8, <2>1, BeginWrites DEF Clean
  <2> QED
    BY <1>j, <1>s, <1>8, <2>1, <2>2, LabWrites DEF Clean, JournalTypeOK
<1>9. ASSUME NEW w \in Workers, RecordProvisioned(w) PROVE JournalTypeOK'
  <2>1. PICK s \in Sessions : s = cur[w].session
    BY <1>9, BusySession DEF RecordProvisioned
  <2>2. \/ lab' = Move(s, "ready") /\ Completes(s, "succeeded")
        \/ lab' = RevokeFailed(s) /\ Completes(s, "failed")
        \/ UNCHANGED <<lab, op>>
    BY <1>9, <2>1 DEF RecordProvisioned
  <2>3. lab' \in [Sessions -> LabRows] /\ op' \in [Sessions -> OpRows]
    BY <1>j, <1>s, <2>2, LabWrites, OpCompletes DEF JournalTypeOK
  <2> QED
    BY <1>j, <1>9, <2>3 DEF RecordProvisioned, JournalTypeOK
<1>10. ASSUME NEW w \in Workers, RecordDeleted(w) PROVE JournalTypeOK'
  <2>1. PICK s \in Sessions : s = cur[w].session
    BY <1>10, BusySession DEF RecordDeleted
  <2>2. lab' \in [Sessions -> LabRows]
    BY <1>j, <1>s, <1>10, <2>1, LabWrites DEF RecordDeleted, JournalTypeOK
  <2>3. op' \in [Sessions -> OpRows]
    <3>1. \/ Completes(s, "succeeded") \/ Completes(s, "blocked") \/ op' = op
      BY <1>10, <2>1 DEF RecordDeleted
    <3> QED
      BY <1>j, <3>1, OpCompletes DEF JournalTypeOK
  <2>4. slot' \in [Slots -> SlotRows]
    BY <1>j, <1>10 DEF RecordDeleted, ReleaseSlot, JournalTypeOK, SlotRows
  <2>5. retry' \in [Sessions -> Int]
    <3>1. CASE retry' = retry
      BY <1>j, <3>1 DEF JournalTypeOK
    <3>2. CASE retry' # retry
      <4>1. PICK b \in 1..BackoffTicks : retry' = [retry EXCEPT ![s] = b - lag[w]]
        BY <1>10, <2>1, <3>2 DEF RecordDeleted, RetryWaits
      <4>2. b - lag[w] \in Int
        BY <1>j, CampusAssumption DEF WorkerTypeOK
      <4> QED
        BY <1>j, <4>1, <4>2 DEF JournalTypeOK
    <3> QED
      BY <3>1, <3>2
  <2>6. UNCHANGED <<left, until, held>>
    BY <1>10 DEF RecordDeleted
  <2> QED
    BY <1>j, <2>2, <2>3, <2>4, <2>5, <2>6 DEF JournalTypeOK
<1>11. ASSUME NEW w \in Workers, ReleaseLease(w) PROVE JournalTypeOK'
  <2>1. PICK s \in Sessions : s = cur[w].session
    BY <1>11, BusySession DEF ReleaseLease
  <2>2. op' = op \/ op' = [op EXCEPT ![s].owner = Nil]
    BY <1>11, <2>1 DEF ReleaseLease
  <2>3. op' \in [Sessions -> OpRows]
    BY <1>j, <2>2, OpReleased DEF JournalTypeOK
  <2> QED
    BY <1>j, <1>11, <2>3 DEF ReleaseLease, JournalTypeOK
<1>12. ASSUME NEW s \in Sessions, CreateSession(s) PROVE JournalTypeOK'
  <2>1. lab' \in [Sessions -> LabRows]
    <3>1. lab \in [Sessions -> LabRows] /\ lab[s] \in LabRows
      BY <1>j DEF JournalTypeOK
    <3>2. PICK st \in States, g \in Nat : st = "requested" /\ g = 1
      BY <1>s
    <3>3. [lab[s] EXCEPT !.state = st, !.gen = g] \in LabRows
      BY <3>1 DEF LabRows
    <3>4. lab' = [lab EXCEPT ![s] = [lab[s] EXCEPT !.state = st, !.gen = g]]
      BY <1>12, <3>1, <3>2 DEF CreateSession
    <3> QED
      BY <3>1, <3>3, <3>4
  <2> QED
    BY <1>j, <1>12, <2>1, CampusAssumption DEF CreateSession, JournalTypeOK
<1>13. ASSUME NEW s \in Sessions, RequestStop(s) PROVE JournalTypeOK'
  BY <1>j, <1>13 DEF RequestStop, JournalTypeOK, LabRows
<1>14. ASSUME NEW k \in Slots, HoldSlot(k) \/ ReleaseHold(k) PROVE JournalTypeOK'
  BY <1>j, <1>14 DEF HoldSlot, ReleaseHold, journal, JournalTypeOK
<1>15. ASSUME Tick PROVE JournalTypeOK'
  BY <1>j, <1>15, CampusAssumption DEF Tick, Age, JournalTypeOK
<1> QED
  <2>1. ASSUME NEW w \in Workers, Reconcile(w) \/ StepFails(w) \/ Crash(w)
        PROVE  JournalTypeOK'
    BY <1>1, <1>2, <1>3, <1>4, <1>5, <1>6, <1>7, <1>8, <1>9, <1>10, <1>11, <2>1
    DEF Reconcile, BeginSweep, ListSteppable, ListBlocked, EndSweep, LoadBlocked, Loads,
        NothingToDo, StaleCopy, AdmitWaits, Observe, ProviderProvision, ProviderObserve,
        ProviderDelete, ConfirmTeardown, StepFails, Crash, journal
  <2>2. ASSUME NEW s \in Sessions, StrayProvision(s) \/ LoseWorkspace(s)
        PROVE  JournalTypeOK'
    BY <1>1, <2>2 DEF StrayProvision, LoseWorkspace, journal
  <2>3. ASSUME UNCHANGED vars PROVE JournalTypeOK'
    BY <1>1, <2>3 DEF vars, journal
  <2> QED
    BY <1>12, <1>13, <1>14, <1>15, <2>1, <2>2, <2>3 DEF Next

\* Where a step ends, the worker's state is well formed.
LEMMA EndOfStep ==
    ASSUME TypeOK, NEW w \in Workers, pc[w] \notin {"idle", "sweep"},
           Advanced(w) \/ Settled(w)
    PROVE  /\ WorkerTypeOK'
           /\ \A v \in Workers : pc'[v] \notin {"idle", "sweep"} => cur'[v].session \in Sessions
<1>1. NoCopy \in Copies /\ NoLease \in [gen : Nat, fence : Nat] /\ "none" \in Answers
  BY DEF NoCopy, NoLease, Copies, States, Answers
<1>2. CASE Advanced(w)
  BY <1>1, <1>2 DEF Advanced, Goto, TypeOK, WorkerTypeOK, Steps
<1>3. CASE Settled(w)
  BY <1>1, <1>3 DEF Settled, Goto, TypeOK, WorkerTypeOK, Steps
<1> QED
  BY <1>2, <1>3

\* A step that goes on keeps its session.
LEMMA GoesOn ==
    ASSUME TypeOK, NEW w \in Workers, pc[w] \notin {"idle", "sweep"}, NEW step \in Steps,
           Goto(w, step), UNCHANGED <<phase, todo, settled, lag>>,
           cur' \in [Workers -> Copies], cur'[w].session = cur[w].session,
           \A v \in Workers \ {w} : cur'[v] = cur[v],
           lease' \in [Workers -> [gen : Nat, fence : Nat]],
           ans' \in [Workers -> Answers]
    PROVE  /\ WorkerTypeOK'
           /\ \A v \in Workers : pc'[v] \notin {"idle", "sweep"} => cur'[v].session \in Sessions
<1>1. WorkerTypeOK'
  BY DEF Goto, TypeOK, WorkerTypeOK
<1>2. ASSUME NEW v \in Workers, pc'[v] \notin {"idle", "sweep"}
      PROVE  cur'[v].session \in Sessions
  BY <1>2 DEF Goto, TypeOK, WorkerTypeOK
<1> QED
  BY <1>1, <1>2

\* Every step keeps the workers typed.
LEMMA TypeWorker ==
    TypeOK /\ [Next]_vars
      => /\ WorkerTypeOK'
         /\ \A v \in Workers : pc'[v] \notin {"idle", "sweep"} => cur'[v].session \in Sessions
<1> DEFINE Good == /\ WorkerTypeOK'
                   /\ \A v \in Workers :
                        pc'[v] \notin {"idle", "sweep"} => cur'[v].session \in Sessions
<1> SUFFICES ASSUME TypeOK, [Next]_vars PROVE Good
  OBVIOUS
<1>t. JournalTypeOK /\ WorkerTypeOK
  BY DEF TypeOK
<1>1. ASSUME UNCHANGED worker PROVE Good
  BY <1>1 DEF worker, TypeOK, WorkerTypeOK
<1>2. ASSUME NEW w \in Workers,
             BeginSweep(w) \/ ListSteppable(w) \/ ListBlocked(w) \/ EndSweep(w)
      PROVE  Good
  <2>1. /\ UNCHANGED <<cur, lease, ans>>
        /\ Goto(w, "sweep") \/ Goto(w, "idle") \/ pc' = pc
        /\ \E t \in SUBSET Sessions : todo' = [todo EXCEPT ![w] = t] \/ todo' = todo
        /\ \E l \in Nat : lag' = [lag EXCEPT ![w] = l] \/ lag' = lag
    BY <1>2 DEF BeginSweep, ListSteppable, ListBlocked, EndSweep
  <2>2. pc' \in [Workers -> Steps] /\ todo' \in [Workers -> SUBSET Sessions]
        /\ lag' \in [Workers -> Nat]
    BY <1>t, <2>1 DEF Goto, Steps, WorkerTypeOK
  <2>3. phase' \in [Workers -> {"expired", "steppable", "blocked"}]
    BY <1>t, <1>2 DEF BeginSweep, ListSteppable, ListBlocked, EndSweep, WorkerTypeOK
  <2>4. settled' \in [Workers -> SUBSET Sessions]
    BY <1>t, <1>2, <2>2 DEF BeginSweep, ListSteppable, ListBlocked, EndSweep, WorkerTypeOK
  <2>5. WorkerTypeOK'
    BY <1>t, <2>1, <2>2, <2>3, <2>4 DEF WorkerTypeOK
  <2>6. \A v \in Workers : pc'[v] \notin {"idle", "sweep"} => cur'[v].session \in Sessions
    BY <1>t, <2>1 DEF Goto, TypeOK, WorkerTypeOK
  <2> QED
    BY <2>5, <2>6
<1>3. ASSUME NEW w \in Workers, NEW s \in Sessions, NEW b \in BOOLEAN, NEW r \in BOOLEAN,
             Loads(w, s, b, r)
      PROVE  Good
  <2>1. lab[s].state \in States /\ lab[s].gen \in Nat
    BY <1>t DEF JournalTypeOK, LabRows
  <2>2. [session |-> s, state |-> lab[s].state, gen |-> lab[s].gen, stopping |-> b,
         retry |-> r] \in Copies
    BY <2>1 DEF Copies
  <2>3. cur' \in [Workers -> Copies] /\ cur'[w].session = s
    BY <1>t, <1>3, <2>2 DEF Loads, WorkerTypeOK
  <2>4. \A v \in Workers \ {w} : cur'[v] = cur[v]
    BY <1>t, <1>3 DEF Loads, WorkerTypeOK
  <2>5. UNCHANGED <<phase, todo, settled, lease, ans, lag>> /\ Goto(w, "loaded")
    BY <1>3 DEF Loads
  <2> QED
    BY <1>t, <2>3, <2>4, <2>5 DEF Goto, Steps, TypeOK, WorkerTypeOK
<1>4. ASSUME NEW w \in Workers,
             \/ NothingToDo(w) \/ StaleCopy(w) \/ StartOrDrop(w) \/ AdmitWaits(w)
             \/ AbandonProvision(w) \/ StopReady(w) \/ RecordProvisioned(w)
             \/ RecordObserved(w) \/ RecordDeleted(w) \/ ReleaseLease(w) \/ StepFails(w)
      PROVE  Good
  <2>1. pc[w] \notin {"idle", "sweep"} /\ (Advanced(w) \/ Settled(w))
    BY <1>4 DEF NothingToDo, StaleCopy, StartOrDrop, AdmitWaits, AbandonProvision, StopReady,
                RecordProvisioned, RecordObserved, RecordDeleted, ReleaseLease, StepFails
  <2> QED
    BY <2>1, EndOfStep
<1>5. ASSUME NEW w \in Workers, Admit(w) \/ Clean(w) PROVE Good
  <2>1. PICK s \in Sessions : s = cur[w].session
    BY <1>5, BusySession DEF Admit, Clean
  <2>2. PICK st \in States, g \in Nat, n \in Nat :
          st \in {"provisioning", "cleaning"} /\ g = cur[w].gen + 1 /\ n = lab[s].gen + 1
          /\ cur' = [cur EXCEPT ![w].state = st, ![w].gen = @ + 1]
    BY <1>t, <1>5, <2>1 DEF Admit, Clean, JournalTypeOK, WorkerTypeOK, LabRows, Copies, States,
                            HoldsSlot
  <2>3. [cur[w] EXCEPT !.state = st, !.gen = g] \in Copies
    BY <1>t DEF WorkerTypeOK, Copies
  <2>4. cur' = [cur EXCEPT ![w] = [cur[w] EXCEPT !.state = st, !.gen = g]]
    BY <1>t, <2>2 DEF WorkerTypeOK
  <2>5. /\ cur' \in [Workers -> Copies]
        /\ \A v \in Workers \ {w} : cur'[v] = cur[v]
    BY <1>t, <2>3, <2>4 DEF WorkerTypeOK
  <2>6. cur'[w].session = cur[w].session
    BY <1>t, <2>4 DEF WorkerTypeOK, Copies
  <2>7. lease' = [lease EXCEPT ![w] = [gen |-> n, fence |-> 1]]
    BY <1>5, <2>1, <2>2 DEF Admit, Clean, Begins
  <2>8. lease' \in [Workers -> [gen : Nat, fence : Nat]]
    BY <1>t, <2>7 DEF WorkerTypeOK
  <2>9. \E step \in Steps : Goto(w, step)
    BY <1>5 DEF Admit, Clean, Steps
  <2>10. pc[w] \notin {"idle", "sweep"} /\ UNCHANGED <<phase, todo, settled, ans, lag>>
    BY <1>5 DEF Admit, Clean
  <2> QED
    BY <1>t, <2>5, <2>6, <2>8, <2>9, <2>10, GoesOn DEF WorkerTypeOK
<1>6. ASSUME NEW w \in Workers, Lease(w) PROVE Good
  <2>1. PICK s \in Sessions : s = cur[w].session
    BY <1>6, BusySession DEF Lease
  <2>2. CASE Settled(w)
    BY <1>6, <2>2, EndOfStep DEF Lease
  <2>3. CASE ~Settled(w)
    <3>1. PICK f \in Nat, g \in Nat : f = op[s].fence + 1 /\ g = op[s].gen
      BY <1>t DEF JournalTypeOK, OpRows
    <3>2. lease' = [lease EXCEPT ![w] = [gen |-> g, fence |-> f]]
      BY <1>6, <2>1, <2>3, <3>1 DEF Lease
    <3>3. lease' \in [Workers -> [gen : Nat, fence : Nat]]
      BY <1>t, <3>2 DEF WorkerTypeOK
    <3>4. UNCHANGED <<phase, todo, settled, cur, ans, lag>> /\ pc[w] = "loaded"
          /\ Goto(w, WaitsFor(cur[w].state))
      BY <1>6, <2>3 DEF Lease
    <3>5. WaitsFor(cur[w].state) \in Steps
      BY DEF WaitsFor, Steps
    <3> QED
      BY <1>t, <3>3, <3>4, <3>5, GoesOn DEF WorkerTypeOK
  <2> QED
    BY <2>2, <2>3
<1>7. ASSUME NEW w \in Workers,
             \/ Observe(w) \/ ProviderProvision(w) \/ ProviderObserve(w) \/ ProviderDelete(w)
             \/ ConfirmTeardown(w)
      PROVE  Good
  <2>1. /\ pc[w] \notin {"idle", "sweep"}
        /\ UNCHANGED <<phase, todo, settled, cur, lease, lag>>
    BY <1>7 DEF Observe, ProviderProvision, ProviderObserve, ProviderDelete, ConfirmTeardown
  <2>2. \/ Goto(w, "observe") /\ ans' = ans
        \/ \E a \in Answers : Answer(w, a)
    BY <1>7 DEF Observe, ProviderProvision, ProviderObserve, ProviderDelete, ConfirmTeardown,
                Answers
  <2>3. \E step \in Steps : Goto(w, step)
    BY <2>2 DEF Answer, Steps
  <2>4. ans' \in [Workers -> Answers]
    BY <1>t, <2>2 DEF Answer, WorkerTypeOK
  <2> QED
    BY <1>t, <2>1, <2>3, <2>4, GoesOn DEF WorkerTypeOK
<1>8. ASSUME NEW w \in Workers, Crash(w) PROVE Good
  <2>1. NoCopy \in Copies /\ NoLease \in [gen : Nat, fence : Nat] /\ "none" \in Answers
    BY DEF NoCopy, NoLease, Copies, States, Answers
  <2> QED
    BY <1>8, <2>1 DEF Crash, Goto, Steps, TypeOK, WorkerTypeOK
<1>9. ASSUME Tick PROVE Good
  BY <1>9 DEF Tick, TypeOK, WorkerTypeOK
<1>10. ASSUME NEW w \in Workers, NEW s \in Sessions, Load(w, s) \/ LoadBlocked(w, s) PROVE Good
  <2>1. lab[s].stop \in BOOLEAN /\ Ends(w, s) \in BOOLEAN
    BY <1>t DEF JournalTypeOK, LabRows, Ends
  <2>2. \E b \in BOOLEAN, r \in BOOLEAN : Loads(w, s, b, r)
    BY <1>10, <2>1 DEF Load, LoadBlocked
  <2> QED
    BY <1>3, <2>2
<1> QED
  <2>1. ASSUME NEW w \in Workers, Reconcile(w) \/ StepFails(w) \/ Crash(w) PROVE Good
    BY <1>2, <1>4, <1>5, <1>6, <1>7, <1>8, <1>10, <2>1 DEF Reconcile
  <2>2. ASSUME NEW s \in Sessions,
               StrayProvision(s) \/ LoseWorkspace(s) \/ CreateSession(s) \/ RequestStop(s)
        PROVE  Good
    BY <1>1, <2>2 DEF StrayProvision, LoseWorkspace, CreateSession, RequestStop
  <2>3. ASSUME NEW k \in Slots, HoldSlot(k) \/ ReleaseHold(k) PROVE Good
    BY <1>1, <2>3 DEF HoldSlot, ReleaseHold
  <2>4. ASSUME UNCHANGED vars PROVE Good
    BY <1>1, <2>4 DEF vars, worker
  <2> QED
    BY <1>9, <2>1, <2>2, <2>3, <2>4 DEF Next

\* THEOREM: for any number of sessions, slots and workers, any leases and any
\* faults, the tables, the provider and the workers stay well formed.
THEOREM TypeCorrect == Spec => []TypeOK
<1>1. TypeOK /\ [Next]_vars => TypeOK'
  BY TypeJournal, TypeProvider, TypeWorker DEF TypeOK
<1> QED
  BY TypeInit, <1>1, PTL DEF Spec

-----------------------------------------------------------------------------
\* What one step may do to sessions and slots: a session shifts within the
\* states that hold no slot or within those that do, one is launched into a
\* free slot, or one ends and frees its slot.
PreLaunch == {"none", "requested", "authorizing"}

Shifts(a, b) ==
    \/ a = b
    \/ a \in PreLaunch /\ b \in {"requested", "authorizing", "terminated"}
    \/ a \in HoldsSlot /\ b \in HoldsSlot

Keeps(s) ==
    /\ lab'[s].slot = lab[s].slot
    /\ lab'[s].slotGen = lab[s].slotGen
    /\ lab'[s].gen >= lab[s].gen

Quiet == slot' = slot /\ \A s \in Sessions : Keeps(s) /\ Shifts(lab[s].state, lab'[s].state)

Launches(s, k) ==
    /\ lab[s].state = "authorizing"
    /\ ~lab[s].stop
    /\ slot[k].occupant = Nil
    /\ slot' = [slot EXCEPT ![k] = [occupant |-> s, gen |-> slot[k].gen + 1]]
    /\ lab'[s].state = "provisioning"
    /\ lab'[s].slot = k
    /\ lab'[s].slotGen = slot[k].gen + 1
    /\ lab'[s].gen >= lab[s].gen
    /\ \A t \in Sessions \ {s} : lab'[t] = lab[t]

Releases(w, s) ==
    /\ pc[w] = "answered"
    /\ ans[w] = "confirmed"
    /\ cur[w].session = s
    /\ lab[s].state = "cleaning"
    /\ lab'[s].state \in Terminal
    /\ Keeps(s)
    /\ slot' = [slot EXCEPT ![lab[s].slot].occupant = Nil]
    /\ \A t \in Sessions \ {s} : lab'[t] = lab[t]

SlotMoves ==
    \/ Quiet
    \/ \E s \in Sessions, k \in Slots : Launches(s, k)
    \/ \E w \in Workers, s \in Sessions : Releases(w, s)

\* What a transition changes of the rows.
LEMMA RowChanges ==
    ASSUME JournalTypeOK, NEW s \in Sessions, NEW to \in States,
           lab' \in {Move(s, to), Revoke(s), RevokeFailed(s)}
    PROVE  /\ \A t \in Sessions \ {s} : lab'[t] = lab[t]
           /\ lab'[s].slot = lab[s].slot
           /\ lab'[s].slotGen = lab[s].slotGen
           /\ lab'[s].gen = lab[s].gen + 1
           /\ lab' = Move(s, to) => lab'[s].state = to
           /\ lab' # Move(s, to) => lab'[s].state = "stopping"
BY DEF Move, Revoke, RevokeFailed, JournalTypeOK, LabRows

\* A transition that shifts a session and leaves the slots alone.
LEMMA ShiftIsQuiet ==
    ASSUME JournalTypeOK, NEW s \in Sessions, NEW to \in States,
           lab' \in {Move(s, to), Revoke(s), RevokeFailed(s)}, slot' = slot,
           Shifts(lab[s].state, lab'[s].state)
    PROVE  Quiet
<1>1. lab[s].gen \in Nat /\ \A t \in Sessions : lab[t].gen \in Nat
  BY DEF JournalTypeOK, LabRows
<1>2. ASSUME NEW t \in Sessions PROVE Keeps(t) /\ Shifts(lab[t].state, lab'[t].state)
  <2>1. CASE t = s
    BY <1>1, <2>1, RowChanges DEF Keeps
  <2>2. CASE t # s
    <3>1. lab'[t] = lab[t]
      BY <2>2, RowChanges
    <3> QED
      BY <1>1, <3>1 DEF Keeps, Shifts
  <2> QED
    BY <2>1, <2>2
<1> QED
  BY <1>2 DEF Quiet

\* Every step moves sessions and slots in one of the ways of SlotMoves: the
\* cases of transition_campus_lab_session and of the requests.
LEMMA StepMoves == TypeOK /\ [Next]_vars => SlotMoves
<1> SUFFICES ASSUME TypeOK, [Next]_vars PROVE SlotMoves
  OBVIOUS
<1>t. JournalTypeOK /\ WorkerTypeOK
  BY DEF TypeOK
<1>g. \A s \in Sessions : lab[s] \in LabRows /\ lab[s].gen \in Nat
  BY <1>t DEF JournalTypeOK, LabRows
<1>s. States = {"none", "requested", "authorizing", "provisioning", "ready", "stopping",
                "cleaning", "cleanup_blocked", "terminated", "failed"}
  BY DEF States, HoldsSlot, Terminal
<1>1. ASSUME UNCHANGED <<lab, slot>> PROVE SlotMoves
  BY <1>1, <1>g DEF SlotMoves, Quiet, Keeps, Shifts
<1>2. ASSUME NEW s \in Sessions, NEW b \in BOOLEAN, lab' = [lab EXCEPT ![s].stop = b],
             slot' = slot
      PROVE  SlotMoves
  <2>1. \A t \in Sessions : Keeps(t) /\ lab'[t].state = lab[t].state
    BY <1>t, <1>g, <1>2 DEF Keeps, JournalTypeOK, LabRows
  <2> QED
    BY <1>2, <2>1 DEF SlotMoves, Quiet, Shifts
<1>3. ASSUME NEW w \in Workers, NEW s \in Sessions, Load(w, s) PROVE SlotMoves
  <2>1. PICK b \in BOOLEAN : b = (lab[s].stop \/ Ends(w, s))
    BY <1>g DEF LabRows, Ends
  <2>2. lab' = [lab EXCEPT ![s].stop = b] /\ slot' = slot
    BY <1>3, <2>1 DEF Load, Loads
  <2> QED
    BY <1>2, <2>2
<1>4. ASSUME NEW w \in Workers, StartOrDrop(w) PROVE SlotMoves
  <2>1. PICK s \in Sessions : s = cur[w].session
    BY <1>4, BusySession DEF StartOrDrop
  <2>2. slot' = slot /\ lab[s].state \in PreLaunch
    BY <1>4, <2>1 DEF StartOrDrop, Current, PreLaunch
  <2>3. CASE lab' = Move(s, "authorizing")
    <3>1. lab'[s].state = "authorizing"
      BY <1>t, <1>s, <2>3, RowChanges
    <3>2. Quiet
      BY <1>t, <1>s, <2>2, <2>3, <3>1, ShiftIsQuiet DEF Shifts, PreLaunch
    <3> QED
      BY <3>2 DEF SlotMoves
  <2>4. CASE lab' = [Move(s, "terminated") EXCEPT ![s].stop = TRUE]
    <3>1. ASSUME NEW t \in Sessions PROVE Keeps(t) /\ Shifts(lab[t].state, lab'[t].state)
      BY <1>t, <1>g, <2>2, <2>4, <3>1 DEF Keeps, Shifts, Move, JournalTypeOK, LabRows
    <3> QED
      BY <2>2, <3>1 DEF SlotMoves, Quiet
  <2> QED
    BY <1>4, <2>1, <2>3, <2>4 DEF StartOrDrop
<1>5. ASSUME NEW w \in Workers, Admit(w) PROVE SlotMoves
  <2>1. PICK s \in Sessions : s = cur[w].session
    BY <1>5, BusySession DEF Admit
  <2>2. PICK k \in FreeSlots :
          /\ slot' = [slot EXCEPT ![k] = [occupant |-> s, gen |-> @.gen + 1]]
          /\ lab' = [Move(s, "provisioning") EXCEPT ![s].slot = k,
                                                    ![s].slotGen = slot[k].gen + 1]
    BY <1>5, <2>1 DEF Admit
  <2>3. lab[s].state = "authorizing" /\ ~lab[s].stop
    BY <1>5, <2>1 DEF Admit, Current, MayLaunch
  <2>4. k \in Slots /\ slot[k].occupant = Nil
    BY DEF FreeSlots
  <2>5. Move(s, "provisioning") \in [Sessions -> LabRows]
    BY <1>t, <1>s, LabWrites
  <2>6. /\ lab'[s].state = "provisioning"
        /\ lab'[s].slot = k
        /\ lab'[s].slotGen = slot[k].gen + 1
        /\ lab'[s].gen >= lab[s].gen
        /\ \A t \in Sessions \ {s} : lab'[t] = lab[t]
    BY <1>t, <1>g, <2>2, <2>5 DEF Move, JournalTypeOK, LabRows
  <2>7. slot' = [slot EXCEPT ![k] = [occupant |-> s, gen |-> slot[k].gen + 1]]
    BY <1>t, <2>2, <2>4 DEF JournalTypeOK
  <2>8. Launches(s, k)
    BY <2>3, <2>4, <2>6, <2>7 DEF Launches
  <2> QED
    BY <2>4, <2>8 DEF SlotMoves
<1>6. ASSUME NEW w \in Workers,
             \/ AbandonProvision(w) \/ StopReady(w) \/ Clean(w) \/ RecordProvisioned(w)
             \/ RecordObserved(w)
      PROVE  SlotMoves
  <2>1. PICK s \in Sessions : s = cur[w].session
    BY <1>6, BusySession DEF AbandonProvision, StopReady, Clean, RecordProvisioned,
                             RecordObserved
  <2>2. slot' = slot
    BY <1>6 DEF AbandonProvision, StopReady, Clean, RecordProvisioned, RecordObserved
  <2>3. CASE lab' = lab
    BY <1>1, <2>2, <2>3
  <2>4. CASE lab' # lab
    <3>1. lab[s].state \in HoldsSlot
      BY <1>6, <2>1, <2>4 DEF AbandonProvision, StopReady, Clean, RecordProvisioned,
             RecordObserved, Current, CleansNext, HoldsSlot
    <3>2. PICK to \in {"ready", "cleaning"} : lab' \in {Move(s, to), Revoke(s), RevokeFailed(s)}
      BY <1>6, <2>1, <2>4 DEF AbandonProvision, StopReady, Clean, RecordProvisioned,
             RecordObserved
    <3>3. to \in States
      BY <1>s
    <3>4. lab'[s].state \in HoldsSlot
      BY <1>t, <3>2, <3>3, RowChanges DEF HoldsSlot
    <3>5. Quiet
      BY <1>t, <2>2, <3>1, <3>2, <3>3, <3>4, ShiftIsQuiet DEF Shifts
    <3> QED
      BY <3>5 DEF SlotMoves
  <2> QED
    BY <2>3, <2>4
<1>7. ASSUME NEW w \in Workers, RecordDeleted(w) PROVE SlotMoves
  <2>1. PICK s \in Sessions : s = cur[w].session
    BY <1>7, BusySession DEF RecordDeleted
  <2>2. CASE ~(Current(w) /\ HoldsLease(w, s))
    BY <1>1, <1>7, <2>1, <2>2 DEF RecordDeleted
  <2>3. CASE Current(w) /\ HoldsLease(w, s) /\ ans[w] = "confirmed"
    <3>1. PICK to \in Terminal : lab' = Move(s, to)
      BY <1>7, <2>1, <2>3 DEF RecordDeleted, Terminal
    <3>2. to \in States
      BY DEF States
    <3>3. /\ pc[w] = "answered"
          /\ lab[s].state = "cleaning"
          /\ slot' = [slot EXCEPT ![lab[s].slot].occupant = Nil]
      BY <1>7, <2>1, <2>3 DEF RecordDeleted, Current, ReleaseSlot
    <3>4. lab'[s].state \in Terminal /\ Keeps(s) /\ \A t \in Sessions \ {s} : lab'[t] = lab[t]
      BY <1>t, <1>g, <3>1, <3>2, RowChanges DEF Keeps
    <3>5. Releases(w, s)
      BY <2>1, <2>3, <3>3, <3>4 DEF Releases
    <3> QED
      BY <3>5 DEF SlotMoves
  <2>4. CASE Current(w) /\ HoldsLease(w, s) /\ ans[w] # "confirmed"
    <3>1. lab' = Move(s, "cleanup_blocked") /\ slot' = slot /\ lab[s].state = "cleaning"
      BY <1>7, <2>1, <2>4 DEF RecordDeleted, Current
    <3>2. lab'[s].state = "cleanup_blocked"
      BY <1>t, <1>s, <3>1, RowChanges
    <3>3. Quiet
      BY <1>t, <1>s, <3>1, <3>2, ShiftIsQuiet DEF Shifts, HoldsSlot
    <3> QED
      BY <3>3 DEF SlotMoves
  <2> QED
    BY <2>2, <2>3, <2>4
<1>8. ASSUME NEW s \in Sessions, CreateSession(s) PROVE SlotMoves
  <2>1. ASSUME NEW t \in Sessions PROVE Keeps(t) /\ Shifts(lab[t].state, lab'[t].state)
    BY <1>t, <1>g, <1>8, <2>1 DEF CreateSession, Keeps, Shifts, PreLaunch, JournalTypeOK, LabRows
  <2> QED
    BY <1>8, <2>1 DEF CreateSession, SlotMoves, Quiet
<1>9. ASSUME NEW s \in Sessions, RequestStop(s) PROVE SlotMoves
  BY <1>2, <1>9 DEF RequestStop
<1> QED
  <2>1. ASSUME NEW w \in Workers, Reconcile(w) \/ StepFails(w) \/ Crash(w) PROVE SlotMoves
    BY <1>1, <1>3, <1>4, <1>5, <1>6, <1>7, <2>1
    DEF Reconcile, BeginSweep, ListSteppable, ListBlocked, EndSweep, LoadBlocked, Loads,
        NothingToDo, StaleCopy, AdmitWaits, Lease, Observe, ProviderProvision, ProviderObserve,
        ProviderDelete, ConfirmTeardown, ReleaseLease, StepFails, Crash, journal
  <2>2. ASSUME \/ \E s \in Sessions : StrayProvision(s) \/ LoseWorkspace(s)
               \/ \E k \in Slots : HoldSlot(k) \/ ReleaseHold(k)
               \/ Tick \/ UNCHANGED vars
        PROVE  SlotMoves
    BY <1>1, <2>2 DEF StrayProvision, LoseWorkspace, HoldSlot, ReleaseHold, Tick, vars, journal
  <2> QED
    BY <1>8, <1>9, <2>1, <2>2 DEF Next

\* The slots and the sessions agree after a step.
LEMMA SlotsStep == TypeOK /\ TypeOK' /\ SlotsAgree /\ SlotMoves => SlotsAgree'
<1> SUFFICES ASSUME TypeOK, TypeOK', SlotsAgree, SlotMoves PROVE SlotsAgree'
  OBVIOUS
<1>t. JournalTypeOK /\ JournalTypeOK'
  BY DEF TypeOK
<1>n. Nil \notin Sessions /\ Nil \notin Slots
  BY CampusAssumption
<1>d. PreLaunch \cap HoldsSlot = {} /\ Terminal \cap HoldsSlot = {} /\ "authorizing" \notin HoldsSlot
      /\ "provisioning" \in HoldsSlot /\ "cleaning" \in HoldsSlot /\ "terminated" \notin HoldsSlot
  BY DEF PreLaunch, HoldsSlot, Terminal
<1>1. CASE Quiet
  <2>1. ASSUME NEW s \in Sessions
        PROVE  lab'[s].state \in HoldsSlot <=> lab[s].state \in HoldsSlot
    BY <1>1 DEF Quiet, Shifts, PreLaunch, HoldsSlot
  <2>2. \A s \in Sessions : lab'[s].state \in HoldsSlot => Occupies(s)'
    BY <1>1, <2>1 DEF Quiet, Keeps, SlotsAgree, Occupies
  <2>3. ASSUME NEW k \in Slots, slot'[k].occupant # Nil
        PROVE  lab'[slot'[k].occupant].state \in HoldsSlot /\ lab'[slot'[k].occupant].slot = k
    <3>1. slot[k].occupant \in Sessions /\ slot'[k] = slot[k]
      BY <1>t, <1>1, <2>3 DEF Quiet, JournalTypeOK, SlotRows
    <3> QED
      BY <1>1, <2>1, <2>3, <3>1 DEF Quiet, Keeps, SlotsAgree
  <2> QED
    BY <2>2, <2>3 DEF SlotsAgree
<1>2. ASSUME NEW s \in Sessions, NEW k \in Slots, Launches(s, k) PROVE SlotsAgree'
  <2>1. slot'[k] = [occupant |-> s, gen |-> slot[k].gen + 1]
        /\ \A j \in Slots \ {k} : slot'[j] = slot[j]
    BY <1>t, <1>2 DEF Launches, JournalTypeOK
  <2>2. \A j \in Slots : slot[j].occupant # s
    BY <1>2, <1>d, <1>n DEF Launches, SlotsAgree
  <2>3. ASSUME NEW t \in Sessions, lab'[t].state \in HoldsSlot PROVE Occupies(t)'
    <3>1. CASE t = s
      BY <1>2, <1>n, <2>1, <3>1 DEF Launches, Occupies
    <3>2. CASE t # s
      <4>1. lab'[t] = lab[t] /\ Occupies(t)
        BY <1>2, <2>3, <3>2 DEF Launches, SlotsAgree
      <4>2. lab[t].slot \in Slots /\ lab[t].slot # k
        BY <1>t, <1>2, <1>n, <4>1 DEF Launches, Occupies, JournalTypeOK, LabRows
      <4> QED
        BY <2>1, <4>1, <4>2 DEF Occupies
    <3> QED
      BY <3>1, <3>2
  <2>4. ASSUME NEW j \in Slots, slot'[j].occupant # Nil
        PROVE  lab'[slot'[j].occupant].state \in HoldsSlot /\ lab'[slot'[j].occupant].slot = j
    <3>1. CASE j = k
      BY <1>2, <1>d, <2>1, <3>1 DEF Launches
    <3>2. CASE j # k
      <4>1. slot'[j] = slot[j] /\ slot[j].occupant \in Sessions \ {s}
        BY <1>t, <2>1, <2>2, <2>4, <3>2 DEF JournalTypeOK, SlotRows
      <4> QED
        BY <1>2, <2>4, <4>1 DEF Launches, SlotsAgree
    <3> QED
      BY <3>1, <3>2
  <2> QED
    BY <2>3, <2>4 DEF SlotsAgree
<1>3. ASSUME NEW w \in Workers, NEW s \in Sessions, Releases(w, s) PROVE SlotsAgree'
  <2>1. Occupies(s) /\ lab[s].slot \in Slots
    BY <1>t, <1>3, <1>d DEF Releases, SlotsAgree, Occupies, JournalTypeOK, LabRows
  <2>2. PICK k \in Slots : k = lab[s].slot /\ slot[k].occupant = s
    BY <2>1 DEF Occupies
  <2>3. slot'[k].occupant = Nil /\ \A j \in Slots \ {k} : slot'[j] = slot[j]
    BY <1>t, <1>3, <2>2 DEF Releases, JournalTypeOK, SlotRows
  <2>4. \A j \in Slots \ {k} : slot[j].occupant # s
    BY <1>n, <2>2 DEF SlotsAgree
  <2>5. ASSUME NEW t \in Sessions, lab'[t].state \in HoldsSlot PROVE Occupies(t)'
    <3>1. t # s
      BY <1>3, <1>d, <2>5 DEF Releases
    <3>2. lab'[t] = lab[t] /\ Occupies(t)
      BY <1>3, <2>5, <3>1 DEF Releases, SlotsAgree
    <3>3. lab[t].slot \in Slots /\ lab[t].slot # k
      BY <1>t, <2>2, <3>1, <3>2 DEF Occupies, JournalTypeOK, LabRows
    <3> QED
      BY <2>3, <3>2, <3>3 DEF Occupies
  <2>6. ASSUME NEW j \in Slots, slot'[j].occupant # Nil
        PROVE  lab'[slot'[j].occupant].state \in HoldsSlot /\ lab'[slot'[j].occupant].slot = j
    <3>1. j # k /\ slot'[j] = slot[j]
      BY <2>3, <2>6
    <3>2. slot[j].occupant \in Sessions \ {s}
      BY <1>t, <2>4, <2>6, <3>1 DEF JournalTypeOK, SlotRows
    <3> QED
      BY <1>3, <2>6, <3>1, <3>2 DEF Releases, SlotsAgree
  <2> QED
    BY <2>5, <2>6 DEF SlotsAgree
<1> QED
  BY <1>1, <1>2, <1>3 DEF SlotMoves

\* A launched session stays launched, and its generation never goes back.
LEMMA LaunchStays ==
    ASSUME TypeOK, SlotMoves, NEW s \in Sessions
    PROVE  /\ Launched(s) => Launched(s)'
           /\ lab'[s].gen >= lab[s].gen
<1>1. lab[s].gen \in Nat
  BY DEF TypeOK, JournalTypeOK, LabRows
<1>2. Nil \notin Slots
  BY CampusAssumption
<1>3. CASE Quiet
  BY <1>3 DEF Quiet, Keeps, Launched
<1>4. ASSUME NEW t \in Sessions, NEW k \in Slots, Launches(t, k)
      PROVE  (Launched(s) => Launched(s)') /\ lab'[s].gen >= lab[s].gen
  <2>1. CASE s = t
    BY <1>2, <1>4, <2>1 DEF Launches, Launched
  <2>2. CASE s # t
    BY <1>1, <1>4, <2>2 DEF Launches, Launched
  <2> QED
    BY <2>1, <2>2
<1>5. ASSUME NEW w \in Workers, NEW t \in Sessions, Releases(w, t)
      PROVE  (Launched(s) => Launched(s)') /\ lab'[s].gen >= lab[s].gen
  <2>1. CASE s = t
    BY <1>5, <2>1 DEF Releases, Keeps, Launched
  <2>2. CASE s # t
    BY <1>1, <1>5, <2>2 DEF Releases, Launched
  <2> QED
    BY <2>1, <2>2
<1> QED
  BY <1>3, <1>4, <1>5 DEF SlotMoves

-----------------------------------------------------------------------------
\* What one step may do at the provider: something is created only for a
\* request that was sent and a workload that was not deleted.
Requested(s) == s \in stray \/ \E w \in Workers : pc[w] = "provision" /\ cur[w].session = s

ProviderMoves ==
    /\ \A s \in Sessions : s \in res' /\ s \notin res => Requested(s) /\ s \notin fenced
    /\ \A s \in Sessions : s \in stray' => Requested(s)
    /\ fenced \subseteq fenced'

\* What one step may do to a worker: a launched session is provisioned, and a
\* delete is answered when nothing is left.
Answered(w) == pc[w] = "answered" /\ ans[w] \in {"deleted", "confirmed"}

WorkerMoves(w) ==
    /\ pc'[w] = "provision" =>
         \/ pc[w] = "provision" /\ cur'[w].session = cur[w].session
         \/ Launched(cur[w].session)'
    /\ Answered(w)' =>
         \/ Answered(w) /\ cur'[w].session = cur[w].session
         \/ Gone(cur[w].session)'

\* Every step changes the provider as its contract allows: resources appear
\* only for a launched, unfenced workload, and a fence is never lifted.
LEMMA StepProvider == TypeOK /\ [Next]_vars => ProviderMoves
<1> SUFFICES ASSUME TypeOK, [Next]_vars PROVE ProviderMoves
  OBVIOUS
<1>1. ASSUME UNCHANGED provider PROVE ProviderMoves
  BY <1>1 DEF provider, ProviderMoves, Requested
<1>2. ASSUME NEW w \in Workers, ProviderProvision(w) PROVE ProviderMoves
  BY <1>2 DEF ProviderProvision, CanCreate, ProviderMoves, Requested
<1>3. ASSUME NEW w \in Workers, ProviderDelete(w) PROVE ProviderMoves
  BY <1>3 DEF ProviderDelete, ProviderMoves, Requested
<1>4. ASSUME NEW w \in Workers, Crash(w) PROVE ProviderMoves
  BY <1>4 DEF Crash, ProviderMoves, Requested
<1>5. ASSUME NEW s \in Sessions, StrayProvision(s) \/ LoseWorkspace(s) PROVE ProviderMoves
  BY <1>5 DEF StrayProvision, LoseWorkspace, CanCreate, ProviderMoves, Requested
<1>6. ASSUME NEW w \in Workers, Reconcile(w) \/ StepFails(w) PROVE ProviderMoves
  <2>1. ASSUME \/ BeginSweep(w) \/ ListSteppable(w) \/ ListBlocked(w) \/ EndSweep(w)
               \/ \E s \in Sessions : Load(w, s) \/ LoadBlocked(w, s)
        PROVE  ProviderMoves
    BY <1>1, <2>1 DEF BeginSweep, ListSteppable, ListBlocked, EndSweep, Load, LoadBlocked, Loads
  <2>2. ASSUME \/ NothingToDo(w) \/ StaleCopy(w) \/ StartOrDrop(w) \/ Admit(w)
               \/ AdmitWaits(w) \/ AbandonProvision(w)
        PROVE  ProviderMoves
    BY <1>1, <2>2 DEF NothingToDo, StaleCopy, StartOrDrop, Admit, AdmitWaits, AbandonProvision
  <2>3. ASSUME \/ Lease(w) \/ StopReady(w) \/ Observe(w) \/ Clean(w) \/ ProviderObserve(w)
               \/ ConfirmTeardown(w)
        PROVE  ProviderMoves
    BY <1>1, <2>3 DEF Lease, StopReady, Observe, Clean, ProviderObserve, ConfirmTeardown
  <2>4. ASSUME \/ RecordProvisioned(w) \/ RecordObserved(w) \/ RecordDeleted(w)
               \/ ReleaseLease(w) \/ StepFails(w)
        PROVE  ProviderMoves
    BY <1>1, <2>4 DEF RecordProvisioned, RecordObserved, RecordDeleted, ReleaseLease, StepFails
  <2> QED
    BY <1>2, <1>3, <1>6, <2>1, <2>2, <2>3, <2>4 DEF Reconcile
<1>7. ASSUME \/ \E s \in Sessions : CreateSession(s) \/ RequestStop(s)
             \/ \E k \in Slots : HoldSlot(k) \/ ReleaseHold(k)
             \/ Tick \/ UNCHANGED vars
      PROVE  ProviderMoves
  BY <1>1, <1>7 DEF CreateSession, RequestStop, HoldSlot, ReleaseHold, Tick, vars, provider
<1> QED
  BY <1>4, <1>5, <1>6, <1>7 DEF Next

\* A step of one worker leaves the others where they are.
LEMMA OthersKeep ==
    ASSUME TypeOK, NEW v \in Workers, NEW w \in Workers, w # v,
           Reconcile(w) \/ StepFails(w) \/ Crash(w)
    PROVE  pc'[v] = pc[v] /\ cur'[v] = cur[v] /\ ans'[v] = ans[v]
<1>t. WorkerTypeOK
  BY DEF TypeOK
<1> USE <1>t DEF WorkerTypeOK, Goto
<1>1. CASE \/ BeginSweep(w) \/ ListSteppable(w) \/ ListBlocked(w) \/ EndSweep(w)
           \/ \E s \in Sessions : Load(w, s) \/ LoadBlocked(w, s)
  BY <1>1 DEF BeginSweep, ListSteppable, ListBlocked, EndSweep, Load, LoadBlocked, Loads
<1>2. CASE Advanced(w) \/ Settled(w)
  BY <1>2 DEF Advanced, Settled
<1>3. CASE \/ Admit(w) \/ Clean(w) \/ Lease(w)
  BY <1>2, <1>3 DEF Admit, Clean, Lease
<1>4. CASE \/ Observe(w) \/ ProviderProvision(w) \/ ProviderObserve(w)
           \/ ProviderDelete(w) \/ ConfirmTeardown(w)
  <2>1. cur' = cur /\ (ans' = ans \/ \E a \in Answers : ans' = [ans EXCEPT ![w] = a])
        /\ \E step \in Steps : Goto(w, step)
    BY <1>4 DEF Observe, ProviderProvision, ProviderObserve, ProviderDelete,
                ConfirmTeardown, Answer, Answers, Steps
  <2> QED
    BY <2>1
<1>5. CASE Crash(w)
  BY <1>5 DEF Crash
<1>6. CASE \/ NothingToDo(w) \/ StaleCopy(w) \/ StartOrDrop(w) \/ AdmitWaits(w)
           \/ AbandonProvision(w) \/ StopReady(w) \/ RecordProvisioned(w)
           \/ RecordObserved(w) \/ RecordDeleted(w) \/ ReleaseLease(w) \/ StepFails(w)
  <2>1. Advanced(w) \/ Settled(w)
    BY <1>6 DEF NothingToDo, StaleCopy, StartOrDrop, AdmitWaits, AbandonProvision,
                StopReady, RecordProvisioned, RecordObserved, RecordDeleted, ReleaseLease,
                StepFails
  <2> QED
    BY <1>2, <2>1
<1> QED
  BY <1>1, <1>3, <1>4, <1>5, <1>6 DEF Reconcile

\* A worker that ends its step, or that another one overtakes, claims nothing.
LEMMA StepWorker ==
    ASSUME TypeOK, TypeOK', [Next]_vars, NEW v \in Workers
    PROVE  WorkerMoves(v)
<1>t. JournalTypeOK /\ WorkerTypeOK /\ WorkerTypeOK'
  BY DEF TypeOK
<1>1. ASSUME pc'[v] \notin {"provision", "answered"} PROVE WorkerMoves(v)
  BY <1>1 DEF WorkerMoves, Answered
<1>2. ASSUME pc'[v] = pc[v], cur'[v] = cur[v], ans'[v] = ans[v] PROVE WorkerMoves(v)
  BY <1>2 DEF WorkerMoves, Answered
<1>3. ASSUME NEW w \in Workers, w # v, Reconcile(w) \/ StepFails(w) \/ Crash(w)
      PROVE  WorkerMoves(v)
  BY <1>2, <1>3, OthersKeep
<1>4. ASSUME Reconcile(v) \/ StepFails(v) \/ Crash(v) PROVE WorkerMoves(v)
  <2>1. CASE Advanced(v) \/ Settled(v)
    BY <1>t, <1>1, <2>1 DEF Advanced, Settled, Goto, WorkerTypeOK
  <2>2. CASE \/ BeginSweep(v) \/ ListSteppable(v) \/ ListBlocked(v) \/ EndSweep(v)
             \/ \E s \in Sessions : Load(v, s) \/ LoadBlocked(v, s)
    BY <1>t, <1>1, <2>2 DEF BeginSweep, ListSteppable, ListBlocked, EndSweep, Load,
           LoadBlocked, Loads, Goto, WorkerTypeOK
  <2>3. CASE Admit(v)
    <3>1. PICK s \in Sessions : s = cur[v].session
      BY <2>3, BusySession DEF Admit
    <3>2. PICK k \in Slots : lab' = [Move(s, "provisioning") EXCEPT ![s].slot = k,
                                          ![s].slotGen = slot[k].gen + 1]
      BY <2>3, <3>1 DEF Admit, FreeSlots
    <3>3. "provisioning" \in States
      BY DEF States, HoldsSlot
    <3>4. Move(s, "provisioning") \in [Sessions -> LabRows]
      BY <1>t, <3>3, LabWrites
    <3>5. lab'[s].slot = k /\ k # Nil
      BY <3>2, <3>4, CampusAssumption DEF LabRows
    <3>6. cur'[v].session = s /\ pc'[v] = "provision"
      BY <1>t, <2>3, <3>1 DEF Admit, Goto, WorkerTypeOK, Copies
    <3> QED
      BY <3>5, <3>6 DEF WorkerMoves, Answered, Launched
  <2>4. CASE Lease(v) /\ ~Settled(v)
    <3>1. cur' = cur /\ lab' = lab /\ Occupies(cur[v].session) /\ pc'[v] \in {"provision", "delete"}
      BY <1>t, <2>4 DEF Lease, MayLease, WaitsFor, Goto, WorkerTypeOK
    <3> QED
      BY <3>1 DEF Occupies, WorkerMoves, Answered, Launched
  <2>5. CASE Clean(v) \/ Observe(v) \/ Crash(v)
    BY <1>t, <1>1, <2>5 DEF Clean, Observe, Crash, Goto, WorkerTypeOK
  <2>6. CASE \/ ProviderProvision(v) \/ ProviderObserve(v)
    <3>1. pc'[v] = "answered" /\ ans'[v] \notin {"deleted", "confirmed"}
      BY <1>t, <2>6 DEF ProviderProvision, ProviderObserve, Answer, Goto, WorkerTypeOK
    <3> QED
      BY <3>1 DEF WorkerMoves, Answered
  <2>7. CASE ProviderDelete(v)
    <3>1. pc'[v] = "answered" /\ cur' = cur
      BY <1>t, <2>7 DEF ProviderDelete, Answer, Goto, WorkerTypeOK
    <3>2. ans'[v] \in {"deleted", "confirmed"} => Gone(cur[v].session)'
      BY <1>t, <2>7 DEF ProviderDelete, Answer, Gone, WorkerTypeOK
    <3> QED
      BY <3>1, <3>2 DEF WorkerMoves, Answered, Gone
  <2>8. CASE ConfirmTeardown(v)
    <3>1. cur' = cur /\ Answered(v) /\ pc'[v] = "answered"
      BY <1>t, <2>8 DEF ConfirmTeardown, Answered, Answer, Goto, WorkerTypeOK
    <3> QED
      BY <3>1 DEF WorkerMoves
  <2>9. CASE \/ NothingToDo(v) \/ StaleCopy(v) \/ StartOrDrop(v) \/ AdmitWaits(v)
             \/ AbandonProvision(v) \/ StopReady(v) \/ RecordProvisioned(v)
             \/ RecordObserved(v) \/ RecordDeleted(v) \/ ReleaseLease(v) \/ StepFails(v)
    <3>1. Advanced(v) \/ Settled(v)
      BY <2>9 DEF NothingToDo, StaleCopy, StartOrDrop, AdmitWaits, AbandonProvision,
                  StopReady, RecordProvisioned, RecordObserved, RecordDeleted, ReleaseLease,
                  StepFails
    <3> QED
      BY <2>1, <3>1
  <2> QED
    BY <1>4, <2>1, <2>2, <2>3, <2>4, <2>5, <2>6, <2>7, <2>8, <2>9 DEF Reconcile
<1>5. ASSUME \/ \E s \in Sessions : StrayProvision(s) \/ LoseWorkspace(s) \/ CreateSession(s)
                                    \/ RequestStop(s)
             \/ \E k \in Slots : HoldSlot(k) \/ ReleaseHold(k)
             \/ Tick \/ UNCHANGED vars
      PROVE  WorkerMoves(v)
  BY <1>2, <1>5 DEF StrayProvision, LoseWorkspace, CreateSession, RequestStop, HoldSlot,
                    ReleaseHold, Tick, vars, worker
<1> QED
  BY <1>3, <1>4, <1>5 DEF Next

-----------------------------------------------------------------------------
\* What one step may do to an operation: it begins at the generation its
\* transition writes; a lease is taken, or the provision abandoned, when the
\* last one ran out by the `now` of some sweep; or only its status and owner
\* change.
OpMoves(s) ==
    \/ op'[s].gen = lab'[s].gen /\ lab'[s].gen = lab[s].gen + 1 /\ op'[s].status = "pending"
    \/ /\ op'[s].gen = op[s].gen
       /\ \E w \in Workers : ~LeaseLive(w, s)
    \/ /\ op'[s].gen = op[s].gen
       /\ op'[s].fence = op[s].fence
       /\ op[s].status = "pending" => op'[s].status # "abandoned"

\* Every step changes an operation in one of these ways.
LEMMA StepOperation ==
    ASSUME TypeOK, [Next]_vars, NEW s \in Sessions
    PROVE  OpMoves(s)
<1>t. JournalTypeOK /\ WorkerTypeOK
  BY DEF TypeOK
<1>1. ASSUME op' = op PROVE OpMoves(s)
  BY <1>1 DEF OpMoves
<1>2. ASSUME NEW t \in Sessions, NEW st, Completes(t, st),
             \/ st # "abandoned"
             \/ \E w \in Workers : ~LeaseLive(w, t)
      PROVE  OpMoves(s)
  <2>1. CASE s = t
    BY <1>t, <1>2, <2>1 DEF Completes, OpMoves, JournalTypeOK, OpRows
  <2>2. CASE s # t
    BY <1>t, <1>2, <2>2 DEF Completes, OpMoves, JournalTypeOK
  <2> QED
    BY <2>1, <2>2
<1>3. ASSUME NEW w \in Workers, Lease(w) PROVE OpMoves(s)
  <2>1. PICK t \in Sessions : t = cur[w].session
    BY <1>3, BusySession DEF Lease
  <2>2. \/ op' = op
        \/ op' = [op EXCEPT ![t].owner = w, ![t].fence = @ + 1] /\ ~LeaseLive(w, t)
    BY <1>3, <2>1 DEF Lease, MayLease
  <2>3. CASE s = t /\ op' # op
    BY <1>t, <2>2, <2>3 DEF OpMoves, JournalTypeOK, OpRows
  <2>4. CASE s # t /\ op' # op
    BY <1>t, <2>2, <2>4 DEF OpMoves, JournalTypeOK
  <2> QED
    BY <1>1, <2>3, <2>4
<1>4. ASSUME NEW w \in Workers, ReleaseLease(w) PROVE OpMoves(s)
  <2>1. PICK t \in Sessions : t = cur[w].session
    BY <1>4, BusySession DEF ReleaseLease
  <2>2. op' = op \/ op' = [op EXCEPT ![t].owner = Nil]
    BY <1>4, <2>1 DEF ReleaseLease
  <2> QED
    BY <1>t, <2>2 DEF OpMoves, JournalTypeOK, OpRows
<1>5. ASSUME NEW w \in Workers, Admit(w) \/ Clean(w) PROVE OpMoves(s)
  <2>1. PICK t \in Sessions : t = cur[w].session
    BY <1>5, BusySession DEF Admit, Clean
  <2>2. PICK kind \in {"provision", "delete"} : Begins(w, t, kind)
    BY <1>5, <2>1 DEF Admit, Clean
  <2>3. "provisioning" \in States /\ "cleaning" \in States
    BY DEF States, HoldsSlot
  <2>4. lab'[t].gen = lab[t].gen + 1
    <3>1. CASE Admit(w)
      <4>1. PICK k \in Slots : lab' = [Move(t, "provisioning") EXCEPT ![t].slot = k,
                                            ![t].slotGen = slot[k].gen + 1]
        BY <2>1, <3>1 DEF Admit, FreeSlots
      <4> QED
        BY <1>t, <4>1 DEF Move, JournalTypeOK, LabRows
    <3>2. CASE Clean(w)
      BY <1>t, <2>1, <2>3, <3>2, RowChanges DEF Clean
    <3> QED
      BY <1>5, <3>1, <3>2
  <2>5. CASE s = t
    BY <1>t, <2>2, <2>4, <2>5 DEF Begins, OpMoves, JournalTypeOK
  <2>6. CASE s # t
    BY <1>t, <2>2, <2>6 DEF Begins, OpMoves, JournalTypeOK
  <2> QED
    BY <2>5, <2>6
<1>6. ASSUME NEW w \in Workers, AbandonProvision(w) \/ RecordProvisioned(w) \/ RecordDeleted(w)
      PROVE  OpMoves(s)
  <2>1. PICK t \in Sessions : t = cur[w].session
    BY <1>6, BusySession DEF AbandonProvision, RecordProvisioned, RecordDeleted
  <2>2. \/ op' = op
        \/ Completes(t, "abandoned") /\ ~LeaseLive(w, t)
        \/ \E st \in {"succeeded", "failed", "blocked"} : Completes(t, st)
    BY <1>6, <2>1 DEF AbandonProvision, RecordProvisioned, RecordDeleted
  <2> QED
    BY <1>1, <1>2, <2>2
<1>7. ASSUME NEW w \in Workers, Reconcile(w) \/ StepFails(w) \/ Crash(w) PROVE OpMoves(s)
  <2>1. ASSUME \/ BeginSweep(w) \/ ListSteppable(w) \/ ListBlocked(w) \/ EndSweep(w)
               \/ \E t \in Sessions : Load(w, t) \/ LoadBlocked(w, t)
        PROVE  OpMoves(s)
    BY <1>1, <2>1 DEF BeginSweep, ListSteppable, ListBlocked, EndSweep, Load, LoadBlocked,
           Loads, journal
  <2>2. ASSUME \/ NothingToDo(w) \/ StaleCopy(w) \/ StartOrDrop(w) \/ AdmitWaits(w)
               \/ StopReady(w) \/ Observe(w) \/ RecordObserved(w) \/ StepFails(w) \/ Crash(w)
        PROVE  OpMoves(s)
    BY <1>1, <2>2 DEF NothingToDo, StaleCopy, StartOrDrop, AdmitWaits, StopReady, Observe,
           RecordObserved, StepFails, Crash, journal
  <2>3. ASSUME \/ ProviderProvision(w) \/ ProviderObserve(w) \/ ProviderDelete(w)
               \/ ConfirmTeardown(w)
        PROVE  OpMoves(s)
    BY <1>1, <2>3 DEF ProviderProvision, ProviderObserve, ProviderDelete, ConfirmTeardown,
           journal
  <2> QED
    BY <1>3, <1>4, <1>5, <1>6, <1>7, <2>1, <2>2, <2>3 DEF Reconcile
<1>8. ASSUME \/ \E t \in Sessions : StrayProvision(t) \/ LoseWorkspace(t) \/ CreateSession(t)
                                    \/ RequestStop(t)
             \/ \E k \in Slots : HoldSlot(k) \/ ReleaseHold(k)
             \/ Tick \/ UNCHANGED vars
      PROVE  OpMoves(s)
  BY <1>1, <1>8 DEF StrayProvision, LoseWorkspace, CreateSession, RequestStop, HoldSlot,
                    ReleaseHold, Tick, vars, journal
<1> QED
  BY <1>7, <1>8 DEF Next

-----------------------------------------------------------------------------
\* The inductive invariant holds of the empty journal.
LEMMA IInvInit == Init => IInv
<1> SUFFICES ASSUME Init PROVE IInv
  OBVIOUS
<1>1. TypeOK
  BY TypeInit
<1>2. SlotsAgree
  BY DEF Init, SlotsAgree, HoldsSlot
<1>3. \A s \in Sessions : lab[s].state = "none" /\ lab[s].slot = Nil /\ lab[s].gen = 0
                          /\ op[s].gen = 0
  BY DEF Init
<1>4. \A w \in Workers : pc[w] = "idle"
  BY DEF Init
<1>5. res \cup stray = {}
  BY DEF Init
<1> QED
  BY <1>1, <1>2, <1>3, <1>4, <1>5 DEF IInv, Launched, Terminal

\* Every step preserves the inductive invariant.
LEMMA IInvNext == IInv /\ [Next]_vars => IInv'
<1> SUFFICES ASSUME IInv, [Next]_vars PROVE IInv'
  OBVIOUS
<1>1. TypeOK /\ TypeOK'
  BY TypeJournal, TypeProvider, TypeWorker DEF IInv, TypeOK
<1>2. SlotMoves /\ ProviderMoves /\ \A w \in Workers : WorkerMoves(w)
  BY <1>1, StepMoves, StepProvider, StepWorker
<1>3. SlotsAgree'
  BY <1>1, <1>2, SlotsStep DEF IInv
<1>4. \A s \in Sessions : Launched(s) => Launched(s)'
  BY <1>1, <1>2, LaunchStays
<1>5. \A s \in Sessions : Gone(s) => Gone(s)'
  BY <1>2 DEF ProviderMoves, Gone
<1>6. \A s \in Sessions : Requested(s) => Launched(s)
  BY DEF IInv, Requested
<1>t. /\ res' \subseteq Sessions /\ stray' \subseteq Sessions
      /\ \A w \in Workers : pc'[w] \notin {"idle", "sweep"} => cur'[w].session \in Sessions
  BY <1>1 DEF TypeOK, ProviderTypeOK
<1>7. \A s \in Sessions : lab'[s].state \in PreLaunch => ~Launched(s)'
  <2> SUFFICES ASSUME NEW s \in Sessions, lab'[s].state \in PreLaunch PROVE ~Launched(s)'
    OBVIOUS
  <2>d. PreLaunch \cap (HoldsSlot \cup Terminal) = {} /\ "provisioning" \notin PreLaunch
    BY DEF PreLaunch, HoldsSlot, Terminal
  <2>1. CASE Quiet
    <3>1. lab[s].state \in PreLaunch /\ lab'[s].slot = lab[s].slot
      BY <2>1, <2>d DEF Quiet, Keeps, Shifts
    <3> QED
      BY <3>1 DEF IInv, PreLaunch, Launched
  <2>2. ASSUME NEW t \in Sessions, NEW k \in Slots, Launches(t, k) PROVE ~Launched(s)'
    <3>1. s # t
      BY <2>2, <2>d DEF Launches
    <3>2. lab'[s] = lab[s]
      BY <2>2, <3>1 DEF Launches
    <3> QED
      BY <3>2 DEF IInv, PreLaunch, Launched
  <2>3. ASSUME NEW w \in Workers, NEW t \in Sessions, Releases(w, t) PROVE ~Launched(s)'
    <3>1. s # t
      BY <2>3, <2>d DEF Releases
    <3>2. lab'[s] = lab[s]
      BY <2>3, <3>1 DEF Releases
    <3> QED
      BY <3>2 DEF IInv, PreLaunch, Launched
  <2> QED
    BY <1>2, <2>1, <2>2, <2>3 DEF SlotMoves
<1>8. \A s \in res' \cup stray' : Launched(s)'
  BY <1>2, <1>4, <1>6, <1>t DEF ProviderMoves, IInv
<1>9. \A w \in Workers : pc'[w] = "provision" => Launched(cur[w].session)'
  <2> SUFFICES ASSUME NEW w \in Workers, pc'[w] = "provision" PROVE Launched(cur[w].session)'
    OBVIOUS
  <2>1. CASE pc[w] = "provision" /\ cur'[w].session = cur[w].session
    <3>1. PICK s \in Sessions : s = cur[w].session
      BY <1>1, <2>1, BusySession
    <3>2. Launched(s) /\ Launched(s)'
      BY <1>4, <2>1, <3>1 DEF IInv
    <3> QED
      BY <2>1, <3>1, <3>2 DEF Launched
  <2> QED
    BY <1>2, <2>1 DEF WorkerMoves
<1>10. \A w \in Workers : Answered(w)' => Gone(cur[w].session)'
  <2> SUFFICES ASSUME NEW w \in Workers, Answered(w)' PROVE Gone(cur[w].session)'
    OBVIOUS
  <2>1. CASE Answered(w) /\ cur'[w].session = cur[w].session
    <3>1. PICK s \in Sessions : s = cur[w].session
      BY <1>1, <2>1, BusySession DEF Answered
    <3>2. Gone(s) /\ Gone(s)'
      BY <1>5, <2>1, <3>1 DEF IInv, Answered
    <3> QED
      BY <2>1, <3>1, <3>2 DEF Gone
  <2> QED
    BY <1>2, <2>1 DEF WorkerMoves
<1>11. \A s \in Sessions : lab'[s].state \in Terminal => ~Launched(s)' \/ Gone(s)'
  <2> SUFFICES ASSUME NEW s \in Sessions, lab'[s].state \in Terminal
               PROVE  ~Launched(s)' \/ Gone(s)'
    OBVIOUS
  <2>d. Terminal \cap (HoldsSlot \cup PreLaunch) = {} /\ "provisioning" \notin Terminal
    BY DEF PreLaunch, HoldsSlot, Terminal
  <2>s. ASSUME lab[s].state \in Terminal, lab'[s].slot = lab[s].slot
        PROVE  ~Launched(s)' \/ Gone(s)'
    BY <1>5, <2>s DEF IInv, Launched
  <2>1. CASE Quiet
    <3>1. lab'[s].slot = lab[s].slot /\ lab[s].state \in Terminal \cup PreLaunch
      BY <2>1, <2>d DEF Quiet, Keeps, Shifts
    <3>2. CASE lab[s].state \in PreLaunch
      BY <3>1, <3>2 DEF IInv, PreLaunch, Launched
    <3> QED
      BY <2>s, <3>1, <3>2
  <2>2. ASSUME NEW t \in Sessions, NEW k \in Slots, Launches(t, k)
        PROVE  ~Launched(s)' \/ Gone(s)'
    <3>1. s # t
      BY <2>2, <2>d DEF Launches
    <3>2. lab'[s] = lab[s]
      BY <2>2, <3>1 DEF Launches
    <3> QED
      BY <2>s, <3>2
  <2>3. ASSUME NEW w \in Workers, NEW t \in Sessions, Releases(w, t)
        PROVE  ~Launched(s)' \/ Gone(s)'
    <3>1. CASE s = t
      <4>1. Gone(s)
        BY <2>3, <3>1 DEF Releases, IInv
      <4> QED
        BY <1>5, <4>1
    <3>2. CASE s # t
      <4>1. lab'[s] = lab[s]
        BY <2>3, <3>2 DEF Releases
      <4> QED
        BY <2>s, <4>1
    <3> QED
      BY <3>1, <3>2
  <2> QED
    BY <1>2, <2>1, <2>2, <2>3 DEF SlotMoves
<1>12. \A s \in Sessions : op'[s].gen <= lab'[s].gen
  <2> SUFFICES ASSUME NEW s \in Sessions PROVE op'[s].gen <= lab'[s].gen
    OBVIOUS
  <2>1. op[s].gen \in Nat /\ lab[s].gen \in Nat /\ op'[s].gen \in Nat /\ lab'[s].gen \in Nat
    BY <1>1 DEF TypeOK, JournalTypeOK, LabRows, OpRows
  <2>2. op[s].gen <= lab[s].gen /\ lab'[s].gen >= lab[s].gen
    BY <1>1, <1>2, LaunchStays DEF IInv
  <2>3. op'[s].gen = op[s].gen \/ op'[s].gen = lab'[s].gen
    BY <1>1, StepOperation DEF OpMoves
  <2> QED
    BY <2>1, <2>2, <2>3
<1> QED
  BY <1>1, <1>3, <1>7, <1>8, <1>9, <1>10, <1>11, <1>12 DEF IInv, PreLaunch, Answered

\* THEOREM: the inductive invariant holds for any number of sessions, slots and
\* workers, any leases, lags, crashes, failed calls and late requests.
THEOREM Invariant == Spec => []IInv
BY IInvInit, IInvNext, PTL DEF Spec

\* THEOREM: the session and slot tables never disagree on who holds a slot.
THEOREM SlotsAreConsistent == Spec => []SlotsAgree
<1>1. IInv => SlotsAgree
  BY DEF IInv
<1> QED
  BY Invariant, <1>1, PTL

\* By the invariant a workload that exists was launched and is not terminal.
LEMMA ResourcesAreHeld == IInv => ResourcesHoldASlot
<1> SUFFICES ASSUME IInv, NEW s \in res PROVE lab[s].state \in HoldsSlot
  BY DEF ResourcesHoldASlot
<1>1. s \in Sessions /\ lab[s].state \in States
  BY DEF IInv, TypeOK, ProviderTypeOK, JournalTypeOK, LabRows
<1>2. Launched(s) /\ ~Gone(s)
  BY DEF IInv, Gone
<1> QED
  BY <1>1, <1>2 DEF IInv, States

\* THEOREM: provider resources exist only for a session that holds its slot, so
\* nothing of a terminal session is left and nothing comes back.
THEOREM TerminalMeansClean == Spec => []ResourcesHoldASlot
BY Invariant, ResourcesAreHeld, PTL

\* THEOREM: two workloads never share a slot.
THEOREM SlotsAreNotShared == Spec => []OneWorkloadPerSlot
<1>1. IInv => OneWorkloadPerSlot
  <2> SUFFICES ASSUME IInv, NEW s \in res, NEW t \in res, lab[s].slot = lab[t].slot PROVE s = t
    BY DEF OneWorkloadPerSlot
  <2>1. s \in Sessions /\ t \in Sessions
    BY DEF IInv, TypeOK, ProviderTypeOK
  <2>2. Occupies(s) /\ Occupies(t)
    BY <2>1, ResourcesAreHeld DEF ResourcesHoldASlot, IInv, SlotsAgree
  <2> QED
    BY <2>2 DEF Occupies
<1> QED
  BY Invariant, <1>1, PTL

\* THEOREM: a stop that comes before the launch wins.
THEOREM StopWins == Spec => StoppedNeverLaunches
<1> DEFINE Step == \A s \in Sessions :
              lab[s].stop /\ lab[s].state \in {"requested", "authorizing"}
                 => lab'[s].state \in {"requested", "authorizing", "terminated"}
<1>1. TypeOK /\ [Next]_vars => Step
  <2> SUFFICES ASSUME TypeOK, [Next]_vars, NEW s \in Sessions, lab[s].stop,
                      lab[s].state \in {"requested", "authorizing"}
               PROVE  lab'[s].state \in {"requested", "authorizing", "terminated"}
    OBVIOUS
  <2>1. SlotMoves
    BY StepMoves
  <2>2. CASE Quiet
    BY <2>2 DEF Quiet, Shifts, HoldsSlot
  <2>3. ASSUME NEW t \in Sessions, NEW k \in Slots, Launches(t, k) PROVE lab'[s] = lab[s]
    BY <2>3 DEF Launches
  <2>4. ASSUME NEW w \in Workers, NEW t \in Sessions, Releases(w, t) PROVE lab'[s] = lab[s]
    BY <2>4 DEF Releases
  <2> QED
    BY <2>1, <2>2, <2>3, <2>4 DEF SlotMoves
<1>2. StoppedNeverLaunches <=> [][Step]_vars
  BY DEF StoppedNeverLaunches
<1> HIDE DEF Step
<1> QED
  BY TypeCorrect, <1>1, <1>2, PTL DEF Spec

\* THEOREM: no lease is overridden before it ran out on the clock.
THEOREM LeasesAreKept == Spec => LeasesAreRespected
<1> DEFINE Step == \A s \in Sessions :
              (\/ op'[s].gen = op[s].gen /\ op'[s].fence > op[s].fence
               \/ op[s].status = "pending" /\ op'[s].status = "abandoned")
                 => op[s].owner = Nil \/ until[s] <= 0
<1>1. IInv /\ [Next]_vars => Step
  <2> SUFFICES ASSUME IInv, [Next]_vars, NEW s \in Sessions,
                      \/ op'[s].gen = op[s].gen /\ op'[s].fence > op[s].fence
                      \/ op[s].status = "pending" /\ op'[s].status = "abandoned"
               PROVE  op[s].owner = Nil \/ until[s] <= 0
    OBVIOUS
  <2>1. /\ op[s].gen \in Nat /\ op[s].fence \in Nat /\ lab[s].gen \in Nat /\ until[s] \in Int
        /\ op[s].gen <= lab[s].gen
        /\ \A w \in Workers : lag[w] \in Nat
    BY DEF IInv, TypeOK, JournalTypeOK, WorkerTypeOK, LabRows, OpRows
  <2>2. OpMoves(s)
    BY StepOperation DEF IInv
  <2>3. PICK w \in Workers : ~LeaseLive(w, s)
    BY <2>1, <2>2 DEF OpMoves
  <2> QED
    BY <2>1, <2>3 DEF LeaseLive
<1>2. LeasesAreRespected <=> [][Step]_vars
  BY DEF LeasesAreRespected
<1> HIDE DEF Step
<1> QED
  BY Invariant, <1>1, <1>2, PTL DEF Spec

\* THEOREM: a worker that was taken over records nothing.
THEOREM SupersededIsFenced == Spec => SupersededWritesNothing
<1> DEFINE Step == \A w \in Workers :
              LET s == cur[w].session
              IN  /\ pc[w] = "answered"
                  /\ pc'[w] # "answered"
                  /\ op[s].status = "pending"
                  /\ op'[s].status # "pending"
                  => op[s].owner = w /\ op[s].fence = lease[w].fence
<1>1. TypeOK /\ [Next]_vars => Step
  <2> SUFFICES ASSUME TypeOK, [Next]_vars, NEW w \in Workers, pc[w] = "answered",
                      pc'[w] # "answered",
                      op[cur[w].session].status = "pending",
                      op'[cur[w].session].status # "pending"
               PROVE  /\ op[cur[w].session].owner = w
                      /\ op[cur[w].session].fence = lease[w].fence
    OBVIOUS
  <2>t. JournalTypeOK /\ WorkerTypeOK
    BY DEF TypeOK
  <2>0. PICK s \in Sessions : s = cur[w].session
    BY BusySession
  <2>1. CASE RecordProvisioned(w) \/ RecordDeleted(w)
    BY <2>1 DEF RecordProvisioned, RecordDeleted, HoldsLease
  <2>2. CASE ReleaseLease(w)
    BY <2>t, <2>0, <2>2 DEF ReleaseLease, JournalTypeOK, OpRows
  <2>3. CASE RecordObserved(w) \/ ConfirmTeardown(w) \/ StepFails(w) \/ Crash(w)
    BY <2>3 DEF RecordObserved, ConfirmTeardown, StepFails, Crash, journal
  <2>4. ASSUME Reconcile(w)
        PROVE  \/ RecordProvisioned(w) \/ RecordDeleted(w) \/ RecordObserved(w)
               \/ ReleaseLease(w) \/ ConfirmTeardown(w)
    BY <2>4 DEF Reconcile, BeginSweep, ListSteppable, ListBlocked, EndSweep, Load,
           LoadBlocked, NothingToDo, StaleCopy, StartOrDrop, Admit, AdmitWaits,
           AbandonProvision, Lease, StopReady, Observe, Clean, ProviderProvision,
           ProviderObserve, ProviderDelete
  <2>5. ASSUME NEW v \in Workers, v # w, Reconcile(v) \/ StepFails(v) \/ Crash(v) PROVE FALSE
    BY <2>5, OthersKeep
  <2>6. ASSUME \/ \E t \in Sessions : StrayProvision(t) \/ LoseWorkspace(t)
                                      \/ CreateSession(t) \/ RequestStop(t)
               \/ \E k \in Slots : HoldSlot(k) \/ ReleaseHold(k)
               \/ Tick \/ UNCHANGED vars
        PROVE  op' = op
    BY <2>6 DEF StrayProvision, LoseWorkspace, CreateSession, RequestStop, HoldSlot,
                ReleaseHold, Tick, vars, journal
  <2> QED
    BY <2>1, <2>2, <2>3, <2>4, <2>5, <2>6 DEF Next
<1>2. SupersededWritesNothing <=> [][Step]_vars
  BY DEF SupersededWritesNothing
<1> HIDE DEF Step
<1> QED
  BY TypeCorrect, <1>1, <1>2, PTL DEF Spec

-----------------------------------------------------------------------------
\* A step either writes the row of one session, or changes what runs of one.
OneRow == UNCHANGED res /\ \E s \in Sessions : \A t \in Sessions \ {s} : lab'[t] = lab[t]

OneWorkspace ==
    /\ UNCHANGED <<lab, slot>>
    /\ \E s \in Sessions : res' \in {res \cup {s}, res \ {s}}

SmallStep == OneRow \/ OneWorkspace \/ UNCHANGED <<lab, slot, res>>

\* No step of a worker, the provider, a student or the clock does both.
LEMMA StepIsSmall == TypeOK /\ [Next]_vars => SmallStep
<1> SUFFICES ASSUME TypeOK, [Next]_vars PROVE SmallStep
  OBVIOUS
<1> USE DEF SmallStep, OneRow, OneWorkspace, journal, provider, worker
<1>1. ASSUME NEW w \in Workers, pc[w] \notin {"idle", "sweep"}
      PROVE  cur[w].session \in Sessions
  BY <1>1 DEF TypeOK
<1>2. ASSUME NEW s \in Sessions, NEW to \in States, UNCHANGED res,
             lab' \in {Move(s, to), Revoke(s), RevokeFailed(s)}
      PROVE  SmallStep
  BY <1>2, RowChanges DEF TypeOK
<1>3. ASSUME NEW w \in Workers, Reconcile(w) \/ StepFails(w) \/ Crash(w) PROVE SmallStep
  <2>1. ASSUME \/ BeginSweep(w) \/ ListSteppable(w) \/ ListBlocked(w) \/ EndSweep(w)
               \/ \E s \in Sessions : LoadBlocked(w, s)
               \/ NothingToDo(w) \/ StaleCopy(w) \/ AdmitWaits(w) \/ Lease(w)
        PROVE  SmallStep
    BY <2>1 DEF BeginSweep, ListSteppable, ListBlocked, EndSweep, LoadBlocked, Loads,
                NothingToDo, StaleCopy, AdmitWaits, Lease
  <2>2. ASSUME \/ Observe(w) \/ ProviderObserve(w) \/ ConfirmTeardown(w)
               \/ ReleaseLease(w) \/ StepFails(w) \/ Crash(w)
        PROVE  SmallStep
    BY <2>2 DEF Observe, ProviderObserve, ConfirmTeardown, ReleaseLease, StepFails, Crash
  <2>3. ASSUME NEW s \in Sessions, Load(w, s) PROVE SmallStep
    BY <2>3 DEF Load, Loads, TypeOK, JournalTypeOK
  <2>4. ASSUME StartOrDrop(w) PROVE SmallStep
    <3> DEFINE s == cur[w].session
    <3>1. s \in Sessions /\ UNCHANGED res
      BY <1>1, <2>4 DEF StartOrDrop
    <3>2. CASE lab' = Move(s, "authorizing")
      BY <1>2, <3>1, <3>2 DEF States
    <3>3. CASE lab' = [Move(s, "terminated") EXCEPT ![s].stop = TRUE]
      BY <3>1, <3>3 DEF Move, TypeOK, JournalTypeOK
    <3> QED
      BY <2>4, <3>2, <3>3 DEF StartOrDrop
  <2>5. ASSUME Admit(w) PROVE SmallStep
    <3> DEFINE s == cur[w].session
    <3>1. s \in Sessions /\ UNCHANGED res
      BY <1>1, <2>5 DEF Admit
    <3>2. PICK k \in FreeSlots :
             lab' = [Move(s, "provisioning") EXCEPT ![s].slot = k,
                                                    ![s].slotGen = slot[k].gen + 1]
      BY <2>5 DEF Admit
    <3> QED
      BY <3>1, <3>2 DEF Move, TypeOK, JournalTypeOK
  <2>6. ASSUME AbandonProvision(w) \/ StopReady(w) \/ Clean(w) PROVE SmallStep
    <3>1. cur[w].session \in Sessions /\ UNCHANGED res
      BY <1>1, <2>6 DEF AbandonProvision, StopReady, Clean
    <3>2. \/ lab' = Revoke(cur[w].session) \/ lab' = Move(cur[w].session, "cleaning")
          \/ UNCHANGED <<lab, slot>>
      BY <2>6 DEF AbandonProvision, StopReady, Clean
    <3> QED
      BY <1>2, <3>1, <3>2 DEF States, HoldsSlot
  <2>7. ASSUME ProviderProvision(w) PROVE SmallStep
    <3>1. cur[w].session \in Sessions /\ UNCHANGED <<lab, slot>>
      BY <1>1, <2>7 DEF ProviderProvision
    <3>2. res' = res \cup {cur[w].session} \/ UNCHANGED res
      BY <2>7 DEF ProviderProvision
    <3> QED
      BY <3>1, <3>2
  <2>8. ASSUME ProviderDelete(w) PROVE SmallStep
    <3>1. cur[w].session \in Sessions /\ UNCHANGED <<lab, slot>>
      BY <1>1, <2>8 DEF ProviderDelete
    <3>2. res' = res \ {cur[w].session} \/ UNCHANGED res
      BY <2>8 DEF ProviderDelete
    <3> QED
      BY <3>1, <3>2
  <2>9. ASSUME RecordProvisioned(w) \/ RecordObserved(w) \/ RecordDeleted(w)
        PROVE  SmallStep
    <3>1. cur[w].session \in Sessions /\ UNCHANGED res
      BY <1>1, <2>9 DEF RecordProvisioned, RecordObserved, RecordDeleted
    <3>2. \/ \E to \in States : lab' = Move(cur[w].session, to)
          \/ lab' = RevokeFailed(cur[w].session)
          \/ UNCHANGED <<lab, slot>>
      BY <2>9 DEF RecordProvisioned, RecordObserved, RecordDeleted, States, HoldsSlot, Terminal
    <3>3. "stopping" \in States
      BY DEF States, HoldsSlot
    <3> QED
      BY <1>2, <3>1, <3>2, <3>3
  <2> QED
    BY <1>3, <2>1, <2>2, <2>3, <2>4, <2>5, <2>6, <2>7, <2>8, <2>9 DEF Reconcile
<1>4. ASSUME NEW s \in Sessions,
             StrayProvision(s) \/ LoseWorkspace(s) \/ CreateSession(s) \/ RequestStop(s)
      PROVE  SmallStep
  BY <1>4 DEF StrayProvision, LoseWorkspace, CreateSession, RequestStop, TypeOK, JournalTypeOK
<1>5. ASSUME \/ \E k \in Slots : HoldSlot(k) \/ ReleaseHold(k)
             \/ Tick \/ UNCHANGED vars
      PROVE  SmallStep
  BY <1>5 DEF HoldSlot, ReleaseHold, Tick, vars
<1> QED
  BY <1>3, <1>4, <1>5 DEF Next

\* The abstract state.
Holder == [k \in Slots |-> slot[k].occupant]
Ended == {s \in Sessions : lab[s].state \in Terminal}

\* A session holds a slot in LabSlots exactly when its state says so.
LEMMA HoldsIsState ==
    ASSUME IInv, NEW s \in Sessions
    PROVE  Abstract!Holds(s) <=> lab[s].state \in HoldsSlot
<1>1. ASSUME lab[s].state \in HoldsSlot PROVE Abstract!Holds(s)
  <2>1. Occupies(s) /\ lab[s].slot \in Slots
    BY <1>1 DEF IInv, SlotsAgree, Occupies, TypeOK, JournalTypeOK, LabRows
  <2> QED
    BY <2>1 DEF Abstract!Holds, Occupies
<1>2. ASSUME Abstract!Holds(s) PROVE lab[s].state \in HoldsSlot
  <2>1. PICK k \in Slots : slot[k].occupant = s
    BY <1>2 DEF Abstract!Holds
  <2>2. s # Nil
    BY CampusAssumption
  <2> QED
    BY <2>1, <2>2 DEF IInv, SlotsAgree
<1> QED
  BY <1>1, <1>2

\* THEOREM: the journal, its workers and a provider that keeps its contract
\* implement exclusive lab slots, for every number of sessions, slots, workers,
\* faults and every lag of their clocks.
THEOREM LabSlotsImplemented == Spec => ImplementsLabSlots
<1>1. Init => Abstract!Init
  BY DEF Init, Abstract!Init, Terminal
<1>2. IInv /\ ResourcesHoldASlot' /\ [Next]_vars => [Abstract!Next]_Abstract!vars
  <2> SUFFICES ASSUME IInv, ResourcesHoldASlot', [Next]_vars
               PROVE  [Abstract!Next]_Abstract!vars
    OBVIOUS
  <2>1. SlotMoves /\ SmallStep
    BY StepMoves, StepIsSmall DEF IInv
  <2>2. CASE UNCHANGED <<lab, slot, res>>
    BY <2>2 DEF Abstract!vars
  <2>3. CASE OneWorkspace
    <3>1. PICK s \in Sessions : res' \in {res \cup {s}, res \ {s}}
      BY <2>3 DEF OneWorkspace
    <3>2. UNCHANGED <<Holder, Ended>>
      BY <2>3 DEF OneWorkspace, Holder, Ended
    <3>3. CASE res' = res \ {s}
      BY <3>2, <3>3 DEF Abstract!Next, Abstract!Stop, Holder, Ended
    <3>4. CASE res' = res \cup {s}
      <4>1. lab[s].state \in HoldsSlot
        BY <2>3, <3>4 DEF ResourcesHoldASlot, OneWorkspace
      <4>2. Abstract!Holds(s)
        BY <4>1, HoldsIsState
      <4> QED
        BY <3>2, <3>4, <4>2 DEF Abstract!Next, Abstract!Start, Holder, Ended
    <3> QED
      BY <3>1, <3>3, <3>4
  <2>4. CASE OneRow
    <3>1. UNCHANGED res
      BY <2>4 DEF OneRow
    <3>d. /\ PreLaunch \cap HoldsSlot = {} /\ Terminal \cap HoldsSlot = {}
          /\ Terminal \cap PreLaunch = {} /\ "authorizing" \in PreLaunch
          /\ "provisioning" \notin Terminal /\ "cleaning" \in HoldsSlot
          /\ "terminated" \in Terminal
          /\ {"requested", "authorizing"} \cap Terminal = {}
      BY DEF PreLaunch, HoldsSlot, Terminal
    <3>2. CASE Quiet
      <4>1. Holder' = Holder
        BY <3>2 DEF Quiet, Holder
      <4>2. PICK s \in Sessions : \A t \in Sessions \ {s} : lab'[t] = lab[t]
        BY <2>4 DEF OneRow
      <4>3. Shifts(lab[s].state, lab'[s].state)
        BY <3>2 DEF Quiet
      <4>4. CASE lab'[s].state \in Terminal /\ lab[s].state \notin Terminal
        <5>1. lab[s].state \notin HoldsSlot
          BY <3>d, <4>3, <4>4 DEF Shifts
        <5>2. ~Abstract!Holds(s) /\ s \notin res
          BY <5>1, HoldsIsState, ResourcesAreHeld DEF ResourcesHoldASlot
        <5>3. Ended' = Ended \cup {s}
          BY <4>2, <4>4 DEF Ended
        <5> QED
          BY <3>1, <4>1, <5>2, <5>3 DEF Abstract!Next, Abstract!Drop, Holder, Ended
      <4>5. CASE ~(lab'[s].state \in Terminal /\ lab[s].state \notin Terminal)
        <5>1. lab'[s].state \in Terminal <=> lab[s].state \in Terminal
          BY <3>d, <4>3, <4>5 DEF Shifts
        <5>2. Ended' = Ended
          BY <4>2, <5>1 DEF Ended
        <5> QED
          BY <3>1, <4>1, <5>2 DEF Abstract!vars, Holder, Ended
      <4> QED
        BY <4>4, <4>5
    <3>3. ASSUME NEW s \in Sessions, NEW k \in Slots, Launches(s, k)
          PROVE  Abstract!Take(s, k)
      <4>1. Holder' = [Holder EXCEPT ![k] = s] /\ Holder[k] = Nil
        BY <3>3 DEF Launches, Holder, IInv, TypeOK, JournalTypeOK, SlotRows
      <4>2. lab[s].state \notin HoldsSlot /\ lab[s].state \notin Terminal
        BY <3>3, <3>d DEF Launches
      <4>3. ~Abstract!Holds(s) /\ s \notin Ended
        BY <4>2, HoldsIsState DEF Ended
      <4>4. Ended' = Ended
        BY <3>3, <3>d, <4>2 DEF Launches, Ended
      <4> QED
        BY <3>1, <4>1, <4>3, <4>4 DEF Abstract!Take, Holder, Ended
    <3>4. ASSUME NEW w \in Workers, NEW s \in Sessions, Releases(w, s)
          PROVE  \E k \in Slots : Abstract!Release(s, k)
      <4>1. lab[s].slot \in Slots /\ slot[lab[s].slot].occupant = s
        BY <3>4, <3>d DEF Releases, IInv, SlotsAgree, Occupies, TypeOK, JournalTypeOK, LabRows
      <4>2. s \notin res
        BY <3>4 DEF Releases, IInv, Gone
      <4>3. Holder' = [Holder EXCEPT ![lab[s].slot] = Nil] /\ Holder[lab[s].slot] = s
        BY <3>4, <4>1 DEF Releases, Holder, IInv, TypeOK, JournalTypeOK, SlotRows
      <4>4. Ended' = Ended \cup {s}
        BY <3>4 DEF Releases, Ended
      <4> QED
        BY <3>1, <4>1, <4>2, <4>3, <4>4 DEF Abstract!Release, Holder, Ended
    <3> QED
      BY <2>1, <3>2, <3>3, <3>4 DEF SlotMoves, Abstract!Next
  <2> QED
    BY <2>1, <2>2, <2>3, <2>4 DEF SmallStep
<1> QED
  BY <1>1, <1>2, Invariant, TerminalMeansClean, PTL DEF Spec, ImplementsLabSlots, Abstract!Spec
=============================================================================
