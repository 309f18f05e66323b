---------------------- MODULE HostedProductionProofs ----------------------
(***************************************************************************)
(* Proofs about HostedProduction, for every bound on Jobs and commits.      *)
(*                                                                         *)
(* IInv is inductive: a write leaves its traces in one order (admission,    *)
(* mutation, commit, report, receipt), an operation is blocked without a    *)
(* window only if nothing was admitted, and a rollback belongs to the one   *)
(* operation whose window failed.  The three invariants of the run and the  *)
(* refinement of ReleaseContract follow.                                    *)
(***************************************************************************)
EXTENDS HostedProduction, TLAPS

USE DEF operator, records, receipts, jobs, github, Ops, Deliveries, Decisions,
        Clocks, Unplanned

\* Pause, resume, cancel and the gate's decision keep the invariant.
LEMMA OperatorInv ==
  ASSUME IInv, \/ \E c \in {"active", "paused", "cancelled"} : SetControl(c)
               \/ \E s \in Decisions : Decide(s)
               \/ Handler
  PROVE  IInv'
<1> USE DEF IInv, TypeOK, Traces, Gated, Windows, RollbackOwned,
        Ending, InFlight, Owner
<1>1. ASSUME NEW c \in {"active", "paused", "cancelled"}, SetControl(c) PROVE IInv'
  BY <1>1 DEF SetControl
<1>2. ASSUME NEW s \in Decisions, Decide(s) PROVE IInv'
  BY <1>2 DEF Decide
<1>3. ASSUME DecideGate PROVE IInv'
  BY <1>3 DEF DecideGate
<1>4. ASSUME DecideDeployment PROVE IInv'
  BY <1>4 DEF DecideDeployment
<1> QED
  BY <1>1, <1>2, <1>3, <1>4 DEF Handler

\* Every durable write of a reconciler pass keeps the invariant.
LEMMA ReconcileInv ==
  ASSUME IInv, Reconcile
  PROVE  IInv'
<1> USE DEF IInv, TypeOK, Traces, Gated, Windows, RollbackOwned,
        Ending, InFlight, Owner
<1>1. ASSUME NEW o \in Ops, Begin(o) PROVE IInv'
  BY <1>1 DEF Begin
<1>2. ASSUME NEW o \in Ops, ReleasePending(o) PROVE IInv'
  BY <1>2 DEF ReleasePending
<1>3. ASSUME NEW o \in Ops, Start(o) PROVE IInv'
  BY <1>3 DEF Start
<1>4. ASSUME NEW o \in Ops, Dispatch(o) PROVE IInv'
  BY <1>4 DEF Dispatch
<1>5. ASSUME NEW o \in Ops, RecordWindow(o) PROVE IInv'
  BY <1>5 DEF RecordWindow
<1>6. ASSUME NEW o \in Ops, BlockInconclusive(o) PROVE IInv'
  BY <1>6 DEF BlockInconclusive, Block
<1>7. ASSUME NEW o \in Ops, 
             NEW v \in {"passed", "failed", "inconclusive"}, CloseWindow(o, v) PROVE IInv'
  BY <1>7 DEF CloseWindow
<1>8. ASSUME NEW d \in Deliveries, CreateWriter(d) PROVE IInv'
  BY <1>8 DEF CreateWriter, MayWrite, Open
<1>9. ASSUME NEW d \in Deliveries, BlockUnadmitted(d) PROVE IInv'
  BY <1>9 DEF BlockUnadmitted, Block, Open
<1>10. ASSUME BlockUnconfirmed PROVE IInv'
  BY <1>10 DEF BlockUnconfirmed, Block, Ended, Open
<1>11. ASSUME DispatchReader PROVE IInv'
  BY <1>11 DEF DispatchReader, Ended
<1>12. ASSUME CreateReader PROVE IInv'
  BY <1>12 DEF CreateReader
<1>13. ASSUME BindRollback PROVE IInv'
  BY <1>13 DEF BindRollback
<1>14. ASSUME DispatchRollback PROVE IInv'
  BY <1>14 DEF DispatchRollback
<1>15. ASSUME SettleRollback PROVE IInv'
  BY <1>15 DEF SettleRollback
<1>16. ASSUME Complete PROVE IInv'
  BY <1>16 DEF Complete
<1>17. ASSUME NEW r \in {"verified", "unverified"}, FinishRollback(r) PROVE IInv'
  BY <1>17 DEF FinishRollback, Block
<1> QED
  BY <1>1, <1>2, <1>3, <1>4, <1>5, <1>6, <1>7, <1>8, <1>9, <1>10, <1>11, <1>12, <1>13, <1>14, <1>15, <1>16, <1>17 DEF Reconcile

\* The writer and reader Jobs and their callbacks keep the invariant.
LEMMA WriterInv ==
  ASSUME IInv, \/ PostPlan \/ ReaderEnds
               \/ \E d \in Deliveries :
                    \/ Ask(d) \/ Watch(d) \/ Attempt(d) \/ AttemptOrphan(d) \/ Send(d)
                    \/ Report(d) \/ WriterEnds(d) \/ CollectJob(d) \/ Outcome(d)
                    \/ Apply(d)
  PROVE  IInv'
<1> USE DEF IInv, TypeOK, Traces, Gated, Windows, RollbackOwned,
        Ending, InFlight, Owner
<1>1. ASSUME PostPlan PROVE IInv'
  BY <1>1 DEF PostPlan, MayWrite, Open
<1>2. ASSUME ReaderEnds PROVE IInv'
  <2>1. CASE UNCHANGED reports
    BY <1>2, <2>1 DEF ReaderEnds
  <2>2. CASE "promote" \in landed /\ reports' = reports \cup {"promote"}
    BY <1>2, <2>2 DEF ReaderEnds
  <2> QED
    BY <1>2, <2>1, <2>2 DEF ReaderEnds, Established
<1>3. ASSUME NEW d \in Deliveries, Ask(d) PROVE IInv'
  BY <1>3 DEF Ask, MayWrite, Open
<1>4. ASSUME NEW d \in Deliveries, Watch(d) PROVE IInv'
  BY <1>4 DEF Watch
<1>5. ASSUME NEW d \in Deliveries, Attempt(d) PROVE IInv'
  <2>1. CASE Admissible(d)
    <3>1. PICK w \in {"granted", "ended"} : writer' = [writer EXCEPT ![d] = w]
      BY <1>5, <2>1 DEF Attempt
    <3>2. d \in dispatched /\ base[d] # Unplanned /\ d \notin attempt \cup commit
          /\ op[Owner(d)] = "running"
      BY <2>1 DEF Admissible, MayWrite
    <3>3. attempt' = attempt \cup {d}
      BY <1>5, <2>1 DEF Attempt
    <3>4. UNCHANGED <<operator, records, base, commit, orphans, reader, reports,
                      made, github, expired, pass>>
      BY <1>5 DEF Attempt
    <3>5. d \notin sent \cup landed
      BY <3>2
    <3>6. TypeOK'
      BY <3>1, <3>3, <3>4
    <3>7. Traces'
      BY <3>1, <3>2, <3>3, <3>4, <3>5
    <3>8. Gated' /\ RollbackOwned' /\ Ending'
      BY <3>3, <3>4
    <3>9. Windows'
      BY <3>2, <3>3, <3>4
    <3> QED
      BY <3>6, <3>7, <3>8, <3>9 DEF IInv
  <2>2. CASE ~Admissible(d)
    <3>1. UNCHANGED attempt /\ writer' = [writer EXCEPT ![d] = "ended"]
      BY <1>5, <2>2 DEF Attempt
    <3>2. UNCHANGED <<operator, records, base, commit, orphans, reader, reports,
                      made, github, expired, pass>>
      BY <1>5 DEF Attempt
    <3> QED
      BY <3>1, <3>2
  <2> QED
    BY <2>1, <2>2
<1>6. ASSUME NEW d \in Deliveries, AttemptOrphan(d) PROVE IInv'
  BY <1>6 DEF AttemptOrphan, Admissible, MayWrite, Open
<1>7. ASSUME NEW d \in Deliveries, Send(d) PROVE IInv'
  BY <1>7 DEF Send, Open
<1>8. ASSUME NEW d \in Deliveries, Report(d) PROVE IInv'
  BY <1>8 DEF Report, Established, Image, Open
<1>9. ASSUME NEW d \in Deliveries, WriterEnds(d) PROVE IInv'
  BY <1>9 DEF WriterEnds
<1>10. ASSUME NEW d \in Deliveries, CollectJob(d) PROVE IInv'
  BY <1>10 DEF CollectJob
<1>11. ASSUME NEW d \in Deliveries, Outcome(d) PROVE IInv'
  BY <1>11 DEF Outcome
<1>12. ASSUME NEW d \in Deliveries, Apply(d) PROVE IInv'
  <2>1. CASE UNCHANGED <<head, landed>>
    BY <1>12, <2>1 DEF Apply
  <2>2. CASE head' = head + 1 /\ landed' = landed \cup {d}
    BY <1>12, <2>2 DEF Apply
  <2> QED
    BY <1>12, <2>1, <2>2 DEF Apply
<1> QED
  BY <1>1, <1>2, <1>3, <1>4, <1>5, <1>6, <1>7, <1>8, <1>9, <1>10, <1>11, <1>12 DEF IInv

\* Other commits, the clock and an interrupted pass keep the invariant.
LEMMA EnvironmentInv ==
  ASSUME IInv, OtherCommit \/ Interrupt \/ \E c \in Clocks : Expire(c)
  PROVE  IInv'
<1> USE DEF IInv, TypeOK, Traces, Gated, Windows, RollbackOwned,
        Ending, InFlight, Owner
<1>1. ASSUME OtherCommit PROVE IInv'
  BY <1>1 DEF OtherCommit
<1>2. ASSUME Interrupt PROVE IInv'
  BY <1>2 DEF Interrupt
<1>3. ASSUME NEW c \in Clocks, Expire(c) PROVE IInv'
  BY <1>3 DEF Expire
<1> QED
  BY <1>1, <1>2, <1>3 DEF IInv

\* IInv holds in every reachable state.
THEOREM Invariance == Spec => []IInv
<1>1. Init => IInv
  <2> SUFFICES ASSUME Init PROVE IInv
    OBVIOUS
  <2>1. TypeOK
    <3>1. base \in [Deliveries -> Int] /\ made \in [Deliveries -> Nat]
          /\ orphans \in [Deliveries -> Nat] /\ head \in Nat
      BY DEF Init
    <3>2. op \in [Ops -> {"none"}] /\ window \in [Ops -> {"none"}]
          /\ writer \in [Deliveries -> {"absent"}]
      BY DEF Init
    <3> QED
      BY <3>1, <3>2 DEF Init, TypeOK
  <2>2. Traces
    BY DEF Init, Traces, InFlight
  <2>3. Gated /\ Windows /\ Ending
    BY DEF Init, Gated, Windows, Ending
  <2>4. RollbackOwned
    BY DEF Init, RollbackOwned
  <2> QED
    BY <2>1, <2>2, <2>3, <2>4 DEF IInv
<1>2. IInv /\ [Next]_vars => IInv'
  <2> SUFFICES ASSUME IInv, [Next]_vars PROVE IInv'
    OBVIOUS
  <2>1. CASE Next
    BY <2>1, OperatorInv, ReconcileInv, WriterInv, EnvironmentInv DEF Next
  <2>2. CASE UNCHANGED vars
    BY <2>2 DEF vars, IInv, TypeOK, Traces, Gated, Windows, RollbackOwned,
                Ending, InFlight, Owner
  <2> QED
    BY <2>1, <2>2
<1> QED
  BY <1>1, <1>2, PTL DEF Spec

\* A receipted delivery has nothing in flight and a rollback follows a
\* receipted release.
LEMMA ReceiptSettles ==
  ASSUME IInv
  PROVE  /\ \A d \in commit : d \in landed /\ ~InFlight(d)
         /\ op["promote"] = "succeeded" => "promote" \in commit
         /\ "rollback" \in dispatched => "promote" \in commit
BY DEF IInv, TypeOK, Traces, Windows, RollbackOwned, InFlight, Owner

\* A release that no window has judged keeps its operation, its locks and its
\* WorkItem open (delivery::reconcile), for any number of Jobs and foreign commits.
THEOREM UnjudgedStaysOpen == Spec => []UnjudgedReleaseStaysOpen
<1>1. ASSUME IInv, "promote" \in landed \/ InFlight("promote"), window["promote"] = "none"
      PROVE  op["promote"] = "running" /\ "promote" \in locks /\ item = "open"
  <2>1. "promote" \in attempt /\ "promote" \in dispatched
    BY <1>1 DEF IInv, Traces
  <2>2. op["promote"] = "running"
    BY <1>1, <2>1 DEF IInv, TypeOK, Gated, Windows
  <2>3. "rollback" \notin dispatched
    BY <1>1, <2>2 DEF IInv, RollbackOwned, Owner
  <2>4. result = "none"
    BY <1>1, <2>3 DEF IInv, TypeOK, RollbackOwned, Traces
  <2> QED
    BY <1>1, <2>2, <2>4 DEF IInv, TypeOK, Windows, Ending
<1>2. IInv => UnjudgedReleaseStaysOpen
  BY <1>1 DEF UnjudgedReleaseStaysOpen
<1> QED
  BY <1>2, Invariance, PTL

\* A write under way is covered by the locks of its operation
\* (record_workflow_operation, begin_workflow_operation).
THEOREM UnsettledWritesAreLocked == Spec => []WritesAreLocked
<1>1. ASSUME IInv, NEW d \in Deliveries, InFlight(d) PROVE Owner(d) \in locks
  <2>1. d \in dispatched
    BY <1>1 DEF IInv, Traces
  <2>2. op[Owner(d)] \in {"running", "blocked"}
    BY <1>1, <2>1, ReceiptSettles DEF IInv, TypeOK, Gated, RollbackOwned, Owner
  <2> QED
    BY <1>1, <2>2 DEF IInv, Ending, Owner
<1>2. IInv => WritesAreLocked
  BY <1>1 DEF WritesAreLocked
<1> QED
  BY <1>2, Invariance, PTL

\* Gate and WorkItem agree with the branch: nothing is released without a
\* satisfied gate, a completed WorkItem left the candidate and a failed one
\* the rollback, with no write under way (gate::decide, observe::finish,
\* rollback::settle).
THEOREM RecordsMatchProduction == Spec => []ProductionMatchesTheRecord
<1> SUFFICES ASSUME IInv PROVE ProductionMatchesTheRecord
  BY Invariance, PTL
<1>1. ASSUME gate # "satisfied", NEW d \in Deliveries PROVE d \notin attempt
  <2>1. "promote" \notin dispatched
    BY <1>1 DEF IInv, TypeOK, Gated
  <2> QED
    BY <2>1, ReceiptSettles DEF IInv, TypeOK, Traces
<1>2. gate # "satisfied" => landed = {} /\ \A d \in Deliveries : ~InFlight(d)
  BY <1>1 DEF IInv, TypeOK, Traces
<1>3. ASSUME item = "completed" PROVE "rollback" \notin attempt
  BY <1>3 DEF IInv, TypeOK, Traces, Windows, RollbackOwned, Ending, Owner
<1>4. item = "completed" =>
        Image = "candidate" /\ \A d \in Deliveries : ~InFlight(d)
  BY <1>3, ReceiptSettles DEF IInv, TypeOK, Traces, Windows, Ending, Image
<1>5. item = "failed" =>
        "rollback" \in landed /\ \A d \in Deliveries : ~InFlight(d)
  BY ReceiptSettles DEF IInv, TypeOK, Traces, RollbackOwned, Ending
<1> QED
  BY <1>2, <1>4, <1>5 DEF ProductionMatchesTheRecord

-----------------------------------------------------------------------------
\* The refinement: every step is one step of the release contract, or none.
ContractStep == [Contract!Next]_(Contract!vars)

LEMMA QuietContract ==
  ASSUME UNCHANGED <<gate, landed, window, op, item>>
  PROVE  ContractStep
BY DEF ContractStep, Contract!vars, GivenUp

\* An operation that moves without being given up.
LEMMA OperationQuiet ==
  ASSUME UNCHANGED <<gate, landed, window, item>>, GivenUp' = GivenUp
  PROVE  ContractStep
BY DEF ContractStep, Contract!vars

\* Blocking a promotion without a window gives up a release that never landed.
LEMMA BlockGivesUp ==
  ASSUME IInv, NEW o \in Ops, Block(o), IInv'
  PROVE  ContractStep
<1>1. UNCHANGED <<gate, landed, window, item>> /\ op' = [op EXCEPT ![o] = "blocked"]
  BY DEF Block
<1>2. CASE GivenUp' = GivenUp
  BY <1>1, <1>2, OperationQuiet
<1>3. CASE GivenUp' # GivenUp
  <2>1. GivenUp' = TRUE /\ o = "promote" /\ window["promote"] = "none"
    BY <1>1, <1>3 DEF GivenUp, IInv, TypeOK
  <2>2. "promote" \notin landed /\ "rollback" \notin landed
    BY <1>1, <2>1, ReceiptSettles DEF GivenUp, IInv, TypeOK, Windows, Traces
  <2>3. Contract!GiveUp
    BY <1>1, <2>1, <2>2 DEF Contract!GiveUp
  <2> QED
    BY <2>3 DEF ContractStep, Contract!Next
<1> QED
  BY <1>2, <1>3

\* A landed write is the release or its restoration.
LEMMA ApplyChangesProduction ==
  ASSUME IInv, NEW d \in Deliveries, Apply(d)
  PROVE  ContractStep
<1>1. UNCHANGED <<gate, window, op, item>>
  BY DEF Apply
<1>2. CASE landed' = landed
  BY <1>1, <1>2, QuietContract
<1>3. CASE landed' # landed
  <2>1. landed' = landed \cup {d} /\ d \in sent
    BY <1>3 DEF Apply
  <2>2. d \in attempt /\ d \in dispatched /\ d \notin landed /\ d \notin commit
    BY <2>1 DEF IInv, Traces, InFlight
  <2>3. GivenUp' = GivenUp
    BY <1>1 DEF GivenUp
  <2>4. CASE d = "promote"
    <3>1. gate = "satisfied" /\ ~GivenUp /\ window["promote"] = "none"
      BY <2>2, <2>4 DEF IInv, TypeOK, Gated, Windows, GivenUp
    <3>2. "rollback" \notin dispatched /\ op["promote"] # "succeeded"
      BY <2>2, <2>4, ReceiptSettles
    <3>3. "rollback" \notin landed /\ "rollback" \notin commit
      BY <3>2 DEF IInv, Traces
    <3>4. item = "open"
      BY <3>2, <3>3 DEF IInv, TypeOK, Windows, RollbackOwned, Ending
    <3>5. Contract!Release
      BY <1>1, <2>1, <2>2, <2>3, <2>4, <3>1, <3>3, <3>4 DEF Contract!Release
    <3> QED
      BY <3>5 DEF ContractStep, Contract!Next
  <2>5. CASE d = "rollback"
    <3>1. "promote" \in landed
      BY <2>2, <2>5, ReceiptSettles
    <3>2. Owner("rollback") \in Ops /\ window[Owner("rollback")] = "failed"
      BY <2>2, <2>5 DEF IInv, RollbackOwned, Owner
    <3>3. item = "open"
      BY <2>2, <2>5, <3>2 DEF IInv, TypeOK, Windows, RollbackOwned, Ending, Owner
    <3>4. Contract!Restore
      BY <1>1, <2>1, <2>2, <2>3, <2>5, <3>1, <3>2, <3>3
         DEF Contract!Restore, Contract!Windows
    <3> QED
      BY <3>4 DEF ContractStep, Contract!Next
  <2> QED
    BY <2>4, <2>5
<1> QED
  BY <1>2, <1>3

\* A window is judged while the candidate runs.
LEMMA WindowJudges ==
  ASSUME IInv, NEW o \in Ops, NEW v \in {"passed", "failed", "inconclusive"},
         CloseWindow(o, v)
  PROVE  ContractStep
<1>1. /\ op[o] = "running" /\ window[o] = "none"
      /\ o = "promote" => "promote" \in commit
      /\ window' = [window EXCEPT ![o] = v]
      /\ UNCHANGED <<gate, landed, op, item>>
  BY DEF CloseWindow
<1>2. o = "observe" => op["promote"] = "succeeded" /\ window["promote"] = "passed"
  BY <1>1 DEF IInv, TypeOK, Windows
<1>3. "promote" \in landed
  BY <1>1, <1>2, ReceiptSettles
<1>4. "rollback" \notin dispatched
  BY <1>1, <1>2 DEF IInv, TypeOK, Windows, RollbackOwned, Owner
<1>5. "rollback" \notin landed /\ "rollback" \notin commit
  BY <1>4 DEF IInv, Traces
<1>6. item = "open"
  BY <1>1, <1>2, <1>5 DEF IInv, TypeOK, Windows, RollbackOwned, Ending
<1>7. GivenUp' = GivenUp
  BY <1>1, <1>2 DEF GivenUp, IInv, TypeOK
<1>8. Contract!Judge(o, v)
  BY <1>1, <1>2, <1>3, <1>5, <1>6, <1>7 DEF Contract!Judge
<1> QED
  BY <1>8 DEF ContractStep, Contract!Next, Contract!Windows

\* The WorkItem ends on what production runs.
LEMMA ItemEnds ==
  ASSUME IInv, SettleRollback \/ Complete
  PROVE  ContractStep
<1>1. UNCHANGED <<gate, landed, window, op>> /\ GivenUp' = GivenUp /\ item = "open"
  BY DEF SettleRollback, Complete, GivenUp
<1>2. CASE SettleRollback
  <2>1. "rollback" \in landed /\ item' = "failed"
    BY <1>2, ReceiptSettles DEF SettleRollback, IInv, TypeOK, RollbackOwned
  <2>2. Contract!Fail
    BY <1>1, <2>1 DEF Contract!Fail
  <2> QED
    BY <2>2 DEF ContractStep, Contract!Next
<1>3. CASE Complete
  <2>1. item' = "completed" /\ op["observe"] = "succeeded"
    BY <1>3 DEF Complete
  <2>2. window["observe"] = "passed" /\ window["promote"] = "passed"
        /\ op["promote"] = "succeeded"
    BY <2>1 DEF IInv, TypeOK, Windows
  <2>3. "promote" \in landed /\ "rollback" \notin dispatched
    BY <2>1, <2>2, ReceiptSettles DEF IInv, RollbackOwned, Owner
  <2>4. "rollback" \notin landed
    BY <2>3 DEF IInv, Traces
  <2>5. Contract!Complete
    BY <1>1, <2>1, <2>2, <2>3, <2>4 DEF Contract!Complete, Contract!Windows
  <2> QED
    BY <2>5 DEF ContractStep, Contract!Next
<1> QED
  BY <1>2, <1>3

\* Hosted production keeps the release contract, for any number of Jobs and
\* foreign commits (delivery::reconcile, rollback::after_window, observe::finish).
THEOREM ReleaseContractKept == Spec => KeepsTheReleaseContract
<1>1. Init => Contract!Init
  BY DEF Init, Contract!Init, Contract!Windows, GivenUp
<1>2. IInv /\ IInv' /\ [Next]_vars => ContractStep
  <2> SUFFICES ASSUME IInv, IInv', [Next]_vars PROVE ContractStep
    OBVIOUS
  <2>1. ASSUME NEW s \in Decisions, Decide(s) PROVE ContractStep
    BY <2>1, QuietContract DEF Decide
  <2>2. ASSUME DecideGate PROVE ContractStep
    <3>1. /\ gate = "pending" /\ gate' \in Decisions
          /\ UNCHANGED <<landed, window, op, item>>
      BY <2>2 DEF DecideGate, IInv, Gated
    <3>2. Contract!DecideGate(gate')
      BY <3>1 DEF Contract!DecideGate, GivenUp
    <3> QED
      BY <3>1, <3>2 DEF ContractStep, Contract!Next
  <2>3. ASSUME NEW o \in Ops,
               Begin(o) \/ ReleasePending(o) \/ Start(o) \/ Dispatch(o) \/ RecordWindow(o)
        PROVE  ContractStep
    <3>1. UNCHANGED <<gate, landed, window, item>>
      BY <2>3 DEF Begin, ReleasePending, Start, Dispatch, RecordWindow
    <3>2. GivenUp' = GivenUp
      BY <2>3 DEF Begin, ReleasePending, Start, Dispatch, RecordWindow, GivenUp, IInv, TypeOK
    <3> QED
      BY <3>1, <3>2, OperationQuiet
  <2>4. ASSUME NEW o \in Ops, BlockInconclusive(o) PROVE ContractStep
    BY <2>4, BlockGivesUp DEF BlockInconclusive
  <2>5. ASSUME NEW d \in Deliveries, BlockUnadmitted(d) PROVE ContractStep
    BY <2>5, BlockGivesUp DEF BlockUnadmitted, Owner
  <2>6. ASSUME BlockUnconfirmed PROVE ContractStep
    BY <2>6, BlockGivesUp DEF BlockUnconfirmed, Owner
  <2>7. ASSUME NEW r \in {"verified", "unverified"}, FinishRollback(r) PROVE ContractStep
    BY <2>7, BlockGivesUp DEF FinishRollback, Owner
  <2>8. ASSUME \/ \E c \in {"active", "paused", "cancelled"} : SetControl(c)
               \/ DecideDeployment \/ \E d \in Deliveries : CreateWriter(d)
               \/ DispatchReader \/ CreateReader \/ BindRollback \/ DispatchRollback
        PROVE  ContractStep
    BY <2>8, QuietContract DEF SetControl, DecideDeployment, CreateWriter, DispatchReader,
                               CreateReader, BindRollback, DispatchRollback
  <2>9. ASSUME \/ PostPlan \/ ReaderEnds \/ OtherCommit \/ Interrupt
               \/ \E c \in Clocks : Expire(c)
        PROVE  ContractStep
    BY <2>9, QuietContract DEF PostPlan, ReaderEnds, OtherCommit, Interrupt, Expire
  <2>10. ASSUME NEW d \in Deliveries,
                \/ Ask(d) \/ Watch(d) \/ Attempt(d) \/ AttemptOrphan(d) \/ Send(d)
                \/ Report(d) \/ WriterEnds(d) \/ CollectJob(d) \/ Outcome(d)
         PROVE  ContractStep
    BY <2>10, QuietContract DEF Ask, Watch, Attempt, AttemptOrphan, Send, Report,
                                WriterEnds, CollectJob, Outcome
  <2>11. ASSUME UNCHANGED vars PROVE ContractStep
    BY <2>11, QuietContract DEF vars
  <2> QED
    BY <2>1, <2>2, <2>3, <2>4, <2>5, <2>6, <2>7, <2>8, <2>9, <2>10, <2>11,
       ApplyChangesProduction, WindowJudges, ItemEnds
       DEF Next, Handler, Reconcile
<1> QED
  BY <1>1, <1>2, Invariance, PTL
     DEF Spec, KeepsTheReleaseContract, Contract!Spec, ContractStep
=============================================================================
