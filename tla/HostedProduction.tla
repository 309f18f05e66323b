------------------------- MODULE HostedProduction -------------------------
(***************************************************************************)
(* The production half of the hosted controller                            *)
(* (crates/pharness-api/src/app/hosted_controller/production/), together    *)
(* with the Job that writes the GitOps repository                           *)
(* (crates/pharness-worker/src/staging_gitops.rs) and that repository.      *)
(*                                                                         *)
(* One WorkItem has a recorded production proposal.  An operator decides    *)
(* its gate, the operation "promote" dispatches one writer Job whose single *)
(* admitted commit releases the image, a window of runtime evidence follows *)
(* and the operation "observe" collects a second one.  A failed window is   *)
(* answered by one rollback inside the operation that owns it.              *)
(*                                                                         *)
(* Reconciler, operator and callbacks hold DISPATCH_BOUNDARY, an in-process *)
(* mutex, so no two of them interleave; but a pass can be cut after any     *)
(* durable write (45 s timeout, dropped request, restart).  A pass that     *)
(* would be resumed from what it recorded is one action per durable write.  *)
(* Where the rest of the pass needs something it never recorded, `pass'     *)
(* holds that rest and Interrupt loses it.                                  *)
(***************************************************************************)
EXTENDS Integers

CONSTANTS
  MaxJobs,    \* bound on the writer Jobs created for one delivery
  MaxHead     \* bound: others push while the branch has fewer new commits

ASSUME BoundsAssumption == MaxJobs \in Nat /\ MaxHead \in Nat

Ops == {"promote", "observe"}
Deliveries == {"promote", "rollback"}
Decisions == {"satisfied", "rejected"}
Clocks == {"approval", "promote", "observe", "rollback"}
Unplanned == -1

VARIABLES
  control,     \* hosted_reconciliations.control
  gate,        \* approval gate status
  decided,     \* decisions whose approval or rejection artifact is written
  deployment,  \* deployment intent status
  op,          \* hosted_operations.status, "none" before the row exists
  locks,       \* operations holding their rows of hosted_operation_locks
  dispatched,  \* dispatch references recorded on the operations
  bound,       \* the deployment intent names a rollback authority
  base,        \* head a delivery's plan was derived from
  attempt,     \* deliveries whose admission artifact is written
  commit,      \* deliveries whose commit receipt is written
  window,      \* result artifact of the window an operation owns
  projected,   \* operations that recorded their window's result
  result,      \* rollback result recorded on the blocked operation
  item,        \* WorkItem status
  expired,     \* clocks that ran out
  pass,        \* rest of an interrupted-sensitive handler, or "none"
  writer,      \* writer Job of a delivery
  orphans,     \* admission requests of writers that are gone
  reader,      \* recovery reader Job of the release
  sent,        \* GitHub mutations sent and not yet answered
  reports,     \* deliveries with a committed outcome on its way
  made,        \* writer Jobs created
  head,        \* commits on the GitOps branch since the approved base
  landed       \* deliveries whose commit is one of them

operator == <<control, gate, decided, deployment>>
records  == <<op, locks, dispatched, bound, window, projected, result, item>>
receipts == <<base, attempt, commit>>
jobs     == <<writer, orphans, reader, reports, made>>
github   == <<sent, head, landed>>
vars == <<operator, records, receipts, jobs, github, expired, pass>>

\* The image the GitOps branch pins.
Image == IF "promote" \in landed /\ "rollback" \notin landed
         THEN "candidate" ELSE "previous"

\* The operation that owns a delivery: the one whose window failed.
Owner(d) == IF d = "promote" \/ op["promote"] # "succeeded"
            THEN "promote" ELSE "observe"

Open(d) == IF d = "promote" THEN expired \cap {"approval", "promote"} = {}
                            ELSE "rollback" \notin expired

\* validate_current for a write: the grant and the operation are both open,
\* the decision stands and new work is not stopped.
MayWrite(d) ==
  /\ d \in dispatched
  /\ Open(d)
  /\ op[Owner(d)] = "running"
  /\ gate = "satisfied"
  /\ d = "promote" => deployment = "approved"
  /\ control = "active"

Ended(d) == writer[d] \in {"absent", "ended"}

Init ==
  /\ control = "active" /\ gate = "pending" /\ decided = {}
  /\ deployment = "proposed"
  /\ op = [o \in Ops |-> "none"] /\ locks = {} /\ dispatched = {}
  /\ bound = FALSE
  /\ base = [d \in Deliveries |-> IF d = "promote" THEN 0 ELSE Unplanned]
  /\ attempt = {} /\ commit = {}
  /\ window = [o \in Ops |-> "none"] /\ projected = {}
  /\ result = "none" /\ item = "open"
  /\ expired = {} /\ pass = "none"
  /\ writer = [d \in Deliveries |-> "absent"]
  /\ orphans = [d \in Deliveries |-> 0]
  /\ reader = "absent" /\ sent = {} /\ reports = {}
  /\ made = [d \in Deliveries |-> 0]
  /\ head = 0 /\ landed = {}
-----------------------------------------------------------------------------
(* The operator. *)

SetControl(c) ==
  /\ pass = "none" /\ item = "open"
  /\ control \notin {"cancelled", c}
  /\ control' = c
  /\ UNCHANGED <<gate, decided, deployment, records, receipts, jobs, github,
                 expired, pass>>

\* Mutant: a decided gate is decided again.
DecideAgain(s) ==
  /\ pass = "none"
  /\ s = "satisfied" => control = "active"
  /\ s \notin decided
  /\ decided' = decided \cup {s}
  /\ pass' = s
  /\ UNCHANGED <<control, gate, deployment, records, receipts, jobs, github,
                 expired>>

\* The decision's artifact is written first and never twice.
Decide(s) ==
  /\ pass = "none" /\ gate = "pending"
  /\ s = "satisfied" => control = "active"
  /\ s \notin decided
  /\ decided' = decided \cup {s}
  /\ pass' = s
  /\ UNCHANGED <<control, gate, deployment, records, receipts, jobs, github,
                 expired>>

DecideGate ==
  /\ pass \in Decisions
  /\ gate' = pass
  /\ pass' = "intent"
  /\ UNCHANGED <<control, decided, deployment, records, receipts, jobs, github,
                 expired>>

DecideDeployment ==
  /\ pass = "intent"
  /\ deployment' = IF gate = "satisfied" THEN "approved" ELSE "rejected"
  /\ pass' = "none"
  /\ UNCHANGED <<control, gate, decided, records, receipts, jobs, github,
                 expired>>
-----------------------------------------------------------------------------
(* The reconciler. *)

\* production::next, then begin_workflow_operation: the row and its locks.
Begin(o) ==
  /\ pass = "none" /\ item = "open" /\ control = "active"
  /\ op[o] = "none"
  /\ IF o = "promote" THEN gate = "satisfied" /\ "approval" \notin expired
                      ELSE op["promote"] = "succeeded"
  /\ op' = [op EXCEPT ![o] = "pending"]
  /\ locks' = locks \cup {o}
  /\ UNCHANGED <<operator, dispatched, bound, window, projected, result, item,
                 receipts, jobs, github, expired, pass>>

\* An operation that was never started may give its locks back.
ReleasePending(o) ==
  /\ pass = "none" /\ op[o] = "pending" /\ o \in locks
  /\ control # "active" \/ o \in expired
  /\ locks' = locks \ {o}
  /\ UNCHANGED <<operator, op, dispatched, bound, window, projected, result,
                 item, receipts, jobs, github, expired, pass>>

Start(o) ==
  /\ pass = "none" /\ op[o] = "pending"
  /\ control = "active" /\ o \notin expired
  /\ op' = [op EXCEPT ![o] = "running"]
  /\ locks' = locks \cup {o}
  /\ UNCHANGED <<operator, dispatched, bound, window, projected, result, item,
                 receipts, jobs, github, expired, pass>>

\* delivery::prepare and observe::prepare; both rebind the same identity when
\* they are repeated.
Dispatch(o) ==
  /\ pass = "none" /\ op[o] = "running" /\ o \notin dispatched
  /\ control = "active" /\ o \notin expired
  /\ o = "promote" => "approval" \notin expired
  /\ dispatched' = dispatched \cup {o}
  /\ UNCHANGED <<operator, op, locks, bound, window, projected, result, item,
                 receipts, jobs, github, expired, pass>>

\* The original writer Job is created again while it is missing and its
\* write is not admitted.
CreateWriter(d) ==
  /\ pass = "none" /\ writer[d] = "absent"
  /\ MayWrite(d) /\ d \notin attempt \cup commit
  /\ made[d] < MaxJobs
  /\ writer' = [writer EXCEPT ![d] = "started"]
  /\ made' = [made EXCEPT ![d] = @ + 1]
  /\ UNCHANGED <<operator, records, receipts, orphans, reader, reports, github,
                 expired, pass>>

\* Mutant: a blocked operation gives its locks back.
BlockAndRelease(o) ==
  /\ op' = [op EXCEPT ![o] = "blocked"]
  /\ locks' = locks \ {o}
  /\ UNCHANGED <<operator, dispatched, bound, window, projected, item, receipts,
                 jobs, github, expired, pass>>

\* Mark an operation blocked; it keeps its locks.
Block(o) ==
  /\ op' = [op EXCEPT ![o] = "blocked"]
  /\ UNCHANGED <<operator, locks, dispatched, bound, window, projected, item,
                 receipts, jobs, github, expired, pass>>

\* Mutant: the admission is not looked up.
BlockEndedWriter(d) ==
  /\ pass = "none" /\ d \in dispatched /\ op[Owner(d)] = "running"
  /\ d \notin commit
  /\ ~Open(d) \/ writer[d] = "ended"
  /\ Block(Owner(d)) /\ UNCHANGED result

\* The writer can no longer be admitted, or ended without asking.
BlockUnadmitted(d) ==
  /\ pass = "none" /\ d \in dispatched /\ op[Owner(d)] = "running"
  /\ d \notin attempt \cup commit
  /\ ~Open(d) \/ writer[d] = "ended"
  /\ Block(Owner(d)) /\ UNCHANGED result

\* Mutant: a rollback past its window still waits for its writer.
BlockEndedRollback ==
  /\ pass = "none" /\ op[Owner("rollback")] = "running"
  /\ "rollback" \in attempt \ commit
  /\ Ended("rollback")
  /\ Block(Owner("rollback")) /\ UNCHANGED result

\* An admitted rollback whose writer is gone or late has no recovery reader.
BlockUnconfirmed ==
  /\ pass = "none" /\ op[Owner("rollback")] = "running"
  /\ "rollback" \in attempt \ commit
  /\ Ended("rollback") \/ ~Open("rollback")
  /\ Block(Owner("rollback")) /\ UNCHANGED result

\* Mutant: a stopped workflow looks nothing up.
DispatchReaderWhileActive ==
  /\ pass = "none" /\ op["promote"] = "running" /\ control = "active"
  /\ "promote" \in attempt \ commit
  /\ Ended("promote") /\ "promote" \notin expired
  /\ "reader" \notin dispatched
  /\ dispatched' = dispatched \cup {"reader"}
  /\ pass' = "reader"
  /\ UNCHANGED <<operator, op, locks, bound, window, projected, result, item,
                 receipts, jobs, github, expired>>

\* The admitted release is looked up by one reader; its dispatch is recorded
\* before the Job is created.
DispatchReader ==
  /\ pass = "none" /\ op["promote"] = "running"
  /\ "promote" \in attempt \ commit
  /\ Ended("promote") /\ "promote" \notin expired
  /\ "reader" \notin dispatched
  /\ dispatched' = dispatched \cup {"reader"}
  /\ pass' = "reader"
  /\ UNCHANGED <<operator, op, locks, bound, window, projected, result, item,
                 receipts, jobs, github, expired>>

CreateReader ==
  /\ pass = "reader"
  /\ reader' = "active"
  /\ pass' = "none"
  /\ UNCHANGED <<operator, records, receipts, writer, orphans, reports, made,
                 github, expired>>

\* runtime::reconcile: the result artifact of the one window; a window out of
\* time is inconclusive.
CloseWindow(o, v) ==
  /\ pass = "none" /\ op[o] = "running" /\ o \in dispatched
  /\ window[o] = "none"
  /\ o = "promote" => "promote" \in commit
  /\ v # "inconclusive" => o \notin expired
  /\ window' = [window EXCEPT ![o] = v]
  /\ UNCHANGED <<operator, op, locks, dispatched, bound, projected, result,
                 item, receipts, jobs, github, expired, pass>>

\* result::record: a passed window completes the operation and frees its locks.
RecordWindow(o) ==
  /\ pass = "none" /\ op[o] = "running"
  /\ window[o] # "none" /\ o \notin projected
  /\ projected' = projected \cup {o}
  /\ op' = [op EXCEPT ![o] = IF window[o] = "passed" THEN "succeeded" ELSE @]
  /\ locks' = IF window[o] = "passed" THEN locks \ {o} ELSE locks
  /\ UNCHANGED <<operator, dispatched, bound, window, result, item, receipts,
                 jobs, github, expired, pass>>

BlockInconclusive(o) ==
  /\ pass = "none" /\ op[o] = "running" /\ o \in projected
  /\ window[o] = "inconclusive"
  /\ Block(o) /\ UNCHANGED result

\* rollback::prepare names the authority in the intent with the clock of this
\* pass; a later pass computes another one and is refused.
BindRollback ==
  LET o == Owner("rollback") IN
  /\ pass = "none" /\ op[o] = "running" /\ o \in projected
  /\ window[o] = "failed" /\ control = "active"
  /\ "rollback" \notin dispatched /\ ~bound
  /\ bound' = TRUE
  /\ pass' = "rollback"
  /\ UNCHANGED <<operator, op, locks, dispatched, window, projected, result,
                 item, receipts, jobs, github, expired>>

DispatchRollback ==
  /\ pass = "rollback"
  /\ dispatched' = dispatched \cup {"rollback"}
  /\ pass' = "none"
  /\ UNCHANGED <<operator, op, locks, bound, window, projected, result, item,
                 receipts, jobs, github, expired>>

\* Mutant: the rollback is verified before its receipt.
FinishUnreceipted(r) ==
  /\ pass = "none" /\ op[Owner("rollback")] = "running"
  /\ "rollback" \in attempt
  /\ result' = r
  /\ Block(Owner("rollback"))

\* rollback::verify and finish: bounded reads of the cluster end in one result.
FinishRollback(r) ==
  /\ pass = "none" /\ op[Owner("rollback")] = "running"
  /\ "rollback" \in commit
  /\ result' = r
  /\ Block(Owner("rollback"))

\* rollback::settle, repeated by every later pass: a verified rollback fails
\* and closes the WorkItem.
SettleRollback ==
  /\ pass = "none" /\ op[Owner("rollback")] = "blocked"
  /\ result = "verified" /\ item = "open"
  /\ item' = "failed"
  /\ UNCHANGED <<operator, op, locks, dispatched, bound, window, projected,
                 result, receipts, jobs, github, expired, pass>>

\* observe::finish, after the second window was sealed.
Complete ==
  /\ pass = "none" /\ op["observe"] = "succeeded" /\ control = "active"
  /\ item = "open"
  /\ item' = "completed"
  /\ UNCHANGED <<operator, op, locks, dispatched, bound, window, projected,
                 result, receipts, jobs, github, expired, pass>>
-----------------------------------------------------------------------------
(* The writer Job: Transport::run. *)

\* A rollback has no reviewed diff: its writer plans from the head it read,
\* which must still pin the candidate.
PostPlan ==
  /\ pass = "none" /\ writer["rollback"] = "started"
  /\ base["rollback"] = Unplanned
  /\ MayWrite("rollback") /\ "rollback" \notin attempt
  /\ Image = "candidate"
  /\ \E b \in base["promote"] + 1 .. head :
       base' = [base EXCEPT !["rollback"] = b]
  /\ UNCHANGED <<operator, records, attempt, commit, jobs, github, expired,
                 pass>>

\* It asks for admission once it may advance and the head has not moved.
Ask(d) ==
  /\ writer[d] = "started" /\ base[d] # Unplanned
  /\ MayWrite(d) /\ d \notin attempt
  /\ head = base[d]
  /\ writer' = [writer EXCEPT ![d] = "asking"]
  /\ UNCHANGED <<operator, records, receipts, orphans, reader, reports, made,
                 github, expired, pass>>

\* An admission it did not ask for is only observed.
Watch(d) ==
  /\ writer[d] = "started" /\ d \in attempt
  /\ writer' = [writer EXCEPT ![d] = "observing"]
  /\ UNCHANGED <<operator, records, receipts, orphans, reader, reports, made,
                 github, expired, pass>>

\* The attempt callback: one admission per delivery.
Admissible(d) ==
  MayWrite(d) /\ base[d] # Unplanned /\ d \notin attempt \cup commit

Attempt(d) ==
  /\ pass = "none" /\ writer[d] = "asking"
  /\ IF Admissible(d)
     THEN /\ attempt' = attempt \cup {d}
          /\ \E w \in {"granted", "ended"} : writer' = [writer EXCEPT ![d] = w]
     ELSE /\ UNCHANGED attempt
          /\ writer' = [writer EXCEPT ![d] = "ended"]
  /\ UNCHANGED <<operator, records, base, commit, orphans, reader, reports,
                 made, github, expired, pass>>

\* The request of a writer that is gone is served like any other.
AttemptOrphan(d) ==
  /\ pass = "none" /\ orphans[d] > 0
  /\ attempt' = IF Admissible(d) THEN attempt \cup {d} ELSE attempt
  /\ orphans' = [orphans EXCEPT ![d] = @ - 1]
  /\ UNCHANGED <<operator, records, base, commit, writer, reader, reports, made,
                 github, expired, pass>>

\* commit_once: never repeated, whatever the answer.
Send(d) ==
  /\ writer[d] = "granted" /\ Open(d)
  /\ sent' = sent \cup {d}
  /\ writer' = [writer EXCEPT ![d] = "observing"]
  /\ UNCHANGED <<operator, records, receipts, orphans, reader, reports, made,
                 head, landed, expired, pass>>

\* The change a delivery made is on the branch and still what it pins.
Established(d) ==
  /\ d \in landed
  /\ Image = IF d = "promote" THEN "candidate" ELSE "previous"

Report(d) ==
  /\ writer[d] = "observing" /\ Open(d) /\ Established(d)
  /\ reports' = reports \cup {d}
  /\ writer' = [writer EXCEPT ![d] = "ended"]
  /\ UNCHANGED <<operator, records, receipts, orphans, reader, made, github,
                 expired, pass>>

\* A writer ends early for any reason; its admission request may still arrive.
WriterEnds(d) ==
  /\ writer[d] \notin {"absent", "ended"}
  /\ writer' = [writer EXCEPT ![d] = "ended"]
  /\ \/ UNCHANGED orphans
     \/ writer[d] = "asking" /\ orphans' = [orphans EXCEPT ![d] = @ + 1]
  /\ UNCHANGED <<operator, records, receipts, reader, reports, made, github,
                 expired, pass>>

\* A finished Job is collected.
CollectJob(d) ==
  /\ writer[d] = "ended"
  /\ writer' = [writer EXCEPT ![d] = "absent"]
  /\ UNCHANGED <<operator, records, receipts, orphans, reader, reports, made,
                 github, expired, pass>>

ReaderEnds ==
  /\ reader = "active"
  /\ reader' = "ended"
  /\ \/ UNCHANGED reports
     \/ Open("promote") /\ Established("promote")
        /\ reports' = reports \cup {"promote"}
  /\ UNCHANGED <<operator, records, receipts, writer, orphans, made, github,
                 expired, pass>>

\* The outcome callback; the report may be late and may be repeated.
Outcome(d) ==
  /\ pass = "none" /\ d \in reports
  /\ d \in attempt /\ d \notin commit
  /\ commit' = commit \cup {d}
  /\ UNCHANGED <<operator, records, base, attempt, jobs, github, expired, pass>>
-----------------------------------------------------------------------------
(* GitHub, the clock and failures. *)

\* A mutation is applied to the head it names, or refused, or lost.
Apply(d) ==
  /\ d \in sent
  /\ sent' = sent \ {d}
  /\ \/ UNCHANGED <<head, landed>>
     \/ head = base[d] /\ head' = head + 1 /\ landed' = landed \cup {d}
  /\ UNCHANGED <<operator, records, receipts, jobs, expired, pass>>

OtherCommit ==
  /\ head < MaxHead
  /\ head' = head + 1
  /\ UNCHANGED <<operator, records, receipts, jobs, sent, landed, expired, pass>>

\* A clock that runs and that somebody still reads.
Running(c) == CASE c = "approval" -> /\ "satisfied" \in decided
                                     /\ op["promote"] \notin {"blocked", "succeeded"}
                [] c = "rollback" -> bound
                [] OTHER -> op[c] \in {"pending", "running"}

Expire(c) ==
  /\ Running(c) /\ c \notin expired
  /\ expired' = expired \cup {c}
  /\ UNCHANGED <<operator, records, receipts, jobs, github, pass>>

Interrupt ==
  /\ pass # "none"
  /\ pass' = "none"
  /\ UNCHANGED <<operator, records, receipts, jobs, github, expired>>
-----------------------------------------------------------------------------
Handler == DecideGate \/ DecideDeployment

Reconcile ==
  \/ \E o \in Ops : \/ Begin(o) \/ ReleasePending(o) \/ Start(o) \/ Dispatch(o)
                    \/ RecordWindow(o) \/ BlockInconclusive(o)
                    \/ \E v \in {"passed", "failed", "inconclusive"} :
                         CloseWindow(o, v)
  \/ \E d \in Deliveries : CreateWriter(d) \/ BlockUnadmitted(d)
  \/ BlockUnconfirmed \/ DispatchReader \/ CreateReader
  \/ BindRollback \/ DispatchRollback
  \/ \E r \in {"verified", "unverified"} : FinishRollback(r)
  \/ SettleRollback \/ Complete

Next ==
  \/ \E c \in {"active", "paused", "cancelled"} : SetControl(c)
  \/ \E s \in Decisions : Decide(s)
  \/ Handler \/ Reconcile
  \/ PostPlan
  \/ \E d \in Deliveries :
       \/ Ask(d) \/ Watch(d) \/ Attempt(d) \/ AttemptOrphan(d) \/ Send(d)
       \/ Report(d) \/ WriterEnds(d) \/ CollectJob(d) \/ Outcome(d) \/ Apply(d)
  \/ ReaderEnds \/ OtherCommit \/ Interrupt
  \/ \E c \in Clocks : Expire(c)

Spec == Init /\ [][Next]_vars

\* The reconciler keeps running, a handler ends and the clock moves.
Fairness ==
  /\ WF_vars(Handler) /\ WF_vars(Reconcile)
  /\ WF_vars(Expire("rollback"))

FairSpec == Spec /\ Fairness
-----------------------------------------------------------------------------
TypeOK ==
  /\ control \in {"active", "paused", "cancelled"}
  /\ gate \in {"pending"} \cup Decisions
  /\ decided \subseteq Decisions
  /\ deployment \in {"proposed", "approved", "rejected"}
  /\ op \in [Ops -> {"none", "pending", "running", "blocked", "succeeded"}]
  /\ locks \subseteq Ops
  /\ dispatched \subseteq Ops \cup {"reader", "rollback"}
  /\ bound \in BOOLEAN
  /\ base \in [Deliveries -> Int]
  /\ attempt \subseteq Deliveries /\ commit \subseteq Deliveries
  /\ window \in [Ops -> {"none", "passed", "failed", "inconclusive"}]
  /\ projected \subseteq Ops
  /\ result \in {"none", "verified", "unverified"}
  /\ item \in {"open", "completed", "failed"}
  /\ expired \subseteq Clocks
  /\ pass \in {"none", "intent", "reader", "rollback"} \cup Decisions
  /\ writer \in [Deliveries -> {"absent", "started", "asking", "granted",
                                "observing", "ended"}]
  /\ orphans \in [Deliveries -> Nat]
  /\ reader \in {"absent", "active", "ended"}
  /\ sent \subseteq Deliveries /\ reports \subseteq Deliveries
  /\ made \in [Deliveries -> Nat]
  /\ head \in Nat /\ landed \subseteq Deliveries

\* A write of delivery d can still reach the branch.
InFlight(d) == d \in sent \/ writer[d] = "granted"

\* A write leaves its traces in order: admitted under a recorded dispatch and
\* plan, then sent once, then on the branch, then reported and receipted.
Traces ==
  \A d \in Deliveries :
    /\ d \in attempt => d \in dispatched /\ base[d] # Unplanned
    /\ d \in landed \/ InFlight(d) => d \in attempt
    /\ writer[d] = "granted" => d \notin sent \cup landed
    /\ d \in sent => d \notin landed
    /\ d \in reports \cup commit => d \in landed

\* Nothing starts before the gate is satisfied, which is decided once.
Gated ==
  /\ pass \in Decisions => gate = "pending"
  /\ op["promote"] # "none" => gate = "satisfied"
  /\ \A o \in Ops : o \in dispatched => op[o] \notin {"none", "pending"}

\* Windows follow the receipt, success follows a passed window.
Windows ==
  /\ window["promote"] # "none" => "promote" \in commit
  /\ \A o \in Ops :
       /\ window[o] # "none" => op[o] \notin {"none", "pending"}
       /\ op[o] = "succeeded" => window[o] = "passed"
  /\ op["observe"] # "none" => op["promote"] = "succeeded"
  /\ op["promote"] = "blocked" /\ window["promote"] = "none" =>
       "promote" \notin attempt

\* A rollback belongs to the one operation whose window failed.
RollbackOwned ==
  LET o == Owner("rollback") IN
  /\ "rollback" \in dispatched =>
       window[o] = "failed" /\ op[o] \in {"running", "blocked"}
  /\ pass = "rollback" => window[o] = "failed" /\ op[o] = "running"
  /\ result # "none" => "rollback" \in commit /\ op[o] = "blocked"

Ending ==
  /\ \A o \in Ops : op[o] \in {"running", "blocked"} => o \in locks
  /\ item = "completed" => op["observe"] = "succeeded"
  /\ item = "failed" => result = "verified"

IInv == TypeOK /\ Traces /\ Gated /\ Windows /\ RollbackOwned /\ Ending

\* A change that is on the branch or can still get there, and that no runtime
\* window has judged, belongs to a running promotion with its locks, in an open
\* WorkItem: whatever happens to the writer, the one reader and the clocks, it is
\* not given up (delivery::reconcile blocks only what was not admitted), nothing
\* is delivered on top of it and a late report still finds its operation.
UnjudgedReleaseStaysOpen ==
  ("promote" \in landed \/ InFlight("promote")) /\ window["promote"] = "none" =>
    op["promote"] = "running" /\ "promote" \in locks /\ item = "open"

\* While a commit may still reach the branch, the operation it belongs to
\* holds the GitOps and production locks, also when it was blocked meanwhile:
\* no other delivery is admitted under an unsettled write
\* (record_workflow_operation frees the locks of a succeeded operation only).
WritesAreLocked == \A d \in Deliveries : InFlight(d) => Owner(d) \in locks

\* What the records say of the end is what production runs: without a
\* satisfied gate nothing is released, a completed WorkItem leaves the
\* candidate and a failed one the previous image, with no write under way.
ProductionMatchesTheRecord ==
  /\ gate # "satisfied" => landed = {} /\ \A d \in Deliveries : ~InFlight(d)
  /\ item = "completed" =>
       Image = "candidate" /\ \A d \in Deliveries : ~InFlight(d)
  /\ item = "failed" =>
       "rollback" \in landed /\ \A d \in Deliveries : ~InFlight(d)

\* The promotion was blocked before any window judged it.
GivenUp == op["promote"] = "blocked" /\ window["promote"] = "none"

Contract == INSTANCE ReleaseContract
  WITH image <- IF "rollback" \in landed THEN "restored"
                ELSE IF "promote" \in landed THEN "candidate" ELSE "previous",
       verdict <- window, givenUp <- GivenUp

\* Reconciler, operator, Jobs, callbacks and GitHub together keep the release
\* contract, whatever is lost, late, repeated or cut: one release under an
\* approved gate, judged while it runs, taken back only after a failed window,
\* and a WorkItem that ends on what production runs.
KeepsTheReleaseContract == Contract!Spec

\* An admitted release is followed up, also while the workflow is stopped: once
\* its writer is gone, its commit is receipted or its one reader is dispatched,
\* unless the operation ran out of time first; and a receipted commit is judged
\* by a runtime window.  The reader may then be cut before its Job exists, or end
\* before the commit lands: nobody else looks (delivery.rs:587-613).
AdmittedReleaseIsFollowedUp ==
  /\ "promote" \in attempt \ commit /\ Ended("promote")
       ~> "promote" \in commit \/ "reader" \in dispatched \/ "promote" \in expired
  /\ "promote" \in commit ~> window["promote"] # "none"

\* A pass was cut between naming the rollback authority in the intent and
\* recording its dispatch: no later pass can repeat it.
Wedged == bound /\ "rollback" \notin dispatched /\ pass = "none"

\* A failed window is answered: unless control is stopped first (reconcile at
\* rollback.rs:167 then waits) or the preparation was cut, its operation ends
\* blocked with the rollback's outcome and a verified rollback fails the WorkItem,
\* whatever happens to the writer (rollback::after_window, settle_blocked).
RegressionIsAnswered ==
  \A o \in Ops :
    op[o] = "running" /\ window[o] = "failed" ~>
      \/ op[o] = "blocked" /\ (result = "verified" => item = "failed")
      \/ "rollback" \notin dispatched /\ (control # "active" \/ Wedged)
=============================================================================
