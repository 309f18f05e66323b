----------------------------- MODULE CampusLab -----------------------------
(***************************************************************************)
(* Campus lab sessions: the journal of sessions, slots and provider        *)
(* operations, the reconciler that steps each session, and the contract    *)
(* of the execution provider it calls.                                     *)
(*                                                                         *)
(* One step of a worker is one journal transaction or one provider call.   *)
(* A worker is the reconciler task of one API process; it takes one `now`  *)
(* per sweep, and lag is how far that is behind the clock.  Clocks are     *)
(* relative: left is expires_at - clock, until is lease_expires_at -       *)
(* clock, retry is retry_at - clock, so x > now reads x + lag > 0.         *)
(*                                                                         *)
(* A session takes a slot at most once, so a session is also its workload  *)
(* (session, slot, slot generation), and of its operations only the one    *)
(* begun last can be pending.                                              *)
(***************************************************************************)
EXTENDS Integers, FiniteSets

CONSTANTS
    Sessions,       \* lab sessions that may be admitted
    Slots,          \* slot ids, in the order they are handed out
    Workers,        \* reconcilers; the chart runs one API process
    Nil,            \* SQL NULL
    LeaseTicks,     \* LEASE_SECONDS (120 s)
    LifeTicks,      \* a session's time to its absolute expiry
    BackoffTicks,   \* bound: the longest wait before a cleanup retry
    MaxLag,         \* bound: how far a sweep's `now` falls behind
    MaxFaults       \* bound: crashes, failed calls and lost workspaces

ASSUME CampusAssumption ==
    /\ Slots \subseteq Nat
    /\ LeaseTicks \in Nat \ {0}
    /\ LifeTicks \in Nat \ {0}
    /\ BackoffTicks \in Nat \ {0}
    /\ MaxLag \in Nat
    /\ MaxFaults \in Nat
    /\ Nil \notin Sessions
    /\ Nil \notin Workers
    /\ Nil \notin Slots

VARIABLES
    lab,        \* campus_sessions_journal
    slot,       \* campus_lab_slots: occupant and occupancy generation
    held,       \* slots with an active hold
    op,         \* campus_session_operations: the one begun last
    left,       \* expires_at of each session
    until,      \* lease_expires_at of each operation
    retry,      \* when a blocked cleanup is due again
    res,        \* sessions whose workload has provider resources
    fenced,     \* sessions whose workload the provider was told to delete
    stray,      \* provision requests that outlive the worker that sent them
    pc,         \* where each worker is in its step
    phase,      \* which list its sweep is at
    todo,       \* the sessions its list still names
    settled,    \* the sessions it settled as expired
    cur,        \* the session row as the worker loaded it
    lease,      \* the operation lease it holds: operation generation and fence
    ans,        \* the provider's answer
    lag,        \* clock - the `now` of its sweep
    faults

vars == <<lab, slot, held, op, left, until, retry, res, fenced, stray,
          pc, phase, todo, settled, cur, lease, ans, lag, faults>>
journal == <<lab, slot, op, left, until, retry>>
provider == <<res, fenced, stray>>
worker == <<pc, phase, todo, settled, cur, lease, ans, lag>>

-----------------------------------------------------------------------------
HoldsSlot == {"provisioning", "ready", "stopping", "cleaning", "cleanup_blocked"}
Terminal  == {"terminated", "failed"}
States    == {"none", "requested", "authorizing"} \cup HoldsSlot \cup Terminal
Answers   == {"none", "ready", "rejected", "in_progress", "error", "lost", "fine",
              "deleted", "blocked", "confirmed"}

NoCopy  == [session |-> Nil, state |-> "none", gen |-> 0, stopping |-> FALSE,
            retry |-> FALSE]
NoLease == [gen |-> 0, fence |-> 0]

Goto(w, step) == pc' = [pc EXCEPT ![w] = step]

\* The step ended with Advanced: settle steps the same session again.
Advanced(w) ==
    /\ Goto(w, "settle")
    /\ lease' = [lease EXCEPT ![w] = NoLease]
    /\ ans' = [ans EXCEPT ![w] = "none"]
    /\ UNCHANGED <<phase, todo, settled, cur, lag>>

\* Any other outcome: the sweep moves on.
Settled(w) ==
    /\ Goto(w, "sweep")
    /\ todo' = [todo EXCEPT ![w] = @ \ {cur[w].session}]
    /\ cur' = [cur EXCEPT ![w] = NoCopy]
    /\ lease' = [lease EXCEPT ![w] = NoLease]
    /\ ans' = [ans EXCEPT ![w] = "none"]
    /\ UNCHANGED <<phase, settled, lag>>

-----------------------------------------------------------------------------
\* The journal.

\* Mutant: the row is updated by its id alone.
CurrentAlways(w) == TRUE

\* The compare-and-set of transition_campus_lab_session.
Current(w) ==
    LET s == cur[w].session
    IN  lab[s].gen = cur[w].gen /\ lab[s].state = cur[w].state

\* ensure_slot_occupant.
Occupies(s) ==
    /\ lab[s].slot # Nil
    /\ slot[lab[s].slot].occupant = s
    /\ slot[lab[s].slot].gen = lab[s].slotGen

\* The copy is next for Cleaning: a stopped session, or a retried blocked one.
CleansNext(w) ==
    \/ cur[w].state = "stopping" /\ ~cur[w].retry
    \/ cur[w].state = "cleanup_blocked" /\ cur[w].retry

Expired(w, s) == left[s] + lag[w] <= 0

\* The lease on the pending operation is live, at the sweep's `now`.
LeaseLive(w, s) == op[s].owner # Nil /\ until[s] + lag[w] > 0

\* The state change of one transition: generation + 1; leaving for Stopping
\* revokes and drops the wish to run.
Move(s, to) == [lab EXCEPT ![s].state = to, ![s].gen = @ + 1]
Revoke(s) == [lab EXCEPT ![s].state = "stopping", ![s].gen = @ + 1, ![s].stop = TRUE]
RevokeFailed(s) == [lab EXCEPT ![s].state = "stopping", ![s].gen = @ + 1,
                               ![s].stop = TRUE, ![s].failed = TRUE]

\* An operation begins in the transaction of its transition, leased to the
\* worker at the sweep's `now`.
Begins(w, s, kind) ==
    /\ op' = [op EXCEPT ![s] = [kind |-> kind, gen |-> lab[s].gen + 1,
                                status |-> "pending", owner |-> w, fence |-> 1]]
    /\ until' = [until EXCEPT ![s] = LeaseTicks - lag[w]]
    /\ lease' = [lease EXCEPT ![w] = [gen |-> lab[s].gen + 1, fence |-> 1]]

\* Mutant: any worker completes the pending operation.
HoldsAnyLease(w, s) ==
    /\ op[s].gen = lab[s].gen
    /\ op[s].status = "pending"
    /\ Occupies(s)

\* complete_operation: only under the latest live lease of the operation of
\* this generation.
HoldsLease(w, s) ==
    /\ op[s].gen = lease[w].gen
    /\ op[s].gen = lab[s].gen
    /\ op[s].status = "pending"
    /\ op[s].owner = w
    /\ op[s].fence = lease[w].fence
    /\ until[s] + lag[w] > 0
    /\ Occupies(s)

Completes(s, status) == op' = [op EXCEPT ![s].status = status, ![s].owner = Nil]

-----------------------------------------------------------------------------
\* The sweep.

Steppable(s) == lab[s].state \notin Terminal \cup {"none", "cleanup_blocked"}

\* reconcile reads `now` once and lists three times: the expired sessions, the
\* other steppable ones, and the blocked ones whose backoff ran out.
BeginSweep(w) ==
    /\ pc[w] = "idle"
    /\ Goto(w, "sweep")
    /\ phase' = [phase EXCEPT ![w] = "expired"]
    /\ todo' = [todo EXCEPT ![w] = {s \in Sessions : Steppable(s) /\ left[s] <= 0}]
    /\ settled' = [settled EXCEPT ![w] = todo'[w]]
    /\ UNCHANGED <<journal, held, provider, cur, lease, ans, lag, faults>>

ListSteppable(w) ==
    /\ pc[w] = "sweep" /\ phase[w] = "expired" /\ todo[w] = {}
    /\ phase' = [phase EXCEPT ![w] = "steppable"]
    /\ todo' = [todo EXCEPT ![w] = {s \in Sessions : Steppable(s) /\ s \notin settled[w]}]
    /\ settled' = [settled EXCEPT ![w] = {}]
    /\ UNCHANGED <<journal, held, provider, pc, cur, lease, ans, lag, faults>>

ListBlocked(w) ==
    /\ pc[w] = "sweep" /\ phase[w] = "steppable" /\ todo[w] = {}
    /\ phase' = [phase EXCEPT ![w] = "blocked"]
    /\ todo' = [todo EXCEPT ![w] =
          {s \in Sessions : lab[s].state = "cleanup_blocked" /\ retry[s] + lag[w] <= 0}]
    /\ UNCHANGED <<journal, held, provider, pc, settled, cur, lease, ans, lag, faults>>

EndSweep(w) ==
    /\ pc[w] = "sweep" /\ phase[w] = "blocked" /\ todo[w] = {}
    /\ Goto(w, "idle")
    /\ lag' = [lag EXCEPT ![w] = 0]
    /\ UNCHANGED <<journal, held, provider, phase, todo, settled, cur, lease, ans, faults>>

\* Mutant: the expiry is only acted on for a session that is ready.
EndsWhenReady(w, s) == ~lab[s].stop /\ lab[s].state = "ready" /\ Expired(w, s)

\* Past its expiry a session is asked to stop before it is stepped.
Ends(w, s) == ~lab[s].stop /\ lab[s].state \notin Terminal /\ Expired(w, s)

Loads(w, s, stopping, retries) ==
    /\ cur' = [cur EXCEPT ![w] = [session |-> s, state |-> lab[s].state, gen |-> lab[s].gen,
                                  stopping |-> stopping, retry |-> retries]]
    /\ Goto(w, "loaded")
    /\ UNCHANGED <<slot, op, left, until, retry, held, provider, phase, todo, settled,
                   lease, ans, lag, faults>>

\* advance_campus_lab_session loads the session; again after each step of settle.
Load(w, s) ==
    /\ \/ pc[w] = "sweep" /\ s \in todo[w] /\ phase[w] # "blocked"
       \/ pc[w] = "settle" /\ s = cur[w].session
    /\ lab' = [lab EXCEPT ![s].stop = @ \/ Ends(w, s)]
    /\ Loads(w, s, lab[s].stop \/ Ends(w, s), FALSE)

\* retry_campus_lab_cleanup loads it too, whatever its backoff says by now.
LoadBlocked(w, s) ==
    /\ pc[w] = "sweep" /\ s \in todo[w] /\ phase[w] = "blocked"
    /\ Loads(w, s, lab[s].stop, TRUE)
    /\ UNCHANGED lab

\* The copy is terminal or quarantined, or a retry found its cleanup under way.
NothingToDo(w) ==
    /\ pc[w] = "loaded"
    /\ \/ cur[w].state \in Terminal
       \/ (cur[w].state = "cleanup_blocked") # cur[w].retry
    /\ Settled(w)
    /\ UNCHANGED <<journal, held, provider, faults>>

\* The session, or its slot, moved on since it was loaded: Fenced.
StaleCopy(w) ==
    /\ pc[w] = "loaded"
    /\ \/ /\ cur[w].state \in {"requested", "authorizing"}
          /\ ~Current(w)
       \/ /\ cur[w].state \in {"provisioning", "ready"}
          /\ cur[w].stopping
          /\ ~Current(w)
       \/ /\ CleansNext(w)
          /\ ~(Current(w) /\ Occupies(cur[w].session))
    /\ Settled(w)
    /\ UNCHANGED <<journal, held, provider, faults>>

\* Requested -> Authorizing, or either straight to Terminated.
StartOrDrop(w) ==
    LET s == cur[w].session
    IN  /\ pc[w] = "loaded"
        /\ Current(w)
        /\ \/ /\ cur[w].state = "requested"
              /\ ~cur[w].stopping
              /\ lab' = Move(s, "authorizing")
           \/ /\ cur[w].state \in {"requested", "authorizing"}
              /\ cur[w].stopping
              /\ lab' = [Move(s, "terminated") EXCEPT ![s].stop = TRUE]
        /\ Advanced(w)
        /\ UNCHANGED <<slot, op, left, until, retry, held, provider, faults>>

\* Mutant: an occupied slot counts as free.
FreeSlotsOccupied == Slots \ held

FreeSlots == {k \in Slots : slot[k].occupant = Nil /\ k \notin held}

\* Mutant: a stop that arrives after the load is not seen.
MayLaunchAnyway(w, s) == TRUE

MayLaunch(w, s) == ~lab[s].stop /\ ~Expired(w, s)

\* Authorizing -> Provisioning: the lowest free slot and the operation, in one
\* transaction.
Admit(w) ==
    LET s == cur[w].session
    IN  /\ pc[w] = "loaded"
        /\ cur[w].state = "authorizing"
        /\ ~cur[w].stopping
        /\ Current(w)
        /\ MayLaunch(w, s)
        /\ \E k \in FreeSlots :
            /\ \A j \in FreeSlots : k <= j
            /\ slot' = [slot EXCEPT ![k] = [occupant |-> s, gen |-> @.gen + 1]]
            /\ lab' = [Move(s, "provisioning") EXCEPT ![s].slot = k,
                                                      ![s].slotGen = slot[k].gen + 1]
        /\ Begins(w, s, "provision")
        /\ cur' = [cur EXCEPT ![w].state = "provisioning", ![w].gen = @ + 1]
        /\ Goto(w, "provision")
        /\ UNCHANGED <<left, retry, held, provider, phase, todo, settled, ans, lag, faults>>

\* No free slot, or a stop or the expiry came first.
AdmitWaits(w) ==
    LET s == cur[w].session
    IN  /\ pc[w] = "loaded"
        /\ cur[w].state = "authorizing"
        /\ ~cur[w].stopping
        /\ Current(w)
        /\ ~MayLaunch(w, s) \/ FreeSlots = {}
        /\ Settled(w)
        /\ UNCHANGED <<journal, held, provider, faults>>

\* Provisioning -> Stopping on a stop: a provision nobody holds a live lease on
\* is abandoned.
AbandonProvision(w) ==
    LET s == cur[w].session
    IN  /\ pc[w] = "loaded"
        /\ cur[w].state = "provisioning"
        /\ cur[w].stopping
        /\ Current(w)
        /\ IF LeaseLive(w, s)
           THEN Settled(w) /\ UNCHANGED <<lab, op>>
           ELSE Advanced(w) /\ lab' = Revoke(s) /\ Completes(s, "abandoned")
        /\ UNCHANGED <<slot, left, until, retry, held, provider, faults>>

\* The operation kind each state waits for.
WaitsFor(state) == IF state = "provisioning" THEN "provision" ELSE "delete"

\* Mutant: a lease is taken over while it is live.
TakeOver(w, s) ==
    /\ op[s].status = "pending"
    /\ op[s].gen = lab[s].gen
    /\ Occupies(s)

\* lease_campus_lab_operation.
MayLease(w, s) ==
    /\ op[s].status = "pending"
    /\ ~LeaseLive(w, s)
    /\ op[s].gen = lab[s].gen
    /\ Occupies(s)

\* Lease the pending operation, whichever generation of the session began it.
Lease(w) ==
    LET s == cur[w].session
        k == WaitsFor(cur[w].state)
    IN  /\ pc[w] = "loaded"
        /\ \/ cur[w].state = "cleaning" /\ ~cur[w].retry
           \/ cur[w].state = "provisioning" /\ ~cur[w].stopping
        /\ IF op[s].kind = k /\ MayLease(w, s)
           THEN /\ op' = [op EXCEPT ![s].owner = w, ![s].fence = @ + 1]
                /\ until' = [until EXCEPT ![s] = LeaseTicks - lag[w]]
                /\ lease' = [lease EXCEPT ![w] = [gen |-> op[s].gen, fence |-> op[s].fence + 1]]
                /\ Goto(w, k)
                /\ UNCHANGED <<phase, todo, settled, cur, ans, lag>>
           ELSE Settled(w) /\ UNCHANGED <<op, until>>
        /\ UNCHANGED <<lab, slot, left, retry, held, provider, faults>>

\* Ready: stop it, or look at it.
StopReady(w) ==
    /\ pc[w] = "loaded"
    /\ cur[w].state = "ready"
    /\ cur[w].stopping
    /\ Current(w)
    /\ lab' = Revoke(cur[w].session)
    /\ Advanced(w)
    /\ UNCHANGED <<slot, op, left, until, retry, held, provider, faults>>

Observe(w) ==
    /\ pc[w] = "loaded"
    /\ cur[w].state = "ready"
    /\ ~cur[w].stopping
    /\ Goto(w, "observe")
    /\ UNCHANGED <<journal, held, provider, phase, todo, settled, cur, lease, ans, lag, faults>>

\* Stopping -> Cleaning, and a retried CleanupBlocked -> Cleaning.
Clean(w) ==
    LET s == cur[w].session
    IN  /\ pc[w] = "loaded"
        /\ CleansNext(w)
        /\ Current(w)
        /\ Occupies(s)
        /\ lab' = Move(s, "cleaning")
        /\ Begins(w, s, "delete")
        /\ cur' = [cur EXCEPT ![w].state = "cleaning", ![w].gen = @ + 1]
        /\ Goto(w, "delete")
        /\ UNCHANGED <<slot, left, retry, held, provider, phase, todo, settled, ans, lag, faults>>

-----------------------------------------------------------------------------
\* The provider, by its contract: provision is idempotent and creates nothing
\* for a workload once delete was called for it; Deleted means nothing remains.

\* Mutant: a workload can be provisioned again after its delete.
CanCreateAgain(s) == TRUE

CanCreate(s) == s \notin fenced

Answer(w, a) == ans' = [ans EXCEPT ![w] = a] /\ Goto(w, "answered")

Fault == faults < MaxFaults /\ faults' = faults + 1

\* An error can hide a workspace that was created, or a request that is still
\* on its way.
ProviderProvision(w) ==
    LET s == cur[w].session
    IN  /\ pc[w] = "provision"
        /\ \/ /\ CanCreate(s)
              /\ res' = res \cup {s}
              /\ \/ Answer(w, "ready") /\ UNCHANGED faults
                 \/ \E a \in {"in_progress", "error"} : Answer(w, a) /\ Fault
              /\ UNCHANGED stray
           \/ /\ ~CanCreate(s)
              /\ Answer(w, "rejected")
              /\ UNCHANGED <<res, stray, faults>>
           \/ /\ Answer(w, "rejected")
              /\ Fault
              /\ UNCHANGED <<res, stray>>
           \/ /\ Answer(w, "error")
              /\ Fault
              /\ stray' = stray \cup {s}
              /\ UNCHANGED res
        /\ UNCHANGED <<journal, held, fenced, phase, todo, settled, cur, lease, lag>>

\* Absent or failed is lost; an unreachable provider changes nothing.
ProviderObserve(w) ==
    LET s == cur[w].session
    IN  /\ pc[w] = "observe"
        /\ \/ Answer(w, IF s \in res THEN "fine" ELSE "lost") /\ UNCHANGED faults
           \/ \E a \in {"fine", "lost"} : Answer(w, a) /\ Fault
        /\ UNCHANGED <<journal, held, provider, phase, todo, settled, cur, lease, lag>>

\* A delete that does not end well may have fenced the workload or not, and
\* may have removed its resources or not.
ProviderDelete(w) ==
    LET s == cur[w].session
    IN  /\ pc[w] = "delete"
        /\ \/ /\ Answer(w, "deleted")
              /\ fenced' = fenced \cup {s}
              /\ res' = res \ {s}
              /\ UNCHANGED faults
           \/ /\ \E a \in {"in_progress", "blocked", "error"} : Answer(w, a)
              /\ Fault
              /\ fenced' \in {fenced, fenced \cup {s}}
              /\ res' \in IF s \in fenced' THEN {res, res \ {s}} ELSE {res}
        /\ UNCHANGED <<journal, held, stray, phase, todo, settled, cur, lease, lag>>

\* confirm_teardown: the inventory, then the hooks.
ConfirmTeardown(w) ==
    LET s == cur[w].session
    IN  /\ pc[w] = "answered"
        /\ ans[w] = "deleted"
        /\ \/ Answer(w, IF s \in res THEN "in_progress" ELSE "confirmed") /\ UNCHANGED faults
           \/ \E a \in {"in_progress", "blocked"} : Answer(w, a) /\ Fault
        /\ UNCHANGED <<journal, held, provider, phase, todo, settled, cur, lease, lag>>

-----------------------------------------------------------------------------
\* Recording the answer, under the generation and the lease.

\* Provisioning -> Ready, or -> Stopping when the launch was rejected.
RecordProvisioned(w) ==
    LET s == cur[w].session
    IN  /\ pc[w] = "answered"
        /\ cur[w].state = "provisioning"
        /\ ans[w] \in {"ready", "rejected"}
        /\ IF Current(w) /\ HoldsLease(w, s)
           THEN /\ IF ans[w] = "ready"
                   THEN lab' = Move(s, "ready") /\ Completes(s, "succeeded")
                   ELSE lab' = RevokeFailed(s) /\ Completes(s, "failed")
                /\ Advanced(w)
           ELSE Settled(w) /\ UNCHANGED <<lab, op>>
        /\ UNCHANGED <<slot, left, until, retry, held, provider, faults>>

\* A lost workspace stops the session; anything else is only noted.
RecordObserved(w) ==
    /\ pc[w] = "answered"
    /\ cur[w].state = "ready"
    /\ IF ans[w] = "lost" /\ Current(w)
       THEN lab' = RevokeFailed(cur[w].session) /\ Advanced(w)
       ELSE Settled(w) /\ UNCHANGED lab
    /\ UNCHANGED <<slot, op, left, until, retry, held, provider, faults>>

\* release_slot.
ReleaseSlot(s) == slot' = [slot EXCEPT ![lab[s].slot].occupant = Nil]

\* campus_cleanup_retry_at: 30 s, doubled by each blocked attempt, at most 600 s.
RetryWaits == 1..BackoffTicks

\* Cleaning -> Terminated or Failed, freeing the slot, or -> CleanupBlocked.
RecordDeleted(w) ==
    LET s == cur[w].session
    IN  /\ pc[w] = "answered"
        /\ cur[w].state = "cleaning"
        /\ ans[w] \in {"confirmed", "blocked"}
        /\ IF Current(w) /\ HoldsLease(w, s)
           THEN /\ IF ans[w] = "confirmed"
                   THEN /\ lab' = Move(s, IF lab[s].failed THEN "failed" ELSE "terminated")
                        /\ Completes(s, "succeeded")
                        /\ ReleaseSlot(s)
                        /\ UNCHANGED retry
                   ELSE /\ lab' = Move(s, "cleanup_blocked")
                        /\ Completes(s, "blocked")
                        /\ \E b \in RetryWaits :
                             retry' = [retry EXCEPT ![s] = b - lag[w]]
                        /\ UNCHANGED slot
                /\ Advanced(w)
           ELSE Settled(w) /\ UNCHANGED <<lab, op, slot, retry>>
        /\ UNCHANGED <<left, until, held, provider, faults>>

\* release_campus_lab_operation_lease after an inconclusive call: by owner and
\* fence, whatever the expiry.  A retried cleanup is settled after it.
ReleaseLease(w) ==
    LET s == cur[w].session
    IN  /\ pc[w] = "answered"
        /\ ans[w] \in {"in_progress", "error"}
        /\ op' = IF /\ op[s].gen = lease[w].gen
                    /\ op[s].status = "pending"
                    /\ op[s].owner = w
                    /\ op[s].fence = lease[w].fence
                 THEN [op EXCEPT ![s].owner = Nil]
                 ELSE op
        /\ IF cur[w].retry THEN Advanced(w) ELSE Settled(w)
        /\ UNCHANGED <<lab, slot, left, until, retry, held, provider, faults>>

-----------------------------------------------------------------------------
\* Faults, requests and the clock.

\* The store fails: the sweep goes on, the lease stays.
StepFails(w) ==
    /\ Fault
    /\ pc[w] \notin {"idle", "sweep"}
    /\ Settled(w)
    /\ UNCHANGED <<journal, held, provider>>

\* The process dies and restarts under a new worker id; a request it sent may
\* still arrive.
Crash(w) ==
    /\ Fault
    /\ pc[w] # "idle"
    /\ Goto(w, "idle")
    /\ stray' \in IF pc[w] = "provision" THEN {stray, stray \cup {cur[w].session}}
                  ELSE {stray}
    /\ todo' = [todo EXCEPT ![w] = {}]
    /\ settled' = [settled EXCEPT ![w] = {}]
    /\ cur' = [cur EXCEPT ![w] = NoCopy]
    /\ lease' = [lease EXCEPT ![w] = NoLease]
    /\ ans' = [ans EXCEPT ![w] = "none"]
    /\ lag' = [lag EXCEPT ![w] = 0]
    /\ UNCHANGED <<journal, held, res, fenced, phase>>

StrayProvision(s) ==
    /\ s \in stray
    /\ stray' = stray \ {s}
    /\ res' = IF CanCreate(s) THEN res \cup {s} ELSE res
    /\ UNCHANGED <<journal, held, fenced, worker, faults>>

LoseWorkspace(s) ==
    /\ Fault
    /\ s \in res
    /\ res' = res \ {s}
    /\ UNCHANGED <<journal, held, fenced, stray, worker>>

CreateSession(s) ==
    /\ lab[s].state = "none"
    /\ lab' = [lab EXCEPT ![s].state = "requested", ![s].gen = 1]
    /\ left' = [left EXCEPT ![s] = LifeTicks]
    /\ UNCHANGED <<slot, op, until, retry, held, provider, worker, faults>>

\* request_campus_lab_session_stop: the generation stays, so an operation in
\* flight can still record what it did.
RequestStop(s) ==
    /\ lab[s].state \notin Terminal \cup {"none"}
    /\ ~lab[s].stop
    /\ lab' = [lab EXCEPT ![s].stop = TRUE]
    /\ UNCHANGED <<slot, op, left, until, retry, held, provider, worker, faults>>

\* A hold keeps a slot from being handed out; its occupant keeps running.
HoldSlot(k) ==
    /\ k \notin held
    /\ held' = held \cup {k}
    /\ UNCHANGED <<journal, provider, worker, faults>>

ReleaseHold(k) ==
    /\ k \in held
    /\ held' = held \ {k}
    /\ UNCHANGED <<journal, provider, worker, faults>>

\* Below -MaxLag no sweep tells the values apart.
Age(x) == IF x > -MaxLag THEN x - 1 ELSE x

Tick ==
    /\ \A w \in Workers : pc[w] # "idle" => lag[w] < MaxLag
    /\ left' = [s \in Sessions |-> Age(left[s])]
    /\ until' = [s \in Sessions |-> Age(until[s])]
    /\ retry' = [s \in Sessions |-> Age(retry[s])]
    /\ lag' = [w \in Workers |-> IF pc[w] # "idle" THEN lag[w] + 1 ELSE lag[w]]
    /\ UNCHANGED <<lab, slot, op, held, provider, pc, phase, todo, settled, cur, lease, ans, faults>>

-----------------------------------------------------------------------------
Init ==
    /\ lab = [s \in Sessions |-> [state |-> "none", stop |-> FALSE, gen |-> 0,
                                  slot |-> Nil, slotGen |-> 0, failed |-> FALSE]]
    /\ slot = [k \in Slots |-> [occupant |-> Nil, gen |-> 0]]
    /\ held = {}
    /\ op = [s \in Sessions |-> [kind |-> "none", gen |-> 0, status |-> "none",
                                 owner |-> Nil, fence |-> 0]]
    /\ left = [s \in Sessions |-> -MaxLag]
    /\ until = [s \in Sessions |-> -MaxLag]
    /\ retry = [s \in Sessions |-> -MaxLag]
    /\ res = {} /\ fenced = {} /\ stray = {}
    /\ pc = [w \in Workers |-> "idle"]
    /\ phase = [w \in Workers |-> "expired"]
    /\ todo = [w \in Workers |-> {}]
    /\ settled = [w \in Workers |-> {}]
    /\ cur = [w \in Workers |-> NoCopy]
    /\ lease = [w \in Workers |-> NoLease]
    /\ ans = [w \in Workers |-> "none"]
    /\ lag = [w \in Workers |-> 0]
    /\ faults = 0

\* What the reconciler does by itself.
Reconcile(w) ==
    \/ BeginSweep(w) \/ ListSteppable(w) \/ ListBlocked(w) \/ EndSweep(w)
    \/ \E s \in Sessions : Load(w, s) \/ LoadBlocked(w, s)
    \/ NothingToDo(w) \/ StaleCopy(w) \/ StartOrDrop(w)
    \/ Admit(w) \/ AdmitWaits(w) \/ AbandonProvision(w) \/ Lease(w)
    \/ StopReady(w) \/ Observe(w) \/ Clean(w)
    \/ ProviderProvision(w) \/ ProviderObserve(w) \/ ProviderDelete(w)
    \/ ConfirmTeardown(w)
    \/ RecordProvisioned(w) \/ RecordObserved(w) \/ RecordDeleted(w) \/ ReleaseLease(w)

Next ==
    \/ \E w \in Workers : Reconcile(w) \/ StepFails(w) \/ Crash(w)
    \/ \E s \in Sessions : StrayProvision(s) \/ LoseWorkspace(s) \/ CreateSession(s)
                           \/ RequestStop(s)
    \/ \E k \in Slots : HoldSlot(k) \/ ReleaseHold(k)
    \/ Tick

\* The reconciler task sweeps until its process exits and restarts with it;
\* time passes.
Fairness ==
    /\ \A w \in Workers : WF_vars(Reconcile(w))
    /\ WF_vars(Tick)

Spec == Init /\ [][Next]_vars /\ Fairness

-----------------------------------------------------------------------------
\* Properties.

LabRows == [state : States, stop : BOOLEAN, gen : Nat, slot : Slots \cup {Nil},
            slotGen : Nat, failed : BOOLEAN]
SlotRows == [occupant : Sessions \cup {Nil}, gen : Nat]
OpRows == [kind : {"none", "provision", "delete"}, gen : Nat,
           status : {"none", "pending", "succeeded", "failed", "blocked", "abandoned"},
           owner : Workers \cup {Nil}, fence : Nat]
Copies == [session : Sessions \cup {Nil}, state : States, gen : Nat, stopping : BOOLEAN,
           retry : BOOLEAN]
Steps == {"idle", "sweep", "settle", "loaded", "provision", "observe", "delete", "answered"}

JournalTypeOK ==
    /\ lab \in [Sessions -> LabRows]
    /\ slot \in [Slots -> SlotRows]
    /\ held \subseteq Slots
    /\ op \in [Sessions -> OpRows]
    /\ left \in [Sessions -> Int]
    /\ until \in [Sessions -> Int]
    /\ retry \in [Sessions -> Int]

ProviderTypeOK ==
    /\ res \subseteq Sessions
    /\ fenced \subseteq Sessions
    /\ stray \subseteq Sessions
    /\ faults \in 0..MaxFaults

WorkerTypeOK ==
    /\ pc \in [Workers -> Steps]
    /\ phase \in [Workers -> {"expired", "steppable", "blocked"}]
    /\ todo \in [Workers -> SUBSET Sessions]
    /\ settled \in [Workers -> SUBSET Sessions]
    /\ cur \in [Workers -> Copies]
    /\ lease \in [Workers -> [gen : Nat, fence : Nat]]
    /\ ans \in [Workers -> Answers]
    /\ lag \in [Workers -> Nat]

\* The journal, the provider and each worker's step are well formed, and a
\* worker in the middle of a step knows its session.
TypeOK ==
    /\ JournalTypeOK
    /\ ProviderTypeOK
    /\ WorkerTypeOK
    /\ \A w \in Workers : pc[w] \notin {"idle", "sweep"} => cur[w].session \in Sessions

\* The two tables never disagree on who holds a slot: a session in a state that
\* holds one is its occupant at its own occupancy generation, and an occupant is
\* such a session (transition_campus_lab_session writes both under its
\* compare-and-set).
SlotsAgree ==
    /\ \A s \in Sessions : lab[s].state \in HoldsSlot => Occupies(s)
    /\ \A k \in Slots : slot[k].occupant # Nil =>
          /\ lab[slot[k].occupant].state \in HoldsSlot
          /\ lab[slot[k].occupant].slot = k

\* A session has a slot once it was launched, and keeps its number for good.
Launched(s) == lab[s].slot # Nil

\* The provider was told to delete the workload and nothing of it is left.
Gone(s) == s \in fenced /\ s \notin res

\* The inductive invariant: besides the slots, a session that was not launched
\* holds nothing and nobody provisions it; a delete that was answered, and a
\* launched session that ended, leave nothing behind; and no operation is of a
\* later generation than its session.
IInv ==
    /\ TypeOK
    /\ SlotsAgree
    /\ \A s \in Sessions : lab[s].state \in {"none", "requested", "authorizing"} => ~Launched(s)
    /\ \A s \in res \cup stray : Launched(s)
    /\ \A w \in Workers : pc[w] = "provision" => Launched(cur[w].session)
    /\ \A w \in Workers :
          pc[w] = "answered" /\ ans[w] \in {"deleted", "confirmed"} => Gone(cur[w].session)
    /\ \A s \in Sessions : lab[s].state \in Terminal => ~Launched(s) \/ Gone(s)
    /\ \A s \in Sessions : op[s].gen <= lab[s].gen

\* Provider resources exist only for a session that holds its slot: a terminal
\* session has none left and none appear later, whatever provision requests of
\* crashed or timed-out workers are still on their way (CampusLabSessionState,
\* "a terminal state always means the provider confirmed that nothing remains").
ResourcesHoldASlot == \A s \in res : lab[s].state \in HoldsSlot

\* Two students' workloads never share a slot, a slot reused right after a
\* teardown included.
OneWorkloadPerSlot == \A s, t \in res : lab[s].slot = lab[t].slot => s = t

Abstract == INSTANCE LabSlots
    WITH holder <- [k \in Slots |-> slot[k].occupant],
         live <- res,
         gone <- {s \in Sessions : lab[s].state \in Terminal}

\* Journal, workers and provider together implement exclusive lab slots: a
\* workspace starts only in the slot its session holds, and a slot is handed on
\* only when its holder ended and nothing of it is left.
ImplementsLabSlots == Abstract!Spec

\* A stop that arrives before the launch wins against a worker that loaded the
\* session before it: the session never takes a slot.
StoppedNeverLaunches ==
    [][\A s \in Sessions :
          lab[s].stop /\ lab[s].state \in {"requested", "authorizing"}
             => lab'[s].state \in {"requested", "authorizing", "terminated"}]_vars

\* A lease is not taken over, nor the provision under it abandoned, before it
\* ran out on the clock, although each sweep judges by an old `now`: no two
\* workers call the provider for one operation within their leases.
LeasesAreRespected ==
    [][\A s \in Sessions :
          (\/ op'[s].gen = op[s].gen /\ op'[s].fence > op[s].fence
           \/ op[s].status = "pending" /\ op'[s].status = "abandoned")
             => op[s].owner = Nil \/ until[s] <= 0]_vars

\* Every session ends: its absolute expiry stops it, and crashes, failed calls,
\* lost workspaces, held slots and blocked cleanups only delay its teardown.
EverySessionEnds ==
    \A s \in Sessions : lab[s].state # "none" ~> lab[s].state \in Terminal

\* The previous holder of a lease can no longer complete the operation: a worker
\* that was taken over while it waited for the provider records nothing.
SupersededWritesNothing ==
    [][\A w \in Workers :
          LET s == cur[w].session
          IN  /\ pc[w] = "answered"
              /\ pc'[w] # "answered"
              /\ op[s].status = "pending"
              /\ op'[s].status # "pending"
              => op[s].owner = w /\ op[s].fence = lease[w].fence]_vars

\* What campus_driver.rs:16-18 says: "A worker whose lease expired ... has its
\* write rejected".  An operation completes only under a lease that is live on
\* the clock.
ExpiredLeaseWritesNothing ==
    [][\A s \in Sessions :
          op[s].status = "pending" /\ op'[s].status \in {"succeeded", "failed", "blocked"}
             => until[s] > 0]_vars
=============================================================================
