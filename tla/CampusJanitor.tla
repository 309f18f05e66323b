---------------------------- MODULE CampusJanitor ----------------------------
(***************************************************************************)
(* The Campus janitor: every pass lists what the provider owns, compares   *)
(* it with the journal, quarantines the slots with unaccounted workloads,  *)
(* deletes those that stay, lifts its own quarantines and synchronises the *)
(* slots with the configuration.                                           *)
(*                                                                         *)
(* The janitor runs at the end of a sweep, in the task that also launches  *)
(* and ends sessions, so those steps happen between passes; the provider's *)
(* resources change at any time.  That an ended session has resources at   *)
(* all is a provider's failure to keep its contract: CampusProvider shows  *)
(* how a late create leaves some behind.                                   *)
(*                                                                         *)
(* A session takes a slot once, so it is also its workload, and a          *)
(* session's row exists before its workload does: of the reasons for an    *)
(* orphan only TerminalSession arises.                                     *)
(***************************************************************************)
EXTENDS Integers, FiniteSets

CONSTANTS
    Sessions,
    Slots,          \* the slots ever registered
    Nil,
    Grace,          \* CAMPUS_ORPHAN_GRACE_SECONDS, in passes
    MaxFaults,      \* bound: leftovers, failed calls and restarts
    MaxConfigs      \* bound: restarts with other slots configured

ASSUME JanitorAssumption ==
    /\ Grace \in Nat \ {0}
    /\ MaxFaults \in Nat
    /\ MaxConfigs \in Nat
    /\ Nil \notin Sessions \cup Slots

VARIABLES
    state,      \* each session's row: none, up, stopping (until its cleanup is
                \*   confirmed) or ended
    place,      \* the slot it was launched in
    owned,      \* sessions with provider resources
    hold,       \* the active hold of each slot: none, quarantined or retired
    configured, \* the slots the process is configured with
    seen,       \* tracker: passes since an orphan was first seen
    found,      \* the orphans of the pass that classified last
    marked,     \* those of them whose slot it asked to be held
    pc, inventory, left, at, dirty, clean,   \* the pass
    faults, configs

vars == <<state, place, owned, hold, configured, seen, found, marked,
          pc, inventory, left, at, dirty, clean, faults, configs>>
labs == <<state, place>>
pass == <<pc, inventory, left, at, dirty, clean>>
bounds == <<faults, configs>>

Fault == faults < MaxFaults /\ faults' = faults + 1 /\ UNCHANGED configs

-----------------------------------------------------------------------------
\* Sessions and the provider.

FreeSlots ==
    {k \in Slots :
       /\ hold[k] = "none"
       /\ \A s \in Sessions : place[s] = k => state[s] \in {"none", "ended"}}

Launch(s) ==
    /\ pc = "idle"
    /\ state[s] = "none"
    /\ \E k \in FreeSlots : place' = [place EXCEPT ![s] = k]
    /\ state' = [state EXCEPT ![s] = "up"]
    /\ UNCHANGED <<owned, hold, configured, seen, found, marked, pass, bounds>>

Provision(s) ==
    /\ state[s] = "up"
    /\ s \notin owned
    /\ owned' = owned \cup {s}
    /\ UNCHANGED <<labs, hold, configured, seen, found, marked, pass, bounds>>

StopSession(s) ==
    /\ pc = "idle"
    /\ state[s] = "up"
    /\ state' = [state EXCEPT ![s] = "stopping"]
    /\ UNCHANGED <<place, owned, hold, configured, seen, found, marked, pass, bounds>>

DeleteWorkload(s) ==
    /\ state[s] = "stopping"
    /\ s \in owned
    /\ owned' = owned \ {s}
    /\ UNCHANGED <<labs, hold, configured, seen, found, marked, pass, bounds>>

\* Only a confirmed cleanup ends a session.
EndSession(s) ==
    /\ pc = "idle"
    /\ state[s] = "stopping"
    /\ s \notin owned
    /\ state' = [state EXCEPT ![s] = "ended"]
    /\ UNCHANGED <<place, owned, hold, configured, seen, found, marked, pass, bounds>>

Leftover(s) ==
    /\ Fault
    /\ state[s] = "ended"
    /\ s \notin owned
    /\ owned' = owned \cup {s}
    /\ UNCHANGED <<labs, hold, configured, seen, found, marked, pass>>

-----------------------------------------------------------------------------
\* One pass.

Goto(step) == pc' = step

\* Passes are at least JANITOR_INTERVAL_SECONDS apart.
Age(d) == seen' = [s \in Sessions |->
                     IF seen[s] = Nil THEN Nil
                     ELSE IF seen[s] + d > Grace THEN Grace ELSE seen[s] + d]

\* list_owned; without an inventory the pass only synchronises the slots.
ListOwned ==
    /\ pc = "idle"
    /\ \E d \in 1..Grace : Age(d)
    /\ \/ Goto("listed") /\ inventory' = owned /\ UNCHANGED bounds
       \/ Goto("sync") /\ Fault /\ UNCHANGED inventory
    /\ UNCHANGED <<labs, owned, hold, configured, found, marked, left, at, dirty, clean>>

\* Mutant: whatever is not up is unaccounted for.
OrphanUnlessUp(s) == state[s] # "up"

\* find_campus_lab_orphans: the journal is read after the inventory.
Orphan(s) == state[s] = "ended"

Classify ==
    /\ pc = "listed"
    /\ found' = {s \in inventory : Orphan(s)}
    /\ marked' = marked \cap found'
    /\ left' = found'
    /\ dirty' = {place[s] : s \in found'}
    /\ inventory' = {}
    /\ Goto("orphans")
    /\ UNCHANGED <<labs, owned, hold, configured, seen, at, clean, bounds>>

\* Mutant: the slot is held when its orphan is due.
HoldsWhenDue(s) ==
    hold' = IF hold[place[s]] = "none" /\ seen[s] = Grace
            THEN [hold EXCEPT ![place[s]] = "quarantined"] ELSE hold

\* hold_campus_lab_slot: a slot has at most one active hold.
Holds(s) ==
    hold' = IF hold[place[s]] = "none"
            THEN [hold EXCEPT ![place[s]] = "quarantined"] ELSE hold

\* Mutant: every sighting is the first.
SeesAgain(s) == seen' = [seen EXCEPT ![s] = 0]

Sees(s) == seen' = IF seen[s] = Nil THEN [seen EXCEPT ![s] = 0] ELSE seen

\* One orphan: its slot is held, and once it outlived the grace period it is
\* deleted.
HoldOrphan(s) ==
    /\ pc = "orphans"
    /\ s \in left
    /\ left' = left \ {s}
    /\ marked' = marked \cup {s}
    /\ Holds(s)
    /\ Sees(s)
    /\ IF seen'[s] = Grace THEN Goto("delete") /\ at' = s ELSE UNCHANGED <<pc, at>>
    /\ UNCHANGED <<labs, owned, configured, found, inventory, dirty, clean, bounds>>

\* The delete is of exactly this workload; an inconclusive one is repeated by a
\* later pass.
DeleteOrphan ==
    /\ pc = "delete"
    /\ \/ owned' = owned \ {at} /\ UNCHANGED bounds
       \/ owned' \in {owned, owned \ {at}} /\ Fault
    /\ at' = Nil
    /\ Goto("orphans")
    /\ UNCHANGED <<labs, hold, configured, seen, found, marked, inventory, left, dirty, clean>>

Quarantined == {k \in Slots : hold[k] = "quarantined"}

\* Mutant: only slots whose orphan the tracker still knows are released.
ReleasableTracked == {k \in Quarantined \ dirty : \E s \in found : place[s] = k}

Releasable == Quarantined \ dirty

\* The tracker forgets what was not found; the janitor's own holds are listed.
ListHolds ==
    /\ pc = "orphans"
    /\ left = {}
    /\ seen' = [s \in Sessions |-> IF s \in found THEN seen[s] ELSE Nil]
    /\ clean' = Releasable
    /\ dirty' = {}
    /\ Goto("release")
    /\ UNCHANGED <<labs, owned, hold, configured, found, marked, inventory, left, at, bounds>>

ReleaseHold(k) ==
    /\ pc = "release"
    /\ k \in clean
    /\ hold' = [hold EXCEPT ![k] = IF @ = "quarantined" THEN "none" ELSE @]
    /\ clean' = clean \ {k}
    /\ UNCHANGED <<labs, owned, configured, seen, found, marked, pc, inventory, left, at,
                   dirty, bounds>>

\* sync_campus_lab_slots: a configured slot is no longer retired; one that is not
\* configured is, unless it is held already.
Synced(slots) ==
    [k \in Slots |-> CASE k \in slots /\ hold[k] = "retired" -> "none"
                       [] k \notin slots /\ hold[k] = "none" -> "retired"
                       [] OTHER -> hold[k]]

SyncSlots ==
    /\ pc = "sync" \/ (pc = "release" /\ clean = {})
    /\ hold' = Synced(configured)
    /\ Goto("idle")
    /\ UNCHANGED <<labs, owned, configured, seen, found, marked, inventory, left, at, dirty,
                   clean, bounds>>

\* The store fails: the rest of the pass is dropped.
PassFails ==
    /\ Fault
    /\ pc \in {"listed", "orphans", "delete", "release"}
    /\ Goto("sync")
    /\ inventory' = {} /\ left' = {} /\ at' = Nil /\ dirty' = {} /\ clean' = {}
    /\ UNCHANGED <<labs, owned, hold, configured, seen, found, marked>>

\* The process restarts, maybe with other slots: main synchronises them before
\* the first sweep.
Restart(slots) ==
    /\ faults < MaxFaults /\ faults' = faults + 1
    /\ slots # {}
    /\ IF slots = configured THEN UNCHANGED configs
       ELSE configs < MaxConfigs /\ configs' = configs + 1
    /\ configured' = slots
    /\ hold' = Synced(slots)
    /\ seen' = [s \in Sessions |-> Nil]
    /\ Goto("idle")
    /\ inventory' = {} /\ left' = {} /\ at' = Nil /\ dirty' = {} /\ clean' = {}
    /\ UNCHANGED <<labs, owned, found, marked>>

-----------------------------------------------------------------------------
Init ==
    /\ state = [s \in Sessions |-> "none"]
    /\ place = [s \in Sessions |-> Nil]
    /\ owned = {}
    /\ hold = [k \in Slots |-> "none"]
    /\ configured = Slots
    /\ seen = [s \in Sessions |-> Nil]
    /\ found = {} /\ marked = {}
    /\ pc = "idle"
    /\ inventory = {} /\ left = {} /\ at = Nil /\ dirty = {} /\ clean = {}
    /\ faults = 0
    /\ configs = 0

Janitor ==
    \/ ListOwned \/ Classify \/ DeleteOrphan \/ ListHolds \/ SyncSlots
    \/ \E s \in Sessions : HoldOrphan(s)
    \/ \E k \in Slots : ReleaseHold(k)

Next ==
    \/ Janitor \/ PassFails
    \/ \E s \in Sessions : \/ Launch(s) \/ Provision(s) \/ StopSession(s)
                           \/ DeleteWorkload(s) \/ EndSession(s) \/ Leftover(s)
    \/ \E slots \in SUBSET Slots : Restart(slots)

\* The task runs its passes for as long as the process lives.
Spec == Init /\ [][Next]_vars /\ WF_vars(Janitor)

-----------------------------------------------------------------------------
\* Properties.

\* Rows, holds and the position in the pass are well formed; a launched session
\* has a place.
TypeOK ==
    /\ state \in [Sessions -> {"none", "up", "stopping", "ended"}]
    /\ place \in [Sessions -> Slots \cup {Nil}]
    /\ owned \subseteq Sessions
    /\ hold \in [Slots -> {"none", "quarantined", "retired"}]
    /\ configured \subseteq Slots
    /\ seen \in [Sessions -> (0..Grace) \cup {Nil}]
    /\ found \subseteq Sessions
    /\ marked \subseteq found
    /\ pc \in {"idle", "listed", "orphans", "delete", "release", "sync"}
    /\ inventory \subseteq Sessions
    /\ left \subseteq Sessions
    /\ at \in Sessions \cup {Nil}
    /\ dirty \subseteq Slots \cup {Nil}
    /\ clean \subseteq Slots
    /\ faults \in 0..MaxFaults
    /\ configs \in 0..MaxConfigs

\* As long as no other slots were configured, every orphan that the janitor took
\* up keeps its slot under quarantine, and no slot about to be released has one.
OrphansAreHeld ==
    /\ configured = Slots
    /\ \A k \in Slots : hold[k] # "retired"
    /\ \A s \in marked : hold[place[s]] = "quarantined"
    /\ \A s \in found : place[s] \notin clean

\* The inductive invariant: a session with resources has a place; what was found
\* unaccounted for has ended, which is for good; and while a pass works on what it
\* found, the slots of that count as dirty.
IInv ==
    /\ TypeOK
    /\ \A s \in Sessions : state[s] # "none" => place[s] \in Slots
    /\ owned \cup inventory \subseteq {s \in Sessions : state[s] # "none"}
    /\ \A s \in found : state[s] = "ended"
    /\ left \subseteq found
    /\ pc = "delete" => at \in found
    /\ pc \in {"orphans", "delete"} => dirty = {place[s] : s \in found}
    /\ pc # "release" => clean = {}
    /\ configs = 0 => OrphansAreHeld

\* The janitor never asks the provider to delete the workload of a session that
\* is not over, although the inventory it works from is old: not one that came up
\* since, nor one whose cleanup is under way or blocked.
SparesTheLiving == pc = "delete" => state[at] = "ended"

\* What reconcile_campus_lab_orphans says (campus_teardown.rs:201-202): "hold each
\* tenant slot holding an unaccounted workload as `quarantined`, so nothing new is
\* placed next to it".  Until the process is started with other slots, no session
\* is launched in a slot that the janitor held, or found held, for an orphan that is
\* still there.
NothingIsPlacedNextToAnOrphan ==
    [][configs = 0 =>
         \A s \in Sessions :
           state[s] = "none" /\ state'[s] = "up"
              => \A t \in marked \cap owned : place[t] # place'[s]]_vars

\* What is left of an ended session is removed in the end, whatever passes fail
\* and processes restart.
LeftoversGo == \A s \in Sessions : state[s] = "ended" /\ s \in owned ~> s \notin owned

\* No slot stays under the janitor's quarantine for ever.
QuarantineIsLifted == \A k \in Slots : hold[k] = "quarantined" ~> hold[k] # "quarantined"
=============================================================================
