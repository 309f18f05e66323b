------------------------ MODULE CampusJanitorProofs ------------------------
(***************************************************************************)
(* Proofs about CampusJanitor, for any sessions, slots, grace period and   *)
(* numbers of faults.                                                      *)
(***************************************************************************)
EXTENDS CampusJanitor, TLAPS

\* What is left of IInv once its last part is taken apart: everything that does
\* not depend on the configuration.
Steady ==
    /\ \A s \in Sessions : state[s] # "none" => place[s] \in Slots
    /\ owned \cup inventory \subseteq {s \in Sessions : state[s] # "none"}
    /\ \A s \in found : state[s] = "ended"
    /\ left \subseteq found
    /\ pc = "delete" => at \in found
    /\ pc \in {"orphans", "delete"} => dirty = {place[s] : s \in found}
    /\ pc # "release" => clean = {}

\* The invariant, in three parts that are proved one by one.
LEMMA Parts == IInv <=> TypeOK /\ Steady /\ (configs = 0 => OrphansAreHeld)
  BY DEF IInv, Steady

\* Synchronising the slots yields a hold for each, and with every slot configured
\* it only lifts retirements.
LEMMA SyncedHolds ==
    ASSUME TypeOK, NEW slots \in SUBSET Slots
    PROVE  /\ Synced(slots) \in [Slots -> {"none", "quarantined", "retired"}]
           /\ \A k \in Slots : Synced(Slots)[k] = IF hold[k] = "retired" THEN "none" ELSE hold[k]
  BY DEF TypeOK, Synced

\* The steps of Next, apart.
LEMMA Steps ==
    ASSUME Next
    PROVE  \/ ListOwned \/ Classify \/ DeleteOrphan \/ ListHolds \/ SyncSlots \/ PassFails
           \/ \E s \in Sessions : HoldOrphan(s)
           \/ \E k \in Slots : ReleaseHold(k)
           \/ \E s \in Sessions : \/ Launch(s) \/ Provision(s) \/ StopSession(s)
                                  \/ DeleteWorkload(s) \/ EndSession(s) \/ Leftover(s)
           \/ \E slots \in SUBSET Slots : Restart(slots)
  BY DEF Next, Janitor

\* Every step keeps the rows, the holds and the pass well formed.
LEMMA TypeStep ==
    ASSUME TypeOK, Steady, [Next]_vars
    PROVE  TypeOK'
  <1> USE JanitorAssumption
  <1>1. CASE ListOwned
    <2>1. PICK d \in 1..Grace : Age(d)  BY <1>1 DEF ListOwned
    <2>2. seen' \in [Sessions -> (0..Grace) \cup {Nil}]  BY <2>1 DEF Age, TypeOK
    <2> QED  BY <1>1, <2>2 DEF ListOwned, TypeOK, labs, bounds, Goto, Fault
  <1>2. CASE Classify
    <2>1. found' \subseteq Sessions /\ marked' \subseteq found'  BY <1>2 DEF Classify, TypeOK
    <2>2. dirty' \subseteq Slots \cup {Nil}  BY <1>2, <2>1 DEF Classify, TypeOK
    <2> QED  BY <1>2, <2>1, <2>2 DEF Classify, TypeOK, labs, bounds, Goto
  <1>3. CASE DeleteOrphan
    BY <1>3 DEF DeleteOrphan, TypeOK, labs, bounds, Goto, Fault
  <1>4. CASE ListHolds
    BY <1>4 DEF ListHolds, TypeOK, labs, bounds, Goto, Releasable, Quarantined
  <1>5. CASE SyncSlots
    <2>1. hold' \in [Slots -> {"none", "quarantined", "retired"}]
      BY <1>5, SyncedHolds DEF SyncSlots, TypeOK
    <2> QED  BY <1>5, <2>1 DEF SyncSlots, TypeOK, labs, bounds, Goto
  <1>6. CASE PassFails
    BY <1>6 DEF PassFails, TypeOK, labs, Goto, Fault
  <1>7. ASSUME NEW s \in Sessions, HoldOrphan(s)  PROVE TypeOK'
    <2>1. hold' \in [Slots -> {"none", "quarantined", "retired"}]
      BY <1>7 DEF HoldOrphan, Holds, TypeOK
    <2>2. seen' \in [Sessions -> (0..Grace) \cup {Nil}]
      BY <1>7 DEF HoldOrphan, Sees, TypeOK
    <2>3. marked' \subseteq found'  BY <1>7 DEF HoldOrphan, TypeOK, Steady
    <2> QED  BY <1>7, <2>1, <2>2, <2>3 DEF HoldOrphan, TypeOK, labs, bounds, Goto
  <1>8. ASSUME NEW k \in Slots, ReleaseHold(k)  PROVE TypeOK'
    BY <1>8 DEF ReleaseHold, TypeOK, labs, bounds
  <1>9. ASSUME NEW s \in Sessions,
               \/ Launch(s) \/ Provision(s) \/ StopSession(s)
               \/ DeleteWorkload(s) \/ EndSession(s) \/ Leftover(s)
        PROVE  TypeOK'
    <2>1. CASE Launch(s)
      <3>1. PICK k \in Slots : place' = [place EXCEPT ![s] = k]
        BY <2>1 DEF Launch, FreeSlots
      <3> QED  BY <2>1, <3>1 DEF Launch, TypeOK, pass, bounds
    <2>2. CASE Provision(s)  BY <2>2 DEF Provision, TypeOK, labs, pass, bounds
    <2>3. CASE StopSession(s)  BY <2>3 DEF StopSession, TypeOK, pass, bounds
    <2>4. CASE DeleteWorkload(s)  BY <2>4 DEF DeleteWorkload, TypeOK, labs, pass, bounds
    <2>5. CASE EndSession(s)  BY <2>5 DEF EndSession, TypeOK, pass, bounds
    <2>6. CASE Leftover(s)  BY <2>6 DEF Leftover, Fault, TypeOK, labs, pass
    <2> QED  BY <1>9, <2>1, <2>2, <2>3, <2>4, <2>5, <2>6
  <1>10. ASSUME NEW slots \in SUBSET Slots, Restart(slots)  PROVE TypeOK'
    <2>1. hold' \in [Slots -> {"none", "quarantined", "retired"}]
      BY <1>10, SyncedHolds DEF Restart
    <2> QED  BY <1>10, <2>1 DEF Restart, TypeOK, labs, Goto
  <1>11. CASE UNCHANGED vars  BY <1>11 DEF vars, TypeOK
  <1> QED  BY <1>1, <1>2, <1>3, <1>4, <1>5, <1>6, <1>7, <1>8, <1>9, <1>10, <1>11, Steps

\* Every step keeps what was found unaccounted for ended, and its slots dirty.
LEMMA SteadyStep ==
    ASSUME TypeOK, Steady, [Next]_vars
    PROVE  Steady'
  <1>1. CASE ListOwned
    BY <1>1 DEF ListOwned, TypeOK, Steady, labs, Goto
  <1>2. CASE Classify
    <2>1. /\ found' \subseteq inventory /\ \A s \in found' : state[s] = "ended"
          /\ state' = state /\ place' = place /\ owned' = owned /\ inventory' = {}
          /\ left' = found' /\ dirty' = {place[s] : s \in found'}
          /\ pc' = "orphans" /\ clean' = {}
      BY <1>2 DEF Classify, Orphan, labs, Goto, Steady
    <2> QED  BY <2>1 DEF Steady
  <1>3. CASE DeleteOrphan
    <2>1. /\ owned' \subseteq owned /\ pc = "delete" /\ pc' = "orphans"
          /\ UNCHANGED <<state, place, found, inventory, left, dirty, clean>>
      BY <1>3 DEF DeleteOrphan, labs, Goto
    <2> QED  BY <2>1 DEF Steady
  <1>4. CASE ListHolds
    BY <1>4 DEF ListHolds, TypeOK, Steady, labs, Goto
  <1>5. CASE SyncSlots
    BY <1>5 DEF SyncSlots, TypeOK, Steady, labs, Goto
  <1>6. CASE PassFails
    BY <1>6 DEF PassFails, TypeOK, Steady, labs, Goto
  <1>7. ASSUME NEW s \in Sessions, HoldOrphan(s)  PROVE Steady'
    <2>1. /\ pc = "orphans" /\ s \in found /\ left' = left \ {s}
          /\ UNCHANGED <<state, place, owned, found, inventory, dirty, clean>>
          /\ (pc' = "delete" /\ at' = s) \/ (pc' = "orphans" /\ at' = at)
      BY <1>7 DEF HoldOrphan, labs, Goto, Steady
    <2> QED  BY <2>1 DEF Steady
  <1>8. ASSUME NEW k \in Slots, ReleaseHold(k)  PROVE Steady'
    BY <1>8 DEF ReleaseHold, TypeOK, Steady, labs
  <1>9. ASSUME NEW s \in Sessions,
               \/ Launch(s) \/ Provision(s) \/ StopSession(s)
               \/ DeleteWorkload(s) \/ EndSession(s) \/ Leftover(s)
        PROVE  Steady'
    <2>1. CASE Launch(s)
      <3>1. PICK k \in Slots : place' = [place EXCEPT ![s] = k]
        BY <2>1 DEF Launch, FreeSlots
      <3>2. /\ pc = "idle" /\ state[s] = "none" /\ s \notin found
            /\ state' = [state EXCEPT ![s] = "up"]
            /\ UNCHANGED <<owned, found, pc, inventory, left, at, dirty, clean>>
        BY <2>1 DEF Launch, pass, Steady
      <3> QED  BY <3>1, <3>2 DEF Steady, TypeOK
    <2>2. CASE Provision(s)  BY <2>2 DEF Provision, Steady, labs, pass
    <2>3. CASE StopSession(s)  BY <2>3 DEF StopSession, TypeOK, Steady, pass
    <2>4. CASE DeleteWorkload(s)  BY <2>4 DEF DeleteWorkload, Steady, labs, pass
    <2>5. CASE EndSession(s)  BY <2>5 DEF EndSession, TypeOK, Steady, pass
    <2>6. CASE Leftover(s)  BY <2>6 DEF Leftover, Steady, labs, pass
    <2> QED  BY <1>9, <2>1, <2>2, <2>3, <2>4, <2>5, <2>6
  <1>10. ASSUME NEW slots \in SUBSET Slots, Restart(slots)  PROVE Steady'
    BY <1>10 DEF Restart, TypeOK, Steady, labs, Goto
  <1>11. CASE UNCHANGED vars  BY <1>11 DEF vars, Steady
  <1> QED  BY <1>1, <1>2, <1>3, <1>4, <1>5, <1>6, <1>7, <1>8, <1>9, <1>10, <1>11, Steps

\* Until other slots are configured, every orphan that was taken up keeps its
\* slot under quarantine.
LEMMA HeldStep ==
    ASSUME TypeOK, Steady, configs = 0 => OrphansAreHeld, [Next]_vars
    PROVE  configs' = 0 => OrphansAreHeld'
  <1> SUFFICES ASSUME configs' = 0  PROVE OrphansAreHeld'
    OBVIOUS
  <1> USE JanitorAssumption
  <1>0. configs = 0 /\ OrphansAreHeld
    <2>1. configs' = configs \/ configs' = configs + 1
      <3>1. CASE \E slots \in SUBSET Slots : Restart(slots)  BY <3>1 DEF Restart
      <3>2. CASE ~ \E slots \in SUBSET Slots : Restart(slots)
        BY <3>2, Steps DEF vars, ListOwned, Classify, DeleteOrphan, ListHolds, SyncSlots,
           PassFails, HoldOrphan, ReleaseHold, Launch, Provision, StopSession, DeleteWorkload,
           EndSession, Leftover, bounds, Fault
      <3> QED  BY <3>1, <3>2
    <2> QED  BY <2>1 DEF TypeOK
  <1>1. CASE ListOwned
    BY <1>0, <1>1 DEF ListOwned, OrphansAreHeld, labs
  <1>2. CASE Classify
    <2>1. /\ marked' \subseteq marked /\ clean = {}
          /\ UNCHANGED <<place, hold, configured, clean>>
      BY <1>2 DEF Classify, labs, Steady
    <2> QED  BY <1>0, <2>1 DEF OrphansAreHeld
  <1>3. CASE DeleteOrphan
    BY <1>0, <1>3 DEF DeleteOrphan, OrphansAreHeld, labs
  <1>4. CASE ListHolds
    <2>1. /\ clean' \cap {place[s] : s \in found} = {}
          /\ UNCHANGED <<place, hold, configured, found, marked>>
      BY <1>4 DEF ListHolds, labs, Steady, Releasable
    <2> QED  BY <1>0, <2>1 DEF OrphansAreHeld
  <1>5. CASE SyncSlots
    <2>1. /\ hold' = Synced(Slots)
          /\ UNCHANGED <<place, configured, found, marked, clean>>
      BY <1>0, <1>5 DEF SyncSlots, OrphansAreHeld, labs
    <2>2. \A k \in Slots : hold'[k] = hold[k]
      BY <1>0, <2>1, SyncedHolds DEF OrphansAreHeld
    <2>3. \A s \in marked : place[s] \in Slots  BY DEF TypeOK, Steady
    <2> QED  BY <1>0, <2>1, <2>2, <2>3 DEF OrphansAreHeld
  <1>6. CASE PassFails
    BY <1>0, <1>6 DEF PassFails, OrphansAreHeld, labs
  <1>7. ASSUME NEW s \in Sessions, HoldOrphan(s)  PROVE OrphansAreHeld'
    <2>1. /\ pc = "orphans" /\ s \in found /\ clean = {} /\ place[s] \in Slots
          /\ marked' = marked \cup {s}
          /\ UNCHANGED <<place, configured, found, clean>>
      BY <1>7 DEF HoldOrphan, labs, Steady, TypeOK
    <2>2. hold[place[s]] \in {"none", "quarantined"}
      BY <1>0, <2>1 DEF OrphansAreHeld, TypeOK
    <2>3. hold' = [hold EXCEPT ![place[s]] = "quarantined"]
      BY <1>7, <2>1, <2>2 DEF HoldOrphan, Holds, TypeOK
    <2>4. \A t \in marked : place[t] \in Slots  BY DEF TypeOK, Steady
    <2> QED  BY <1>0, <2>1, <2>3, <2>4 DEF OrphansAreHeld, TypeOK
  <1>8. ASSUME NEW k \in Slots, ReleaseHold(k)  PROVE OrphansAreHeld'
    <2>1. /\ k \in clean /\ clean' = clean \ {k}
          /\ hold' = [hold EXCEPT ![k] = IF hold[k] = "quarantined" THEN "none" ELSE hold[k]]
          /\ UNCHANGED <<place, configured, found, marked>>
      BY <1>8 DEF ReleaseHold, labs
    <2>2. \A s \in marked : place[s] \in Slots /\ place[s] # k
      BY <1>0, <2>1 DEF OrphansAreHeld, TypeOK, Steady
    <2> QED  BY <1>0, <2>1, <2>2 DEF OrphansAreHeld, TypeOK
  <1>9. ASSUME NEW s \in Sessions,
               \/ Launch(s) \/ Provision(s) \/ StopSession(s)
               \/ DeleteWorkload(s) \/ EndSession(s) \/ Leftover(s)
        PROVE  OrphansAreHeld'
    <2>1. /\ UNCHANGED <<hold, configured, found, marked, clean>>
          /\ \A t \in Sessions : t # s => place'[t] = place[t]
      BY <1>9 DEF Launch, Provision, StopSession, DeleteWorkload, EndSession, Leftover, labs,
         pass, TypeOK
    <2>2. Launch(s) => s \notin found  BY DEF Launch, Steady
    <2>3. ~ Launch(s) => place' = place
      BY <1>9 DEF Provision, StopSession, DeleteWorkload, EndSession, Leftover, labs
    <2>4. \A t \in found : t \in Sessions /\ place'[t] = place[t]
      BY <2>1, <2>2, <2>3 DEF TypeOK
    <2> QED  BY <1>0, <2>1, <2>4 DEF OrphansAreHeld, TypeOK
  <1>10. ASSUME NEW slots \in SUBSET Slots, Restart(slots)  PROVE OrphansAreHeld'
    <2>1. slots = Slots /\ configured' = Slots
      BY <1>0, <1>10 DEF Restart, OrphansAreHeld
    <2>2. hold' = Synced(Slots) /\ clean' = {} /\ UNCHANGED <<place, found, marked>>
      BY <1>10, <2>1 DEF Restart, labs
    <2>3. \A k \in Slots : hold'[k] = hold[k]
      BY <1>0, <2>2, SyncedHolds DEF OrphansAreHeld
    <2>4. \A s \in marked : place[s] \in Slots  BY DEF TypeOK, Steady
    <2> QED  BY <1>0, <2>1, <2>2, <2>3, <2>4 DEF OrphansAreHeld
  <1>11. CASE UNCHANGED vars  BY <1>0, <1>11 DEF vars, OrphansAreHeld
  <1> QED  BY <1>1, <1>2, <1>3, <1>4, <1>5, <1>6, <1>7, <1>8, <1>9, <1>10, <1>11, Steps

\* The inductive invariant of the janitor: what a pass found unaccounted for has
\* ended, and until the configuration changes its slots stay quarantined.
THEOREM Invariance == Spec => []IInv
  <1>1. Init => IInv
    BY JanitorAssumption DEF Init, IInv, TypeOK, OrphansAreHeld
  <1>2. IInv /\ [Next]_vars => IInv'
    <2> SUFFICES ASSUME IInv, [Next]_vars  PROVE IInv'
      OBVIOUS
    <2>1. TypeOK' /\ Steady' /\ (configs' = 0 => OrphansAreHeld')
      BY Parts, TypeStep, SteadyStep, HeldStep
    <2> QED  BY <2>1 DEF IInv, Steady
  <1> QED  BY <1>1, <1>2, PTL DEF Spec

\* reconcile_campus_lab_orphans asks the provider to delete only workloads of
\* sessions that are over, however old the inventory it works from.
THEOREM LivingAreSpared == Spec => []SparesTheLiving
  <1>1. IInv => SparesTheLiving
    BY DEF IInv, SparesTheLiving
  <1> QED  BY <1>1, Invariance, PTL

\* As long as the configured slots stay the same, nothing is placed next to a
\* workload the janitor took up: the quarantine outlives the orphan.
THEOREM NothingNextToAnOrphan == Spec => NothingIsPlacedNextToAnOrphan
  <1>1. IInv /\ [Next]_vars
          => [configs = 0 =>
                \A s \in Sessions :
                  state[s] = "none" /\ state'[s] = "up"
                     => \A t \in marked \cap owned : place[t] # place'[s]]_vars
    <2> SUFFICES ASSUME IInv, [Next]_vars, configs = 0, NEW s \in Sessions,
                        state[s] = "none", state'[s] = "up", NEW t \in marked \cap owned
                 PROVE  place[t] # place'[s]
      OBVIOUS
    <2>1. OrphansAreHeld  BY DEF IInv
    <2>2. Launch(s)
      BY Steps DEF vars, ListOwned, Classify, DeleteOrphan, ListHolds, SyncSlots, PassFails,
         HoldOrphan, ReleaseHold, Launch, Provision, StopSession, DeleteWorkload, EndSession,
         Leftover, Restart, labs, IInv, TypeOK
    <2>3. PICK k \in FreeSlots : place' = [place EXCEPT ![s] = k]  BY <2>2 DEF Launch
    <2>4. place'[s] = k /\ hold[k] = "none"  BY <2>3 DEF IInv, TypeOK, FreeSlots
    <2>5. hold[place[t]] = "quarantined"  BY <2>1 DEF OrphansAreHeld
    <2> QED  BY <2>4, <2>5
  <1> QED  BY <1>1, Invariance, PTL DEF Spec, NothingIsPlacedNextToAnOrphan
=============================================================================
