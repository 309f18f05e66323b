----------------------------- MODULE HostSlots -----------------------------
(***************************************************************************)
(* What agent leases promise about hosts and workspaces, without heart-    *)
(* beats, expiry, lease files and restarts: a host serves one stage at a   *)
(* time, a workspace stays on the host of its first stage, a stage is      *)
(* served once and after the one before it, and a retired host serves      *)
(* nothing.                                                                *)
(***************************************************************************)
EXTENDS Naturals

CONSTANTS Hosts, Workspaces, LastStage, Nil

VARIABLES
    home,       \* the host of each workspace
    served,     \* the stages that have a host's slot
    over,       \* the stages that gave it back
    retired     \* the hosts out of service

vars == <<home, served, over, retired>>

Stages == Workspaces \X (1..LastStage)

Init ==
    /\ home = [w \in Workspaces |-> Nil]
    /\ served = {}
    /\ over = {}
    /\ retired = {}

Free(h) == \A l \in served : home[l[1]] # h

Serve(l, h) ==
    /\ l \notin served \cup over
    /\ h \notin retired
    /\ Free(h)
    /\ \/ l[2] = 1 /\ home[l[1]] = Nil
       \/ l[2] # 1 /\ home[l[1]] = h /\ <<l[1], l[2] - 1>> \in over
    /\ home' = [home EXCEPT ![l[1]] = h]
    /\ served' = served \cup {l}
    /\ UNCHANGED <<over, retired>>

End(l) ==
    /\ l \in served
    /\ served' = served \ {l}
    /\ over' = over \cup {l}
    /\ UNCHANGED <<home, retired>>

Retire(h) ==
    /\ Free(h)
    /\ retired' = retired \cup {h}
    /\ UNCHANGED <<home, served, over>>

Return(h) ==
    /\ retired' = retired \ {h}
    /\ UNCHANGED <<home, served, over>>

Next ==
    \/ \E l \in Stages : End(l) \/ \E h \in Hosts : Serve(l, h)
    \/ \E h \in Hosts : Retire(h) \/ Return(h)

Spec == Init /\ [][Next]_vars
=============================================================================
