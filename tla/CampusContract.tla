--------------------------- MODULE CampusContract ---------------------------
(***************************************************************************)
(* What an execution provider promises the Campus journal about the        *)
(* workloads it runs (the contract of CampusExecutionProvider): what was   *)
(* fenced by a delete never comes to life again, and a delete is answered  *)
(* only when nothing of the workload is alive.                             *)
(***************************************************************************)
CONSTANT Workloads

VARIABLES
    live,       \* workloads with something running
    fenced,     \* workloads a delete has fenced
    told        \* workloads whose delete was answered Deleted

vars == <<live, fenced, told>>

Init == live = {} /\ fenced = {} /\ told = {}

Create(g) ==
    /\ g \notin fenced
    /\ live' = live \cup {g}
    /\ UNCHANGED <<fenced, told>>

\* A workspace ends by itself, or a delete removes it.
Remove(g) ==
    /\ live' = live \ {g}
    /\ UNCHANGED <<fenced, told>>

\* The fence ends what runs, now or later.
Fence(g) ==
    /\ fenced' = fenced \cup {g}
    /\ live' \in {live, live \ {g}}
    /\ UNCHANGED told

Deleted(g) ==
    /\ g \in fenced'
    /\ g \notin live'
    /\ told' = told \cup {g}
    /\ fenced' \in {fenced, fenced \cup {g}}
    /\ live' \in {live, live \ {g}}

Next == \E g \in Workloads : Create(g) \/ Remove(g) \/ Fence(g) \/ Deleted(g)

Spec == Init /\ [][Next]_vars
=============================================================================
