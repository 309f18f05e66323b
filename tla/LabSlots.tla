------------------------------ MODULE LabSlots ------------------------------
(***************************************************************************)
(* What the Campus journal promises about its lab slots, without its       *)
(* transactions, leases and workers: a workspace runs only in the slot its *)
(* session holds, and a slot is handed on only when nothing of its holder  *)
(* is left, for good.                                                      *)
(***************************************************************************)
CONSTANTS Sessions, Slots, Nil

VARIABLES
    holder,     \* the session in each slot
    live,       \* sessions with a workspace
    gone        \* sessions that ended

vars == <<holder, live, gone>>

Init ==
    /\ holder = [k \in Slots |-> Nil]
    /\ live = {}
    /\ gone = {}

Holds(s) == \E k \in Slots : holder[k] = s

\* A session takes a free slot, once.
Take(s, k) ==
    /\ holder[k] = Nil
    /\ ~Holds(s)
    /\ s \notin gone
    /\ holder' = [holder EXCEPT ![k] = s]
    /\ UNCHANGED <<live, gone>>

Start(s) ==
    /\ Holds(s)
    /\ live' = live \cup {s}
    /\ UNCHANGED <<holder, gone>>

Stop(s) ==
    /\ live' = live \ {s}
    /\ UNCHANGED <<holder, gone>>

Release(s, k) ==
    /\ holder[k] = s
    /\ s \notin live
    /\ holder' = [holder EXCEPT ![k] = Nil]
    /\ gone' = gone \cup {s}
    /\ UNCHANGED live

\* A session that never held a slot ends.
Drop(s) ==
    /\ ~Holds(s)
    /\ s \notin live
    /\ gone' = gone \cup {s}
    /\ UNCHANGED <<holder, live>>

Next ==
    \E s \in Sessions :
       \/ Start(s) \/ Stop(s) \/ Drop(s)
       \/ \E k \in Slots : Take(s, k) \/ Release(s, k)

Spec == Init /\ [][Next]_vars
=============================================================================
