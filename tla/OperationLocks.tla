--------------------------- MODULE OperationLocks ---------------------------
(***************************************************************************)
(* What the hosted controller promises about the resources its operations  *)
(* share, without its claims, passes, controls and processes: an operation *)
(* gets all the locks it needs in one step and from nobody, is sent once   *)
(* and only with all of them, and gives them up together, never while what *)
(* it sent is alive.                                                       *)
(***************************************************************************)
CONSTANTS
    Ops,        \* operation identities
    Keys,       \* lock keys
    Needs,      \* the keys of each operation
    Nil

VARIABLES
    holder,     \* the operation that holds each key
    sent,       \* operations that started their Run or took their decision
    live,       \* operations whose Run is alive
    over        \* operations recorded as succeeded

vars == <<holder, sent, live, over>>

Init ==
    /\ holder = [k \in Keys |-> Nil]
    /\ sent = {}
    /\ live = {}
    /\ over = {}

Holds(o) == \A k \in Needs[o] : holder[k] = o

Without(o) == [k \in Keys |-> IF holder[k] = o THEN Nil ELSE holder[k]]

Take(o) ==
    /\ o \notin sent \cup over
    /\ \A k \in Needs[o] : holder[k] \in {Nil, o}
    /\ holder' = [k \in Keys |-> IF k \in Needs[o] THEN o ELSE holder[k]]
    /\ UNCHANGED <<sent, live, over>>

\* A stopped operation that was not sent gives its locks back, and may take
\* them again later.
Yield(o) ==
    /\ o \notin sent
    /\ holder' = Without(o)
    /\ UNCHANGED <<sent, live, over>>

Send(o) ==
    /\ o \notin sent \cup over
    /\ Holds(o)
    /\ sent' = sent \cup {o}
    /\ live' = live \cup {o}
    /\ UNCHANGED <<holder, over>>

\* An operation that needs nothing is a decision, over as soon as it is taken.
Decide(o) ==
    /\ o \notin sent \cup over
    /\ Needs[o] = {}
    /\ sent' = sent \cup {o}
    /\ UNCHANGED <<holder, live, over>>

\* The Run ends; its operation keeps the locks until it is recorded.
End(o) ==
    /\ o \in live
    /\ live' = live \ {o}
    /\ UNCHANGED <<holder, sent, over>>

Succeed(o) ==
    /\ o \notin live
    /\ Holds(o)
    /\ over' = over \cup {o}
    /\ holder' = Without(o)
    /\ UNCHANGED <<sent, live>>

Next ==
    \E o \in Ops :
       Take(o) \/ Yield(o) \/ Send(o) \/ Decide(o) \/ End(o) \/ Succeed(o)

Spec == Init /\ [][Next]_vars
=============================================================================
