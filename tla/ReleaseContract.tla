-------------------------- MODULE ReleaseContract --------------------------
(***************************************************************************)
(* What hosted production promises about one release, without its Jobs,    *)
(* callbacks, clocks and interrupted passes: production changes once, and  *)
(* only under an approved gate; it changes back once, and only because a   *)
(* runtime window failed; a release is given up only before it happened;   *)
(* and the WorkItem ends on what production runs, for good.                *)
(***************************************************************************)
VARIABLES
    gate,       \* the operator's decision
    image,      \* what production runs
    verdict,    \* the result of each runtime window
    givenUp,    \* the release was abandoned
    item        \* the WorkItem

vars == <<gate, image, verdict, givenUp, item>>

Windows == {"promote", "observe"}

Init ==
    /\ gate = "pending"
    /\ image = "previous"
    /\ verdict = [w \in Windows |-> "none"]
    /\ givenUp = FALSE
    /\ item = "open"

DecideGate(s) ==
    /\ gate = "pending"
    /\ gate' = s
    /\ UNCHANGED <<image, verdict, givenUp, item>>

Release ==
    /\ gate = "satisfied" /\ ~givenUp /\ item = "open"
    /\ image = "previous" /\ verdict["promote"] = "none"
    /\ image' = "candidate"
    /\ UNCHANGED <<gate, verdict, givenUp, item>>

\* The second window follows a passed first one; neither is judged twice.
Judge(w, v) ==
    /\ image = "candidate" /\ item = "open"
    /\ verdict[w] = "none"
    /\ w = "observe" => verdict["promote"] = "passed"
    /\ verdict' = [verdict EXCEPT ![w] = v]
    /\ UNCHANGED <<gate, image, givenUp, item>>

Restore ==
    /\ \E w \in Windows : verdict[w] = "failed"
    /\ image = "candidate" /\ item = "open"
    /\ image' = "restored"
    /\ UNCHANGED <<gate, verdict, givenUp, item>>

GiveUp ==
    /\ image = "previous"
    /\ givenUp' = TRUE
    /\ UNCHANGED <<gate, image, verdict, item>>

Complete ==
    /\ item = "open" /\ image = "candidate"
    /\ \A w \in Windows : verdict[w] = "passed"
    /\ item' = "completed"
    /\ UNCHANGED <<gate, image, verdict, givenUp>>

Fail ==
    /\ item = "open" /\ image = "restored"
    /\ item' = "failed"
    /\ UNCHANGED <<gate, image, verdict, givenUp>>

Next ==
    \/ \E s \in {"satisfied", "rejected"} : DecideGate(s)
    \/ Release \/ Restore \/ GiveUp \/ Complete \/ Fail
    \/ \E w \in Windows, v \in {"passed", "failed", "inconclusive"} : Judge(w, v)

Spec == Init /\ [][Next]_vars
=============================================================================
