------------------------ MODULE MCHostedProduction ------------------------
(* The view under which TLC explores HostedProduction. *)
EXTENDS HostedProduction

\* States that differ only in what no later step reads are the same: the clock
\* of an operation that ended, the Jobs and reports of a delivery whose receipt
\* is written, and the requests of lost writers once a write is admitted or its
\* operation ended.
Over(o) == op[o] \in {"blocked", "succeeded"}

ClockRead(c) == CASE c = "rollback" -> "rollback" \notin commit \/ ~Over(Owner(c))
                  [] c = "observe" -> ~Over("observe")
                  [] OTHER -> ~Over("promote")

Asking(d) == d \notin attempt /\ ~Over(Owner(d))

ProductionView ==
  <<operator, records, receipts, github, pass, {c \in expired : ClockRead(c)},
    [d \in Deliveries |->
       <<IF d \in commit THEN <<>> ELSE <<writer[d], d \in reports, made[d]>>,
         IF Asking(d) THEN orphans[d] ELSE 0>>],
    IF "promote" \in commit THEN "" ELSE reader>>
=============================================================================
