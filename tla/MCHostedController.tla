------------------------ MODULE MCHostedController ------------------------
(* Small instances of HostedController for TLC. *)
EXTENDS HostedController, TLC

CONSTANTS w1, w2, p1, p2

\* A planner alone, a continuation alone, the first three stages.
PlannerChain == <<"start_planner">>
ContinueChain == <<"continue_stage">>
ThreeStages  == <<"start_planner", "approve_work_plan", "authorize_stage_chain">>

OneRepository == [w \in WorkItems |-> "repository:a"]

Symmetric == Permutations(WorkItems) \cup Permutations(Processes)

\* Fences and control versions are only compared for equality with the row,
\* and they only grow: a claim that once differs from its row differs for
\* good.  States that agree up to these comparisons are the same.
ClaimView(p) ==
    IF pc[p] = "idle" THEN <<>>
    ELSE LET r == rec[claim[p].item]
         IN  <<claim[p].item, claim[p].control, claim[p].expired, snap[p], target[p],
               claim[p].fence = r.fence, claim[p].version = r.version>>

RelativeView ==
    <<[w \in WorkItems |-> [rec[w] EXCEPT !.fence = 0, !.version = 0]],
      status, locks, runs, created, closed, pc, launches, jobs, faults,
      [p \in Processes |-> ClaimView(p)]>>

\* With one process the evidence of a WorkItem never returns to an earlier
\* value, so of the recorded hash only matters whether it is none, the current one,
\* and whether it is the one the pass loaded.
OneProcessView ==
    <<[w \in WorkItems |-> [rec[w] EXCEPT !.fence = 0, !.version = 0,
                                          !.hash = <<@ = Nil, @ = Snapshot(w)>>]],
      status, locks, runs, created, closed, pc, launches, jobs, faults,
      [p \in Processes |->
         <<ClaimView(p), pc[p] # "idle" /\ rec[claim[p].item].hash = snap[p]>>]>>
=============================================================================
