---------------------------- MODULE MCCampusLab ----------------------------
(* Small instances of CampusLab for TLC. *)
EXTENDS CampusLab, TLC

CONSTANTS s1, s2, u1, u2

Symmetric == Permutations(Sessions) \cup Permutations(Workers)

\* Generations and fences only grow and are only compared for equality with
\* the row they were read from: a copy that once differs differs for good.
\* States that agree up to these comparisons, up to the clock of a lease nobody
\* holds and up to where an idle worker stopped, are the same.
Busy(w) == pc[w] \notin {"idle", "sweep"}

CopyView(w) ==
    IF ~Busy(w) THEN <<>>
    ELSE LET s == cur[w].session
         IN  <<s, cur[w].state, cur[w].stopping, cur[w].retry, cur[w].gen = lab[s].gen,
               lease[w] # NoLease, lease[w] = [gen |-> op[s].gen, fence |-> op[s].fence],
               ans[w]>>

RelativeView ==
    <<[s \in Sessions |->
         <<lab[s].state, lab[s].stop, lab[s].failed, lab[s].slot, Occupies(s),
           op[s].kind, op[s].status, op[s].owner, op[s].gen = lab[s].gen,
           IF lab[s].state \in Terminal \cup {"none"} THEN 0 ELSE left[s],
           IF op[s].owner = Nil THEN 0 ELSE until[s],
           IF lab[s].state = "cleanup_blocked" THEN retry[s] ELSE 0>>],
      [k \in Slots |-> slot[k].occupant], held, res, fenced, stray, pc, todo, settled,
      [w \in Workers |-> <<CopyView(w), lag[w], IF pc[w] = "idle" THEN "" ELSE phase[w]>>],
      faults>>
=============================================================================
