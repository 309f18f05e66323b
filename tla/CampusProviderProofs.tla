----------------------- MODULE CampusProviderProofs -----------------------
(***************************************************************************)
(* Proofs about CampusProvider: its inductive invariant, that only the     *)
(* slot's occupant runs, and that the provider implements its contract,    *)
(* for any number of calls, occupancies and failures.                      *)
(***************************************************************************)
EXTENDS CampusProvider, TLAPS

\* The first occupancy is one, and occupancies are numbers.
LEMMA GensNat == 1 \in Gens /\ Gens \subseteq Nat
  BY ProviderAssumption DEF Gens

\* The provider starts in an empty slot.
LEMMA InitIInv == Init => IInv
  <1> SUFFICES ASSUME Init PROVE IInv
    OBVIOUS
  <1>1. TypeOK
    BY ProviderAssumption DEF Init, TypeOK, Gens, Steps, Anchored
  <1>2. Ordered
    BY ProviderAssumption DEF Init, Ordered, Gens, Fencing, PastFence
  <1> QED
    BY <1>1, <1>2 DEF Init, IInv, Barren, Counted, Gens

\* A call that only ends leaves the invariant.
LEMMA EndedIInv ==
    ASSUME IInv, NEW c \in Callers, Ended(c), UNCHANGED <<cluster, journal, history>>,
           faults' \in 0..MaxFaults
    PROVE  IInv'
  <1> USE DEF Ended, cluster, journal, history, Steps, Anchored, PastToken, Fencing, PastFence
  <1>0. 1 \in Gens
    BY ProviderAssumption DEF Gens
  <1>1. TypeOK'
    BY <1>0 DEF IInv, TypeOK
  <1>2. Ordered'
    BY DEF IInv, TypeOK, Ordered
  <1>3. Barren'
    BY DEF IInv, TypeOK, Barren
  <1> QED
    BY <1>1, <1>2, <1>3 DEF IInv, Counted

\* So does one that goes on to a step it has what it takes for.
LEMMA GotoIInv ==
    ASSUME IInv, NEW c \in Callers, NEW step \in Steps, Goto(c, step),
           UNCHANGED <<cluster, journal, history, faults>>,
           pc[c] # "idle",
           step \in Anchored => pc[c] \in Anchored,
           step \in PastToken =>
              pc[c] \in PastToken \/ secret[arg[c]] = uid[c] \/ arg[c] \notin revoked,
           step \in Fencing => pc[c] \in Fencing,
           step \in PastFence => pc[c] \in PastFence \/ cm[arg[c]] = "tombstone"
    PROVE  IInv'
  <1> USE DEF Goto, cluster, journal, history
  <1>1. TypeOK'
    BY DEF IInv, TypeOK
  <1>2. Ordered'
    BY DEF IInv, TypeOK, Ordered
  <1>3. Barren'
    BY DEF IInv, TypeOK, Ordered, Barren
  <1> QED
    BY <1>1, <1>2, <1>3 DEF IInv, Counted

\* A call begins: a provision of an occupant, or a delete of a revoked one.
LEMMA StartIInv ==
    ASSUME IInv, NEW c \in Callers, NEW g \in Gens,
           \/ StartProvision(c, g)
           \/ StartDelete(c, g)
    PROVE  IInv'
  <1> USE DEF IInv, Steps, Anchored, PastToken, Fencing, PastFence
  <1>1. CASE StartProvision(c, g)
    <2> USE <1>1 DEF StartProvision, Begins, cluster, journal, history, call
    <2>1. TypeOK'
      BY ProviderAssumption DEF TypeOK, Gens
    <2>2. Ordered'
      BY ProviderAssumption DEF TypeOK, Gens, Ordered
    <2>3. Barren'
      BY ProviderAssumption DEF TypeOK, Gens, Ordered, Barren
    <2>4. Counted'
      BY GensNat DEF TypeOK, Counted
    <2> QED
      BY <2>1, <2>2, <2>3, <2>4
  <1>2. CASE StartDelete(c, g)
    <2> USE <1>2 DEF StartDelete, Begins, cluster, journal, history, call
    <2>1. TypeOK'
      BY ProviderAssumption DEF TypeOK, Gens
    <2>2. Ordered'
      BY ProviderAssumption DEF TypeOK, Gens, Ordered
    <2>3. Barren'
      BY ProviderAssumption DEF TypeOK, Gens, Ordered, Barren
    <2>4. Counted'
      BY GensNat DEF TypeOK, Counted
    <2> QED
      BY <2>1, <2>2, <2>3, <2>4
  <1> QED
    BY <1>1, <1>2

\* The calls that only read.
LEMMA ReadIInv ==
    ASSUME IInv, NEW c \in Callers,
           \/ CheckFences(c)
           \/ EnsureToken(c)
           \/ FindJob(c)
           \/ Recheck(c)
           \/ FenceGet(c)
           \/ ListJobs(c)
           \/ ListSecrets(c)
    PROVE  IInv'
  <1> USE DEF IInv, TypeOK, Steps, Anchored, PastToken, Fencing, PastFence
  <1>1. CASE CheckFences(c)
    BY <1>1, GotoIInv, EndedIInv DEF CheckFences
  <1>2. CASE EnsureToken(c)
    BY <1>2, GotoIInv, EndedIInv DEF EnsureToken, MayIssue
  <1>3. CASE FindJob(c)
    BY <1>3, GotoIInv DEF FindJob
  <1>4. CASE Recheck(c)
    BY <1>4, GotoIInv, EndedIInv DEF Recheck, OwnerLives
  <1>5. CASE FenceGet(c)
    BY <1>5, GotoIInv DEF FenceGet
  <1>6. CASE ListJobs(c)
    BY <1>6, GotoIInv, EndedIInv DEF ListJobs
  <1>7. CASE ListSecrets(c)
    BY <1>7, GotoIInv, EndedIInv DEF ListSecrets
  <1> QED
    BY <1>1, <1>2, <1>3, <1>4, <1>5, <1>6, <1>7

\* The steps of a provision that write.
LEMMA ProvisionIInv ==
    ASSUME IInv, NEW c \in Callers,
           \/ GetAnchor(c)
           \/ CreateAnchor(c)
           \/ PutToken(c)
           \/ SubmitJob(c)
           \/ UndoJob(c)
    PROVE  IInv'
  <1> USE DEF IInv, Steps, Anchored, PastToken, Fencing, PastFence
  <1>1. CASE GetAnchor(c)
    <2>1. CASE cm[arg[c]] = "none"
      BY <1>1, <2>1, GotoIInv DEF GetAnchor, cluster, journal, history, call, TypeOK
    <2>2. CASE cm[arg[c]] = "tombstone"
      BY <1>1, <2>2, EndedIInv DEF GetAnchor, cluster, journal, history, call, TypeOK, Tries
    <2>3. CASE cm[arg[c]] = "active"
      <3>0. /\ pc[c] = "anchor" /\ arg[c] \in Gens
            /\ pc' = [pc EXCEPT ![c] = "token"]
            /\ uid' = [uid EXCEPT ![c] = made[arg[c]]]
            /\ UNCHANGED <<cm, made, secret, owner, job, gen, revoked, freed, fenced, told>>
            /\ UNCHANGED <<arg, tries, older, faults>>
        BY <1>1, <2>3 DEF GetAnchor, TypeOK, cluster, journal, history
      <3>1. made[arg[c]] \in 1..made[arg[c]]
        BY <2>3, <3>0 DEF TypeOK, Counted
      <3>2. TypeOK'
        BY <3>0, <3>1 DEF TypeOK
      <3>3. Ordered'
        BY <3>0 DEF TypeOK, Ordered
      <3>4. Barren'
        BY <3>0 DEF TypeOK, Barren
      <3> QED
        BY <3>0, <3>2, <3>3, <3>4 DEF Counted
    <2> QED
      BY <1>1, <2>1, <2>2, <2>3 DEF TypeOK
  <1>2. CASE CreateAnchor(c)
    <2>1. CASE cm[arg[c]] = "none"
      <3>0. /\ pc[c] = "create" /\ arg[c] \in Gens
            /\ cm' = [cm EXCEPT ![arg[c]] = "active"]
            /\ made' = [made EXCEPT ![arg[c]] = @ + 1]
            /\ pc' = [pc EXCEPT ![c] = "token"]
            /\ uid' = [uid EXCEPT ![c] = made[arg[c]] + 1]
            /\ UNCHANGED <<secret, owner, job, gen, revoked, freed, told, fenced>>
            /\ UNCHANGED <<arg, tries, older, faults>>
        BY <1>2, <2>1 DEF CreateAnchor, TypeOK, journal, history
      <3>1. /\ made' \in [Gens -> Nat]
            /\ \A g \in Gens : made[g] <= made'[g]
            /\ made'[arg[c]] = made[arg[c]] + 1
            /\ \A g \in Gens : g # arg[c] => made'[g] = made[g] /\ cm'[g] = cm[g]
        BY <3>0 DEF TypeOK
      <3>2. \A d \in Callers : pc'[d] \in Anchored => uid'[d] \in 1..made'[arg[d]]
        <4> SUFFICES ASSUME NEW d \in Callers, pc'[d] \in Anchored
                     PROVE  uid'[d] \in 1..made'[arg[d]]
          OBVIOUS
        <4>1. CASE d = c
          BY <3>0, <3>1, <4>1 DEF TypeOK
        <4>2. CASE d # c
          BY <3>0, <3>1, <4>2 DEF TypeOK
        <4> QED
          BY <4>1, <4>2
      <3>3. TypeOK'
        BY <3>0, <3>1, <3>2 DEF TypeOK
      <3>4. Ordered'
        BY <3>0 DEF TypeOK, Ordered
      <3>5. Barren'
        <4> SUFFICES ASSUME NEW g \in fenced, cm'[g] = "active"
                     PROVE  /\ secret[g] # made'[g] /\ owner[g] # made'[g]
                            /\ \A d \in Callers :
                                  arg[d] = g /\ pc'[d] \in PastToken => uid'[d] # made'[g]
          BY <3>0 DEF Barren
        <4>1. CASE g = arg[c]
          <5>1. made'[g] = made[g] + 1 /\ made[g] \in Nat
            BY <3>0, <3>1, <4>1 DEF TypeOK
          <5>2. secret[g] < made'[g] /\ owner[g] < made'[g]
            BY <3>0, <4>1, <5>1 DEF TypeOK, Counted
          <5>3. ASSUME NEW d \in Callers, arg[d] = g, pc'[d] \in PastToken
                PROVE  uid'[d] # made'[g]
            <6>1. d # c /\ pc[d] \in Anchored /\ uid'[d] = uid[d]
              BY <3>0, <5>3 DEF TypeOK
            <6> QED
              BY <5>1, <5>3, <6>1 DEF TypeOK
          <5> QED
            BY <5>1, <5>2, <5>3, <3>0, <4>1 DEF TypeOK
        <4>2. CASE g # arg[c]
          BY <3>0, <3>1, <4>2 DEF TypeOK, Barren
        <4> QED
          BY <4>1, <4>2
      <3>6. Counted'
        BY <3>0, <3>1 DEF TypeOK, Counted
      <3> QED
        BY <3>3, <3>4, <3>5, <3>6
    <2>2. CASE cm[arg[c]] # "none" /\ tries[c] + 1 < Tries
      <3> USE <1>2, <2>2 DEF CreateAnchor, Again, Ended, cluster, journal, history, call, Tries
      <3>1. TypeOK'
        BY GensNat DEF TypeOK
      <3>2. Ordered'
        BY GensNat DEF TypeOK, Ordered
      <3>3. Barren'
        BY GensNat DEF TypeOK, Ordered, Barren
      <3>4. Counted'
        BY GensNat DEF TypeOK, Counted
      <3> QED
        BY <3>1, <3>2, <3>3, <3>4
    <2>3. CASE cm[arg[c]] # "none" /\ ~(tries[c] + 1 < Tries)
      BY <1>2, <2>3, EndedIInv DEF CreateAnchor, Again, cluster, journal, history, call, TypeOK, Tries
    <2> QED
      BY <1>2, <2>1, <2>2, <2>3 DEF TypeOK
  <1>3. CASE PutToken(c)
    <2> USE <1>3 DEF PutToken, Goto, cluster, journal, history, call
    <2>1. TypeOK'
      BY GensNat DEF TypeOK
    <2>2. Ordered'
      BY GensNat DEF TypeOK, Ordered
    <2>3. Barren'
      BY GensNat DEF TypeOK, Ordered, Barren
    <2>4. Counted'
      BY GensNat DEF TypeOK, Counted
    <2> QED
      BY <2>1, <2>2, <2>3, <2>4
  <1>4. CASE SubmitJob(c)
    <2>1. CASE \A h \in Gens : job[h] = "none"
      <3> USE <1>4, <2>1 DEF SubmitJob, Goto, Ended, cluster, journal, history, call
      <3>1. TypeOK'
        BY GensNat DEF TypeOK
      <3>2. Ordered'
        BY GensNat DEF TypeOK, Ordered
      <3>3. Barren'
        BY GensNat DEF TypeOK, Ordered, Barren
      <3>4. Counted'
        BY GensNat DEF TypeOK, Counted
      <3> QED
        BY <3>1, <3>2, <3>3, <3>4
    <2>2. CASE ~(\A h \in Gens : job[h] = "none") /\ job[arg[c]] = "none"
      BY <1>4, <2>2, EndedIInv DEF SubmitJob, cluster, journal, history, call, TypeOK, Tries
    <2>3. CASE ~(\A h \in Gens : job[h] = "none") /\ job[arg[c]] # "none"
      BY <1>4, <2>3, GotoIInv DEF SubmitJob, cluster, journal, history, call, TypeOK
    <2> QED
      BY <1>4, <2>1, <2>2, <2>3 DEF TypeOK
  <1>5. CASE UndoJob(c)
    <2> USE <1>5 DEF UndoJob, DeleteJob, Ended, cluster, journal, history, call
    <2>1. TypeOK'
      BY GensNat DEF TypeOK
    <2>2. Ordered'
      BY GensNat DEF TypeOK, Ordered
    <2>3. Barren'
      BY GensNat DEF TypeOK, Ordered, Barren
    <2>4. Counted'
      BY GensNat DEF TypeOK, Counted
    <2> QED
      BY <2>1, <2>2, <2>3, <2>4
  <1> QED
    BY <1>1, <1>2, <1>3, <1>4, <1>5

\* The steps of a delete that write, and a call that fails.
LEMMA DeleteIInv ==
    ASSUME IInv, NEW c \in Callers,
           \/ Unanchor(c)
           \/ Bury(c)
           \/ DeleteSecrets(c)
           \/ DeleteJobs(c)
           \/ ListTombstones(c)
           \/ Prune(c)
           \/ AnswerDeleted(c)
           \/ CallFails(c)
    PROVE  IInv'
  <1> USE DEF IInv, Steps, Anchored, PastToken, Fencing, PastFence
  <1>1. CASE Unanchor(c)
    <2> USE <1>1 DEF Unanchor, Goto, cluster, journal, history, call
    <2>1. TypeOK'
      BY GensNat DEF TypeOK
    <2>2. Ordered'
      BY GensNat DEF TypeOK, Ordered
    <2>3. Barren'
      BY GensNat DEF TypeOK, Ordered, Barren
    <2>4. Counted'
      BY GensNat DEF TypeOK, Counted
    <2> QED
      BY <2>1, <2>2, <2>3, <2>4
  <1>2. CASE Bury(c)
    <2>1. CASE cm[arg[c]] = "none"
      <3>0. /\ cm' = [cm EXCEPT ![arg[c]] = "tombstone"]
            /\ fenced' = fenced \cup {arg[c]}
            /\ pc' = [pc EXCEPT ![c] = "secrets"]
            /\ UNCHANGED <<made, secret, owner, job, gen, revoked, freed, told>>
            /\ UNCHANGED <<arg, uid, tries, older, faults>>
        BY <1>2, <2>1 DEF Bury, Goto, Again, Ended, cluster, journal, history, call
      <3> USE <1>2, <2>1, <3>0 DEF Tries
      <3>5. pc[c] = "bury" /\ arg[c] \in Gens
        BY <1>2 DEF Bury, TypeOK
      <3> USE <3>5
      <3>1. TypeOK'
        BY GensNat DEF TypeOK
      <3>2. Ordered'
        <4>1. arg[c] \in revoked /\ arg[c] <= gen
          BY DEF Ordered
        <4>2. /\ \A d \in Callers : pc'[d] \in Fencing => pc[d] \in Fencing
              /\ \A d \in Callers : pc'[d] \in PastFence => pc[d] \in PastFence \/ d = c
              /\ \A d \in Callers : pc'[d] # "idle" => pc[d] # "idle"
          BY DEF TypeOK
        <4>3. \A g \in Gens : cm'[g] = IF g = arg[c] THEN "tombstone" ELSE cm[g]
          BY DEF TypeOK
        <4>4. /\ freed \subseteq told /\ told \subseteq fenced' /\ fenced' \subseteq revoked
              /\ \A g \in Gens : g \in revoked \/ cm'[g] # "none" => g <= gen
              /\ \A g \in Gens : cm'[g] = "tombstone" => g \in fenced'
          BY <4>1, <4>3 DEF Ordered
        <4>5. \A d \in Callers :
                 /\ pc'[d] # "idle" => arg[d] <= gen
                 /\ pc'[d] \in Fencing => arg[d] \in revoked
                 /\ pc'[d] \in PastFence => arg[d] \in fenced'
          BY <4>1, <4>2 DEF Ordered
        <4> QED
          BY <4>4, <4>5 DEF Ordered
      <3>3. Barren'
        BY GensNat DEF TypeOK, Ordered, Barren
      <3>4. Counted'
        BY GensNat DEF TypeOK, Counted
      <3> QED
        BY <3>1, <3>2, <3>3, <3>4
    <2>2. CASE cm[arg[c]] # "none" /\ tries[c] + 1 < Tries
      <3>0. /\ pc[c] = "bury"
            /\ pc' = [pc EXCEPT ![c] = "fence"]
            /\ tries' = [tries EXCEPT ![c] = @ + 1]
            /\ UNCHANGED <<cm, made, secret, owner, job, gen, revoked, freed, told>>
            /\ UNCHANGED <<fenced, arg, uid, older, faults>>
        BY <1>2, <2>2 DEF Bury, Goto, Again, Ended, cluster, journal, history, call
      <3> USE <1>2, <2>2, <3>0 DEF Tries
      <3>1. TypeOK'
        BY GensNat DEF TypeOK
      <3>2. Ordered'
        BY GensNat DEF TypeOK, Ordered
      <3>3. Barren'
        BY GensNat DEF TypeOK, Ordered, Barren
      <3>4. Counted'
        BY GensNat DEF TypeOK, Counted
      <3> QED
        BY <3>1, <3>2, <3>3, <3>4
    <2>3. CASE cm[arg[c]] # "none" /\ ~(tries[c] + 1 < Tries)
      BY <1>2, <2>3, EndedIInv DEF Bury, Again, cluster, journal, history, call, TypeOK, Tries
    <2> QED
      BY <1>2, <2>1, <2>2, <2>3 DEF TypeOK
  <1>3. CASE DeleteSecrets(c)
    <2>0. /\ pc[c] = "secrets" /\ arg[c] \in Gens
          /\ pc' = [pc EXCEPT ![c] = "jobs"]
          /\ secret' \in [Gens -> Nat]
          /\ \A g \in Gens : secret'[g] \in {0, secret[g]}
          /\ UNCHANGED <<cm, made, owner, job, gen, revoked, freed, fenced, told>>
          /\ UNCHANGED <<arg, uid, tries, older, faults>>
      BY <1>3 DEF DeleteSecrets, Goto, TypeOK, journal, history
    <2>1. TypeOK'
      BY <2>0 DEF TypeOK
    <2>2. Ordered'
      BY <2>0 DEF TypeOK, Ordered
    <2>3. Barren'
      BY <2>0, GensNat DEF TypeOK, Barren, Counted
    <2>4. Counted'
      BY <2>0 DEF TypeOK, Counted
    <2> QED
      BY <2>1, <2>2, <2>3, <2>4
  <1>4. CASE DeleteJobs(c)
    <2> USE <1>4 DEF DeleteJobs, DeleteJob, Goto, cluster, journal, history, call
    <2>1. TypeOK'
      BY GensNat DEF TypeOK
    <2>2. Ordered'
      BY GensNat DEF TypeOK, Ordered
    <2>3. Barren'
      BY GensNat DEF TypeOK, Ordered, Barren
    <2>4. Counted'
      BY GensNat DEF TypeOK, Counted
    <2> QED
      BY <2>1, <2>2, <2>3, <2>4
  <1>5. CASE ListTombstones(c)
    <2> USE <1>5 DEF ListTombstones, cluster, journal, history, call
    <2>1. TypeOK'
      BY GensNat DEF TypeOK
    <2>2. Ordered'
      BY GensNat DEF TypeOK, Ordered
    <2>3. Barren'
      BY GensNat DEF TypeOK, Ordered, Barren
    <2>4. Counted'
      BY GensNat DEF TypeOK, Counted
    <2> QED
      BY <2>1, <2>2, <2>3, <2>4
  <1>6. CASE Prune(c)
    <2> USE <1>6 DEF Prune, cluster, journal, history, call
    <2>1. TypeOK'
      BY GensNat DEF TypeOK
    <2>2. Ordered'
      BY GensNat DEF TypeOK, Ordered
    <2>3. Barren'
      BY GensNat DEF TypeOK, Ordered, Barren
    <2>4. Counted'
      BY GensNat DEF TypeOK, Counted
    <2> QED
      BY <2>1, <2>2, <2>3, <2>4
  <1>7. CASE AnswerDeleted(c)
    <2> USE <1>7 DEF AnswerDeleted, Ended, cluster, journal, history, call
    <2>1. TypeOK'
      BY GensNat DEF TypeOK
    <2>2. Ordered'
      BY GensNat DEF TypeOK, Ordered
    <2>3. Barren'
      BY GensNat DEF TypeOK, Ordered, Barren
    <2>4. Counted'
      BY GensNat DEF TypeOK, Counted
    <2> QED
      BY <2>1, <2>2, <2>3, <2>4
  <1>8. CASE CallFails(c)
    <2>1. faults' \in 0..MaxFaults
      BY <1>8, ProviderAssumption DEF CallFails, TypeOK
    <2> QED
      BY <1>8, <2>1, EndedIInv DEF CallFails
  <1> QED
    BY <1>1, <1>2, <1>3, <1>4, <1>5, <1>6, <1>7, <1>8

\* The steps of the journal.
LEMMA JournalIInv ==
    ASSUME IInv,
           \/ ConfirmTeardown
           \/ Occupy
           \/ Revoke
    PROVE  IInv'
  <1> USE DEF IInv, Steps, Anchored, PastToken, Fencing, PastFence
  <1>1. CASE ConfirmTeardown
    <2> USE <1>1 DEF ConfirmTeardown, cluster, journal, history, call
    <2>1. TypeOK'
      BY ProviderAssumption DEF TypeOK, Gens
    <2>2. Ordered'
      BY ProviderAssumption DEF TypeOK, Gens, Ordered
    <2>3. Barren'
      BY ProviderAssumption DEF TypeOK, Gens, Ordered, Barren
    <2>4. Counted'
      BY GensNat DEF TypeOK, Counted
    <2> QED
      BY <2>1, <2>2, <2>3, <2>4
  <1>2. CASE Occupy
    <2>0. /\ gen' \in 0..MaxGen /\ gen' = gen + 1
          /\ UNCHANGED <<cm, made, secret, owner, job, revoked, freed, fenced, told>>
          /\ UNCHANGED <<pc, arg, uid, tries, older, faults>>
      BY <1>2, ProviderAssumption DEF Occupy, TypeOK, cluster, history, call
    <2>1. TypeOK'
      BY <2>0 DEF TypeOK
    <2>2. \A g \in Gens : g < gen' => g \in freed
      <3> SUFFICES ASSUME NEW g \in Gens, g < gen' PROVE g \in freed
        OBVIOUS
      <3>1. g \in 1..MaxGen /\ gen \in 0..MaxGen /\ MaxGen \in Nat
        BY ProviderAssumption DEF Gens, TypeOK
      <3>2. g < gen \/ (g = gen /\ gen # 0)
        BY <2>0, <3>1
      <3> QED
        BY <1>2, <3>2 DEF Occupy, Ordered
    <2>3. Ordered'
      <3>1. \A g \in Gens : g <= gen => g <= gen'
        BY <2>0, GensNat DEF TypeOK
      <3> QED
        BY <2>0, <2>2, <3>1 DEF TypeOK, Ordered
    <2>4. Barren' /\ Counted'
      BY <2>0 DEF Barren, Counted
    <2> QED
      BY <2>1, <2>3, <2>4
  <1>3. CASE Revoke
    <2> USE <1>3 DEF Revoke, cluster, journal, history, call
    <2>1. TypeOK'
      BY ProviderAssumption DEF TypeOK, Gens
    <2>2. Ordered'
      BY ProviderAssumption DEF TypeOK, Gens, Ordered
    <2>3. Barren'
      BY ProviderAssumption DEF TypeOK, Gens, Ordered, Barren
    <2>4. Counted'
      BY GensNat DEF TypeOK, Counted
    <2> QED
      BY <2>1, <2>2, <2>3, <2>4
  <1> QED
    BY <1>1, <1>2, <1>3

\* The garbage collector and the kubelet.
LEMMA ClusterIInv ==
    ASSUME IInv, NEW g \in Gens,
           \/ CollectJob(g)
           \/ CollectSecret(g)
           \/ JobGone(g)
    PROVE  IInv'
  <1> USE DEF IInv, Steps, Anchored, PastToken, Fencing, PastFence
  <1>1. CASE CollectJob(g)
    <2> USE <1>1 DEF CollectJob, DeleteJob, cluster, journal, history, call
    <2>1. TypeOK'
      BY GensNat DEF TypeOK
    <2>2. Ordered'
      BY GensNat DEF TypeOK, Ordered
    <2>3. Barren'
      BY GensNat DEF TypeOK, Ordered, Barren
    <2>4. Counted'
      BY GensNat DEF TypeOK, Counted
    <2> QED
      BY <2>1, <2>2, <2>3, <2>4
  <1>2. CASE CollectSecret(g)
    <2>0. /\ secret' \in [Gens -> Nat]
          /\ \A h \in Gens : secret'[h] \in {0, secret[h]}
          /\ UNCHANGED <<cm, made, owner, job, gen, revoked, freed, fenced, told>>
          /\ UNCHANGED <<pc, arg, uid, tries, older, faults>>
      BY <1>2 DEF CollectSecret, TypeOK, journal, history, call
    <2>1. TypeOK'
      BY <2>0 DEF TypeOK
    <2>2. Ordered'
      BY <2>0 DEF TypeOK, Ordered
    <2>3. Barren'
      BY <2>0, GensNat DEF TypeOK, Barren, Counted
    <2>4. Counted'
      BY <2>0 DEF TypeOK, Counted
    <2> QED
      BY <2>1, <2>2, <2>3, <2>4
  <1>3. CASE JobGone(g)
    <2> USE <1>3 DEF JobGone, cluster, journal, history, call
    <2>1. TypeOK'
      BY GensNat DEF TypeOK
    <2>2. Ordered'
      BY GensNat DEF TypeOK, Ordered
    <2>3. Barren'
      BY GensNat DEF TypeOK, Ordered, Barren
    <2>4. Counted'
      BY GensNat DEF TypeOK, Counted
    <2> QED
      BY <2>1, <2>2, <2>3, <2>4
  <1> QED
    BY <1>1, <1>2, <1>3

\* Every step keeps the invariant.
LEMMA NextIInv == IInv /\ [Next]_vars => IInv'
  <1> SUFFICES ASSUME IInv, [Next]_vars PROVE IInv'
    OBVIOUS
  <1>1. CASE UNCHANGED vars
    BY <1>1 DEF vars, cluster, journal, history, call, IInv, TypeOK, Ordered, Barren, Counted
  <1>2. ASSUME NEW c \in Callers, NEW g \in Gens, StartProvision(c, g) \/ StartDelete(c, g)
        PROVE  IInv'
    BY <1>2, StartIInv
  <1>3. ASSUME NEW c \in Callers, Provisioning(c) PROVE IInv'
    BY <1>3, ReadIInv, ProvisionIInv DEF Provisioning
  <1>4. ASSUME NEW c \in Callers, Deleting(c) \/ CallFails(c) PROVE IInv'
    BY <1>4, ReadIInv, DeleteIInv DEF Deleting
  <1>5. ASSUME ConfirmTeardown \/ Occupy \/ Revoke PROVE IInv'
    BY <1>5, JournalIInv
  <1>6. ASSUME NEW g \in Gens, Cluster(g) PROVE IInv'
    BY <1>6, ClusterIInv DEF Cluster
  <1> QED
    BY <1>1, <1>2, <1>3, <1>4, <1>5, <1>6 DEF Next

\* The records, the order of the journal's and the provider's steps, and that an
\* anchor written over a pruned tombstone is barren, in every reachable state.
THEOREM Invariance == Spec => []IInv
  BY InitIInv, NextIInv, PTL DEF Spec

\* A fenced workload is dead, whatever anchor stands at its name.
LEMMA FencedIsDead ==
    ASSUME IInv, NEW g \in fenced
    PROVE  ~LiveJob(g) /\ ~LiveSecret(g)
  BY DEF IInv, TypeOK, Barren, LiveJob, LiveSecret, OwnerLives

\* Only the slot's occupant has a Job or a broker token under a live anchor,
\* however many stale provision and delete calls are under way.
THEOREM OccupantRuns == Spec => []OnlyTheOccupantRuns
  <1>1. IInv => OnlyTheOccupantRuns
    <2> SUFFICES ASSUME IInv, NEW g \in Gens, LiveJob(g) \/ LiveSecret(g)
                 PROVE  g = gen /\ g \notin freed
      BY DEF OnlyTheOccupantRuns
    <2>1. g \notin freed
      BY FencedIsDead DEF IInv, Ordered
    <2>2. g <= gen
      BY DEF IInv, Ordered, LiveJob, LiveSecret, OwnerLives
    <2>3. ~(g < gen)
      BY <2>1 DEF IInv, Ordered
    <2> QED
      BY <2>1, <2>2, <2>3, GensNat DEF IInv, TypeOK
  <1> QED
    BY Invariance, <1>1, PTL

\* A step that leaves records, Jobs and history alone changes nothing the
\* contract speaks of.
LEMMA StutterStep ==
    ASSUME UNCHANGED <<cm, made, owner, job, fenced, told>>
    PROVE  UNCHANGED Contract!vars
  BY DEF Contract!vars, Live, LiveJob, OwnerLives

\* A step that at most ends the Job of g, or takes its record away, removes g.
LEMMA RemoveStep ==
    ASSUME NEW g \in Gens, IInv, UNCHANGED <<made, owner, fenced, told>>,
           \A h \in Gens \ {g} : cm'[h] = cm[h] /\ job'[h] = job[h],
           \/ cm'[g] = cm[g] /\ job'[g] # "live"
           \/ cm'[g] = cm[g] /\ job'[g] = job[g]
           \/ cm'[g] # "active"
    PROVE  [Contract!Next]_Contract!vars
  <1>1. \A h \in Gens \ {g} : LiveJob(h)' <=> LiveJob(h)
    BY DEF LiveJob, OwnerLives
  <1>2. LiveJob(g)' => LiveJob(g)
    BY DEF LiveJob, OwnerLives
  <1>3. Live' = Live \/ Live' = Live \ {g}
    BY <1>1, <1>2 DEF Live
  <1>4. CASE Live' = Live
    BY <1>4 DEF Contract!vars
  <1>5. CASE Live' = Live \ {g}
    BY <1>5 DEF Contract!Next, Contract!Remove
  <1> QED
    BY <1>3, <1>4, <1>5

\* The provider implements the contract it was written against: nothing of a
\* workload comes to life once it was fenced, and Deleted is answered only for
\* a workload that is fenced and dead.
THEOREM ProviderRefines == Spec => ImplementsContract
  <1>1. Init => Contract!Init
    BY DEF Init, Contract!Init, Live, LiveJob
  <1>2. IInv /\ [Next]_vars => [Contract!Next]_Contract!vars
    <2> SUFFICES ASSUME IInv, [Next]_vars PROVE [Contract!Next]_Contract!vars
      OBVIOUS
    <2> USE DEF cluster, journal, history, call
    <2>1. CASE UNCHANGED vars
      BY <2>1, StutterStep DEF vars
    <2>2. ASSUME NEW c \in Callers, NEW g \in Gens, StartProvision(c, g) \/ StartDelete(c, g)
          PROVE  UNCHANGED Contract!vars
      BY <2>2, StutterStep DEF StartProvision, StartDelete
    <2>3. ASSUME NEW c \in Callers,
                 \/ CheckFences(c) \/ GetAnchor(c) \/ EnsureToken(c) \/ PutToken(c)
                 \/ FindJob(c) \/ Recheck(c) \/ FenceGet(c) \/ DeleteSecrets(c)
                 \/ ListJobs(c) \/ ListSecrets(c) \/ ListTombstones(c) \/ CallFails(c)
          PROVE  UNCHANGED Contract!vars
      BY <2>3, StutterStep
      DEF CheckFences, GetAnchor, EnsureToken, PutToken, FindJob, Recheck, FenceGet,
          DeleteSecrets, ListJobs, ListSecrets, ListTombstones, CallFails
    <2>4. ASSUME NEW c \in Callers, CreateAnchor(c) PROVE UNCHANGED Contract!vars
      <3>1. arg[c] \in Gens
        BY DEF IInv, TypeOK
      <3>2. CASE cm[arg[c]] # "none"
        BY <2>4, <3>2, StutterStep DEF CreateAnchor
      <3>3. CASE cm[arg[c]] = "none"
        <4>1. /\ \A h \in Gens \ {arg[c]} : cm'[h] = cm[h] /\ made'[h] = made[h]
              /\ made'[arg[c]] = made[arg[c]] + 1
              /\ UNCHANGED <<owner, job, fenced, told>>
          BY <2>4, <3>1, <3>3 DEF CreateAnchor, IInv, TypeOK
        <4>2. \A h \in Gens \ {arg[c]} : LiveJob(h)' <=> LiveJob(h)
          BY <4>1 DEF LiveJob, OwnerLives
        <4>3. ASSUME NEW h \in Gens, h = arg[c] PROVE ~LiveJob(h) /\ ~LiveJob(h)'
          <5>1. owner'[h] = owner[h] /\ owner[h] <= made[h] /\ made'[h] = made[h] + 1
            BY <4>1, <4>3 DEF IInv, Counted
          <5>2. owner'[h] # made'[h]
            BY <5>1 DEF IInv, TypeOK
          <5> QED
            BY <3>3, <4>3, <5>2 DEF LiveJob, OwnerLives
        <4>4. \A h \in Gens : LiveJob(h)' <=> LiveJob(h)
          BY <4>2, <4>3
        <4>5. Live' = Live
          BY <4>4 DEF Live
        <4> QED
          BY <4>1, <4>5 DEF Contract!vars
      <3> QED
        BY <3>2, <3>3
    <2>5. ASSUME NEW c \in Callers, SubmitJob(c) PROVE [Contract!Next]_Contract!vars
      <3>1. arg[c] \in Gens /\ pc[c] = "submit"
        BY <2>5 DEF IInv, TypeOK, SubmitJob
      <3>2. CASE ~(\A h \in Gens : job[h] = "none")
        BY <2>5, <3>2, StutterStep DEF SubmitJob
      <3>3. CASE \A h \in Gens : job[h] = "none"
        <4>1. /\ \A h \in Gens \ {arg[c]} : job'[h] = "none"
              /\ owner'[arg[c]] = uid[c]
              /\ UNCHANGED <<cm, made, fenced, told>>
          BY <2>5, <3>1, <3>3 DEF SubmitJob, IInv, TypeOK
        <4>2. /\ \A h \in Gens : ~LiveJob(h)
              /\ \A h \in Gens \ {arg[c]} : ~LiveJob(h)'
          BY <3>3, <4>1 DEF LiveJob
        <4>6. Live = {} /\ (Live' = {} \/ Live' = {arg[c]})
          BY <3>1, <4>2 DEF Live
        <4>3. arg[c] \in Live' => arg[c] \notin fenced
          <5>1. arg[c] \in fenced /\ cm[arg[c]] = "active" => uid[c] # made[arg[c]]
            BY <3>1 DEF IInv, Barren, PastToken, Anchored
          <5>2. arg[c] \in Live' => cm[arg[c]] = "active" /\ made[arg[c]] = uid[c]
            BY <3>1, <4>1 DEF Live, LiveJob, OwnerLives
          <5> QED
            BY <5>1, <5>2
        <4>4. CASE Live' = {}
          BY <4>1, <4>4, <4>6 DEF Contract!vars
        <4>5. CASE Live' = {arg[c]}
          BY <3>1, <4>1, <4>3, <4>5, <4>6 DEF Contract!Next, Contract!Create
        <4> QED
          BY <4>4, <4>5, <4>6
      <3> QED
        BY <3>2, <3>3
    <2>6. ASSUME NEW c \in Callers,
                 UndoJob(c) \/ DeleteJobs(c) \/ Unanchor(c)
          PROVE  [Contract!Next]_Contract!vars
      <3>1. arg[c] \in Gens
        BY DEF IInv, TypeOK
      <3>2. CASE UndoJob(c) \/ DeleteJobs(c)
        BY <3>1, <3>2, RemoveStep DEF UndoJob, DeleteJobs, DeleteJob, IInv, TypeOK
      <3>3. CASE Unanchor(c)
        BY <3>1, <3>3, RemoveStep DEF Unanchor, IInv, TypeOK
      <3> QED
        BY <2>6, <3>2, <3>3
    <2>7. ASSUME NEW c \in Callers, Prune(c) PROVE [Contract!Next]_Contract!vars
      <3>1. PICK h \in older[c] : cm' = [cm EXCEPT ![h] = "none"]
        BY <2>7 DEF Prune
      <3>2. h \in Gens
        BY DEF IInv, TypeOK
      <3>3. UNCHANGED <<made, owner, job, fenced, told>>
        BY <2>7 DEF Prune
      <3> QED
        BY <3>1, <3>2, <3>3, RemoveStep DEF IInv, TypeOK
    <2>8. ASSUME NEW c \in Callers, Bury(c) PROVE [Contract!Next]_Contract!vars
      <3>1. arg[c] \in Gens
        BY DEF IInv, TypeOK
      <3>2. CASE cm[arg[c]] # "none"
        BY <2>8, <3>2, StutterStep DEF Bury
      <3>3. CASE cm[arg[c]] = "none"
        <4>1. /\ cm' = [cm EXCEPT ![arg[c]] = "tombstone"]
              /\ fenced' = fenced \cup {arg[c]}
              /\ UNCHANGED <<made, owner, job, told>>
          BY <2>8, <3>3 DEF Bury
        <4>2. \A h \in Gens : LiveJob(h)' <=> LiveJob(h)
          BY <3>1, <3>3, <4>1 DEF LiveJob, OwnerLives, IInv, TypeOK
        <4>3. Live' = Live
          BY <4>2 DEF Live
        <4> QED
          BY <3>1, <4>1, <4>3 DEF Contract!Next, Contract!Fence
      <3> QED
        BY <3>2, <3>3
    <2>9. ASSUME NEW c \in Callers, AnswerDeleted(c) PROVE [Contract!Next]_Contract!vars
      <3>1. arg[c] \in Gens /\ arg[c] \in fenced
        BY <2>9 DEF AnswerDeleted, IInv, TypeOK, Ordered, PastFence
      <3>2. arg[c] \notin Live
        BY <3>1, FencedIsDead DEF Live
      <3>3. Live' = Live
        BY <2>9 DEF AnswerDeleted, Live, LiveJob, OwnerLives
      <3> QED
        BY <2>9, <3>1, <3>2, <3>3 DEF AnswerDeleted, Contract!Next, Contract!Deleted
    <2>10. ASSUME ConfirmTeardown \/ Occupy \/ Revoke PROVE UNCHANGED Contract!vars
      BY <2>10, StutterStep DEF ConfirmTeardown, Occupy, Revoke
    <2>11. ASSUME NEW g \in Gens, Cluster(g) PROVE [Contract!Next]_Contract!vars
      <3>1. CASE CollectJob(g)
        BY <3>1, RemoveStep DEF CollectJob, DeleteJob, IInv, TypeOK
      <3>2. CASE CollectSecret(g)
        BY <3>2, StutterStep DEF CollectSecret
      <3>3. CASE JobGone(g)
        BY <3>3, RemoveStep DEF JobGone, IInv, TypeOK
      <3> QED
        BY <2>11, <3>1, <3>2, <3>3 DEF Cluster
    <2> QED
      BY <2>1, <2>2, <2>3, <2>4, <2>5, <2>6, <2>7, <2>8, <2>9, <2>10, <2>11
      DEF Next, Provisioning, Deleting
  <1> QED
    BY <1>1, <1>2, Invariance, PTL DEF Spec, ImplementsContract, Contract!Spec
=============================================================================
