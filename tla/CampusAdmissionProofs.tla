------------------------ MODULE CampusAdmissionProofs ------------------------
(***************************************************************************)
(* Proofs about CampusAdmission: its inductive invariant, and from it that *)
(* a lab has one live session, that no session is replaced twice and that  *)
(* a key is always answered with one session, for every number of labs,    *)
(* sessions, keys, slots and requests.                                     *)
(*                                                                         *)
(* The argument: only the admission transaction writes the rows that the   *)
(* invariant relates (Admission); the other steps either change requests,  *)
(* or end sessions, which only widens gone (PoolStep).  The limits are kept*)
(* because an admission that has room adds one lab to what it counted, and *)
(* the other steps add none (PlacesMove).                                  *)
(***************************************************************************)
EXTENDS CampusAdmission, TLAPS, FiniteSetTheorems

LEMMA NilIsNone == Nil \notin Sessions /\ Nil \notin Labs /\ Nil \notin Keys
BY AdmissionAssumption

LEMMA InitIInv == Init => IInv
BY NilIsNone DEF Init, Pool!Init, IInv, TypeOK, RowsAgree, RequestsAgree, Requests, NoRequest,
    Resting, Live, OneLiveSessionPerLab, ReplacedOnce

\* What the verdict of a created session rules out.
LEMMA CreatedMeans ==
    ASSUME NEW l \in Labs, NEW key, NEW prev, Verdict(l, key, prev) = "created"
    PROVE  ~KeyKnown(l, key) /\ ~Superseded(l, prev) /\ ~StillLive(l)
BY DEF Verdict

\* When an existing session is the answer, it is the key's, or the request has
\* no key, or it is the lab's session that lives.
LEMMA AnsweredMeans ==
    ASSUME NEW l \in Labs, NEW key, NEW prev,
           Verdict(l, key, prev) \in {"active", "replayed"}
    PROVE  \/ KeyKnown(l, key) /\ Verdict(l, key, prev) = "replayed"
           \/ ~KeyKnown(l, key) /\ prev # Nil
           \/ ~KeyKnown(l, key) /\ Verdict(l, key, prev) = "active" /\ StillLive(l)
<1>1. CASE KeyKnown(l, key)
  BY <1>1 DEF Verdict
<1>2. CASE ~KeyKnown(l, key) /\ Superseded(l, prev)
  BY <1>2 DEF Superseded
<1>3. CASE ~KeyKnown(l, key) /\ ~Superseded(l, prev) /\ StillLive(l)
  BY <1>3 DEF Verdict
<1>4. CASE ~KeyKnown(l, key) /\ ~Superseded(l, prev) /\ ~StillLive(l)
  BY <1>4 DEF Verdict
<1> QED
  BY <1>1, <1>2, <1>3, <1>4

\* The types of the rows.
RowTypes ==
    /\ current \in [Labs -> Sessions \cup {Nil}]
    /\ reset \subseteq Labs
    /\ lab \in [Sessions -> Labs \cup {Nil}]
    /\ from \in [Sessions -> Sessions \cup {Nil}]
    /\ stop \subseteq Sessions
    /\ keyed \in [Students -> [Keys -> Sessions \cup {Nil}]]
    /\ told \in [Students -> [Keys -> SUBSET Sessions]]
    /\ gone \subseteq Sessions

KeysAgree ==
    \A u \in Students, key \in Keys :
       /\ keyed[u][key] # Nil => Admitted(keyed[u][key])
       /\ told[u][key] \subseteq {keyed[u][key]}

\* A new session keeps the rows in agreement.
LEMMA CreateKeeps ==
    ASSUME RowTypes, RowsAgree, NEW l \in Labs, NEW key \in Keys \cup {Nil},
           NEW prev \in Sessions \cup {Nil}, NEW s \in Sessions,
           Verdict(l, key, prev) = "created", Create(l, key, prev, s), UNCHANGED gone
    PROVE  RowTypes' /\ RowsAgree'
<1> USE NilIsNone
<1>1. ~KeyKnown(l, key) /\ ~Superseded(l, prev) /\ ~StillLive(l)
  BY CreatedMeans
<1>2. /\ lab[s] = Nil
      /\ lab' = [lab EXCEPT ![s] = l]
      /\ from' = [from EXCEPT ![s] = prev]
      /\ current' = [current EXCEPT ![l] = s]
      /\ reset' = reset \ {l}
      /\ stop' = stop
      /\ gone' = gone
  BY DEF Create
<1>3. Owner[l] \in Students
  BY AdmissionAssumption
<1>4. /\ keyed' = IF key # Nil THEN [keyed EXCEPT ![Owner[l]][key] = s] ELSE keyed
      /\ told' = IF key # Nil THEN [told EXCEPT ![Owner[l]][key] = @ \cup {s}] ELSE told
  BY DEF Create, NotesKey, Tells
<1>5. RowTypes'
  <2>1. CASE key = Nil
    BY <1>2, <1>4, <2>1 DEF RowTypes
  <2>2. CASE key \in Keys
    <3>1. keyed' \in [Students -> [Keys -> Sessions \cup {Nil}]]
      BY <1>3, <1>4, <2>2 DEF RowTypes
    <3>2. told' \in [Students -> [Keys -> SUBSET Sessions]]
      BY <1>3, <1>4, <2>2 DEF RowTypes
    <3> QED
      BY <1>2, <3>1, <3>2 DEF RowTypes
  <2> QED
    BY <2>1, <2>2
<1>6. ASSUME NEW t \in Sessions, Admitted(t)
      PROVE  t # s /\ lab'[t] = lab[t] /\ from'[t] = from[t] /\ Admitted(t)'
  BY <1>2, <1>6 DEF Admitted, RowTypes
<1>7. Admitted(s)' /\ lab'[s] = l /\ from'[s] = prev /\ current'[l] = s
  BY <1>2 DEF Admitted, RowTypes
<1>8. \A t \in gone' : Admitted(t)'
  BY <1>2, <1>6 DEF RowsAgree, RowTypes
<1>9. ASSUME NEW m \in Labs, current'[m] # Nil PROVE Names(m, current[m])'
  <2>1. CASE m = l
    BY <1>7, <2>1 DEF Names, Admitted
  <2>2. CASE m # l
    <3>1. current'[m] = current[m] /\ current[m] \in Sessions
      BY <1>2, <1>9, <2>2 DEF RowTypes
    <3>2. Admitted(current[m]) /\ lab[current[m]] = m
      BY <1>9, <3>1 DEF RowsAgree, Names
    <3> QED
      BY <1>6, <3>1, <3>2 DEF Names, Admitted
  <2> QED
    BY <2>1, <2>2
<1>10. OneLiveSessionPerLab'
  <2> SUFFICES ASSUME NEW t \in Sessions, lab'[t] # Nil, t \notin gone
               PROVE  current'[lab'[t]] = t
    BY <1>2 DEF OneLiveSessionPerLab, Live
  <2>1. CASE t = s
    BY <1>7, <2>1
  <2>2. CASE t # s
    <3>1. lab'[t] = lab[t] /\ lab[t] \in Labs
      BY <1>2, <2>2 DEF RowTypes
    <3>2. current[lab[t]] = t
      BY <3>1 DEF RowsAgree, OneLiveSessionPerLab, Live
    <3>3. lab[t] # l
      BY <1>1, <3>2 DEF StillLive
    <3> QED
      BY <1>2, <3>1, <3>2, <3>3 DEF RowTypes
  <2> QED
    BY <2>1, <2>2
<1>11. prev # Nil => prev = current[l] /\ prev \in gone /\ Names(l, prev)
  BY <1>1 DEF Superseded, StillLive, RowsAgree
<1>12. ASSUME NEW t \in Sessions, from'[t] # Nil
       PROVE  /\ Admitted(t)' /\ from'[t] \in gone' /\ Names(lab[t], from[t])'
              /\ current'[lab'[t]] # from'[t]
  <2>1. CASE t = s
    <3>1. prev \in gone /\ Admitted(prev) /\ lab[prev] = l /\ prev \in Sessions
      BY <1>7, <1>11, <1>12, <2>1 DEF Names, Admitted
    <3>2. lab'[prev] = l /\ prev # s
      BY <1>6, <3>1
    <3> QED
      BY <1>2, <1>7, <2>1, <3>1, <3>2 DEF Names, Admitted
  <2>2. CASE t # s
    <3>1. from'[t] = from[t] /\ lab'[t] = lab[t]
      BY <1>2, <2>2 DEF RowTypes
    <3>2. /\ Admitted(t) /\ from[t] \in gone /\ Admitted(from[t])
          /\ lab[from[t]] = lab[t] /\ current[lab[t]] # from[t]
      BY <1>12, <3>1 DEF RowsAgree, Names
    <3>3. from[t] # s /\ lab'[from[t]] = lab[from[t]] /\ from[t] \in Sessions
      BY <1>6, <3>2 DEF Admitted
    <3>4. current'[lab[t]] \in {current[lab[t]], s}
      BY <1>2, <3>2 DEF Admitted, RowTypes
    <3> QED
      BY <1>2, <1>6, <3>1, <3>2, <3>3, <3>4 DEF Names, Admitted
  <2> QED
    BY <2>1, <2>2
<1>13. ReplacedOnce'
  <2>1. ASSUME NEW t \in Sessions, t # s, from[t] # Nil PROVE from[t] # prev
    <3>1. Names(lab[t], from[t]) /\ current[lab[t]] # from[t]
      BY <2>1 DEF RowsAgree
    <3> QED
      BY <1>11, <2>1, <3>1 DEF Names
  <2>2. \A t \in Sessions \ {s} : from'[t] = from[t]
    BY <1>2 DEF RowTypes
  <2> QED
    BY <1>7, <2>1, <2>2 DEF ReplacedOnce, RowsAgree
<1>14. KeysAgree'
  <2> SUFFICES ASSUME NEW u \in Students, NEW k \in Keys
               PROVE  /\ keyed'[u][k] # Nil => Admitted(keyed[u][k])'
                      /\ told'[u][k] \subseteq {keyed'[u][k]}
    BY DEF KeysAgree
  <2>1. /\ keyed[u][k] # Nil => Admitted(keyed[u][k])
        /\ told[u][k] \subseteq {keyed[u][k]}
        /\ told[u][k] \subseteq Sessions
        /\ keyed[u][k] \in Sessions \cup {Nil}
    BY DEF RowsAgree, RowTypes
  <2>2. CASE keyed'[u][k] = keyed[u][k] /\ told'[u][k] = told[u][k]
    BY <1>6, <2>1, <2>2
  <2>3. CASE key # Nil /\ u = Owner[l] /\ k = key
    <3>1. keyed'[u][k] = s /\ told'[u][k] = told[u][k] \cup {s}
      BY <1>4, <2>3 DEF RowTypes
    <3>2. keyed[u][k] = Nil
      BY <1>1, <2>3 DEF KeyKnown
    <3>3. told[u][k] = {}
      BY <2>1, <3>2
    <3> QED
      BY <1>7, <3>1, <3>3
  <2>4. CASE ~(key # Nil /\ u = Owner[l] /\ k = key)
    BY <1>3, <1>4, <2>2, <2>4 DEF RowTypes
  <2> QED
    BY <2>3, <2>4
<1> QED
  BY <1>5, <1>8, <1>9, <1>10, <1>12, <1>13, <1>14 DEF RowsAgree, KeysAgree

\* An answer with an existing session only notes the key.
LEMMA AnswerKeeps ==
    ASSUME RowTypes, RowsAgree, NEW l \in Labs, NEW key \in Keys \cup {Nil},
           NEW prev \in Sessions \cup {Nil}, key = Nil \/ prev = Nil,
           NEW verdict \in {"active", "replayed"}, verdict = Verdict(l, key, prev),
           NotesKey(l, key, Answered(l, key), verdict), Tells(l, key, Answered(l, key)),
           UNCHANGED <<current, reset, lab, from, stop, gone>>
    PROVE  RowTypes' /\ RowsAgree'
<1> USE NilIsNone
<1>1. CASE key = Nil
  <2>1. keyed' = keyed /\ told' = told
    BY <1>1 DEF NotesKey, Tells
  <2> QED
    BY <2>1 DEF RowTypes, RowsAgree, Admitted, Names, OneLiveSessionPerLab, ReplacedOnce, Live
<1>2. CASE key \in Keys
  <2> DEFINE u == Owner[l]
             s == Answered(l, key)
  <2>0. u \in Students
    BY AdmissionAssumption
  <2>1. s \in Sessions /\ Admitted(s) /\ (keyed[u][key] = s \/ keyed[u][key] = Nil)
    <3>1. CASE KeyKnown(l, key)
      BY <1>2, <2>0, <3>1 DEF KeyKnown, Answered, RowsAgree, RowTypes
    <3>2. CASE ~KeyKnown(l, key)
      <4>1. current[l] # Nil /\ keyed[u][key] = Nil
        BY <1>2, <3>2, AnsweredMeans DEF KeyKnown, StillLive
      <4> QED
        BY <3>2, <4>1 DEF Answered, RowsAgree, RowTypes, Names
    <3> QED
      BY <3>1, <3>2
  <2>2. keyed' = [keyed EXCEPT ![u][key] = s] \/ (keyed' = keyed /\ keyed[u][key] = s)
    <3>1. CASE KeyKnown(l, key)
      <4>1. verdict = "replayed"
        BY <3>1, AnsweredMeans
      <4> QED
        BY <3>1, <4>1 DEF NotesKey, Answered
    <3>2. CASE ~KeyKnown(l, key)
      <4>1. verdict = "active"
        BY <1>2, <3>2, AnsweredMeans
      <4> QED
        BY <1>2, <4>1 DEF NotesKey
    <3> QED
      BY <3>1, <3>2
  <2>3. told' = [told EXCEPT ![u][key] = @ \cup {s}]
    BY <1>2 DEF Tells
  <2> HIDE DEF s, u
  <2>4. RowTypes'
    <3>1. keyed' \in [Students -> [Keys -> Sessions \cup {Nil}]]
      <4>1. keyed \in [Students -> [Keys -> Sessions \cup {Nil}]] /\ s \in Sessions \cup {Nil}
        BY <2>1 DEF RowTypes
      <4>2. CASE keyed' = [keyed EXCEPT ![u][key] = s]
        BY <1>2, <2>0, <4>1, <4>2
      <4> QED
        BY <2>2, <4>1, <4>2
    <3>2. told' \in [Students -> [Keys -> SUBSET Sessions]]
      BY <1>2, <2>0, <2>1, <2>3 DEF RowTypes
    <3> QED
      BY <3>1, <3>2 DEF RowTypes
  <2>5. ASSUME NEW v \in Students, NEW k \in Keys
        PROVE  /\ keyed'[v][k] # Nil => Admitted(keyed[v][k])'
               /\ told'[v][k] \subseteq {keyed'[v][k]}
    <3>1. /\ keyed[v][k] # Nil => Admitted(keyed[v][k])
          /\ told[v][k] \subseteq {keyed[v][k]}
          /\ told[v][k] \subseteq Sessions
      BY DEF RowsAgree, RowTypes
    <3>2. CASE v = u /\ k = key
      <4>1. keyed'[v][k] = s /\ told'[v][k] = told[v][k] \cup {s}
        BY <1>2, <2>0, <2>2, <2>3, <3>2 DEF RowTypes
      <4>2. told[v][k] \subseteq {s}
        BY <2>1, <3>1, <3>2
      <4> QED
        BY <2>1, <4>1, <4>2 DEF Admitted
    <3>3. CASE ~(v = u /\ k = key)
      <4>1. keyed'[v][k] = keyed[v][k] /\ told'[v][k] = told[v][k]
        BY <1>2, <2>0, <2>2, <2>3, <3>3 DEF RowTypes
      <4> QED
        BY <3>1, <4>1 DEF Admitted
    <3> QED
      BY <3>2, <3>3
  <2>6. KeysAgree'
    BY <2>5 DEF KeysAgree
  <2> QED
    BY <2>4, <2>6 DEF RowTypes, RowsAgree, KeysAgree, Admitted, Names, OneLiveSessionPerLab,
                      ReplacedOnce, Live
<1> QED
  BY <1>1, <1>2

\* The admission transaction keeps the rows in agreement, and forgets no
\* session.
LEMMA Admission ==
    ASSUME RowTypes, RowsAgree, NEW l \in Labs, NEW key \in Keys \cup {Nil},
           NEW prev \in Sessions \cup {Nil}, key = Nil \/ prev = Nil,
           NEW verdict, AdmitLaunch(l, key, prev, verdict), UNCHANGED gone
    PROVE  /\ RowTypes' /\ RowsAgree'
           /\ \A t \in Sessions : lab[t] # Nil => lab'[t] = lab[t]
<1>1. CASE verdict = "created" /\ \E s \in Sessions : Create(l, key, prev, s)
  <2>1. PICK s \in Sessions : Create(l, key, prev, s)
    BY <1>1
  <2>2. Verdict(l, key, prev) = "created"
    BY <1>1 DEF AdmitLaunch
  <2>3. \A t \in Sessions : lab[t] # Nil => lab'[t] = lab[t]
    BY <2>1 DEF Create, RowTypes
  <2> QED
    BY <2>1, <2>2, <2>3, CreateKeeps
<1>2. CASE /\ verdict \in {"active", "replayed"}
           /\ NotesKey(l, key, Answered(l, key), verdict)
           /\ Tells(l, key, Answered(l, key))
           /\ UNCHANGED <<current, reset, lab, from, stop>>
  <2>1. verdict = Verdict(l, key, prev)
    BY DEF AdmitLaunch
  <2> QED
    BY <1>2, <2>1, AnswerKeeps
<1>3. CASE UNCHANGED rows
  BY <1>3 DEF rows, RowTypes, RowsAgree, Admitted, Names, OneLiveSessionPerLab, ReplacedOnce, Live
<1> QED
  BY <1>1, <1>2, <1>3 DEF AdmitLaunch

\* A session that ends, or is asked to stop, changes none of what the rows
\* relate.
LEMMA PoolStep ==
    ASSUME RowTypes, RowsAgree, UNCHANGED <<current, lab, from, keyed, told>>,
           NEW s \in Sessions, Admitted(s), gone' \in {gone, gone \cup {s}}
    PROVE  RowsAgree'
BY DEF RowTypes, RowsAgree, Admitted, Names, OneLiveSessionPerLab, ReplacedOnce, Live

\* The rest of the types.
RequestTypes ==
    /\ req \in [Clients -> Requests]
    /\ \A c \in Clients : req[c].op # "none" => req[c].lab \in Labs
    /\ \A c \in Clients : req[c].op \in {"stop", "stop_reset"} => req[c].session \in Sessions
    /\ todo \subseteq [lab : Labs, session : Sessions]
    /\ at \in [step : {"idle", "admit", "clear"}, lab : Labs \cup {Nil},
               session : Sessions \cup {Nil}]
    /\ at.step # "idle" => at.lab \in Labs /\ at.session \in Sessions

PoolTypes ==
    /\ holder \in [Slots -> Sessions \cup {Nil}]
    /\ live \subseteq Sessions
    /\ held \subseteq Slots
    /\ member \subseteq Labs

LEMMA TypeParts == TypeOK <=> RowTypes /\ RequestTypes /\ PoolTypes
BY DEF TypeOK, RowTypes, RequestTypes, PoolTypes

\* A request that is taken, or answered, leaves what is under way in agreement.
LEMMA RequestChanges ==
    ASSUME RequestTypes, RequestsAgree, UNCHANGED <<todo, at>>, NEW c \in Clients,
           \A t \in Sessions : lab[t] # Nil => lab'[t] = lab[t],
           NEW r \in Requests, req' = [req EXCEPT ![c] = r],
           r.op # "none" => r.lab \in Labs,
           r.op \in {"stop", "stop_reset"} => r.session \in Sessions,
           r.session # Nil => Names(r.lab, r.session) /\ r.key = Nil
    PROVE  RequestTypes' /\ RequestsAgree'
<1>1. RequestTypes'
  BY DEF RequestTypes
<1>2. ASSUME NEW d \in Clients, req'[d].session # Nil
      PROVE  Names(req[d].lab, req[d].session)' /\ req'[d].key = Nil
  <2>1. CASE d = c
    <3>1. req'[d] = r
      BY <2>1 DEF RequestTypes
    <3> QED
      BY <1>2, <3>1 DEF Names, Admitted
  <2>2. CASE d # c
    <3>1. req'[d] = req[d]
      BY <2>2 DEF RequestTypes
    <3> QED
      BY <1>2, <3>1 DEF RequestsAgree, Names, Admitted
  <2> QED
    BY <2>1, <2>2
<1> QED
  BY <1>1, <1>2 DEF RequestsAgree, Names, Admitted, RequestTypes

\* Every step keeps the invariant.
LEMMA StepIInv == IInv /\ [Next]_vars => IInv'
<1> SUFFICES ASSUME IInv, [Next]_vars PROVE IInv'
  OBVIOUS
<1> USE NilIsNone
<1>1. RowTypes /\ RequestTypes /\ PoolTypes /\ RowsAgree /\ RequestsAgree /\ TypeOK
  BY TypeParts DEF IInv
<1>g. ASSUME RowTypes', RequestTypes', PoolTypes', RowsAgree', RequestsAgree' PROVE IInv'
  <2>1. RowTypes' /\ RequestTypes' /\ PoolTypes' <=> TypeOK'
    BY DEF TypeOK, RowTypes, RequestTypes, PoolTypes
  <2> QED
    BY <1>g, <2>1 DEF IInv
<1>p. ASSUME UNCHANGED <<pool, around>> PROVE PoolTypes'
  BY <1>1, <1>p DEF PoolTypes, pool, around
<1>r. ASSUME UNCHANGED <<rows, gone>> PROVE RowTypes' /\ RowsAgree'
  BY <1>1, <1>r DEF rows, RowTypes, RowsAgree, Admitted, Names, OneLiveSessionPerLab,
                    ReplacedOnce, Live
<1>q. ASSUME UNCHANGED <<lab, req, todo, at>> PROVE RequestTypes' /\ RequestsAgree'
  BY <1>1, <1>q DEF RequestTypes, RequestsAgree, Names, Admitted
<1>none. NoRequest \in Requests /\ NoRequest.op = "none" /\ NoRequest.session = Nil
  BY DEF NoRequest, Requests
<1>2. ASSUME NEW c \in Clients, NEW l \in Labs, NEW key \in Keys \cup {Nil}, Launch(c, l, key)
      PROVE  IInv'
  <2> DEFINE r == [op |-> "admit", lab |-> l, key |-> key, session |-> Nil]
  <2>1. r \in Requests /\ r.lab = l /\ r.session = Nil /\ r.op = "admit"
    BY DEF Requests
  <2>2. req' = [req EXCEPT ![c] = r] /\ UNCHANGED <<rows, pool, around, todo, at>>
    BY <1>2 DEF Launch, Asks
  <2> HIDE DEF r
  <2>3. RequestTypes' /\ RequestsAgree'
    BY <1>1, <2>1, <2>2, RequestChanges DEF rows
  <2> QED
    BY <1>g, <1>p, <1>r, <2>2, <2>3 DEF pool
<1>3. ASSUME NEW c \in Clients, NEW s \in Sessions, Reset(c, s) \/ Stop(c, s) PROVE IInv'
  <2>1. PICK op \in {"admit", "stop", "stop_reset"} :
           req' = [req EXCEPT ![c] = [op |-> op, lab |-> lab[s], key |-> Nil, session |-> s]]
    BY <1>3 DEF Reset, Stop, Asks
  <2> DEFINE r == [op |-> op, lab |-> lab[s], key |-> Nil, session |-> s]
  <2>2. lab[s] \in Labs /\ Names(lab[s], s) /\ UNCHANGED <<rows, pool, around, todo, at>>
    BY <1>1, <1>3 DEF Reset, Stop, RowTypes, Names, Admitted
  <2>3. /\ r \in Requests /\ r.lab \in Labs /\ r.session \in Sessions
        /\ Names(r.lab, r.session) /\ r.key = Nil
    BY <2>2 DEF Requests
  <2>4. req' = [req EXCEPT ![c] = r]
    BY <2>1
  <2> HIDE DEF r
  <2>5. RequestTypes' /\ RequestsAgree'
    BY <1>1, <2>2, <2>3, <2>4, RequestChanges DEF rows
  <2> QED
    BY <1>g, <1>p, <1>r, <2>2, <2>5 DEF pool
<1>4. ASSUME NEW c \in Clients, Admit(c) PROVE IInv'
  <2>1. /\ req[c].lab \in Labs /\ req[c].key \in Keys \cup {Nil}
        /\ req[c].session \in Sessions \cup {Nil}
        /\ req[c].key = Nil \/ req[c].session = Nil
    BY <1>1, <1>4 DEF Admit, RequestTypes, Requests, RequestsAgree
  <2>2. /\ req' = [req EXCEPT ![c] = NoRequest]
        /\ UNCHANGED <<pool, around, todo, at>>
        /\ \E verdict : AdmitLaunch(req[c].lab, req[c].key, req[c].session, verdict)
    BY <1>4 DEF Admit, Answers
  <2>3. /\ RowTypes' /\ RowsAgree'
        /\ \A t \in Sessions : lab[t] # Nil => lab'[t] = lab[t]
    BY <1>1, <2>1, <2>2, Admission DEF pool
  <2>4. RequestTypes' /\ RequestsAgree'
    BY <1>1, <1>none, <2>2, <2>3, RequestChanges
  <2> QED
    BY <1>g, <1>p, <2>2, <2>3, <2>4
<1>5. ASSUME NEW c \in Clients, StopIn(c) PROVE IInv'
  <2>1. /\ req[c].lab \in Labs /\ req[c].session \in Sessions
        /\ req' = [req EXCEPT ![c] = NoRequest]
        /\ UNCHANGED <<current, lab, from, keyed, told, pool, around, todo, at>>
    BY <1>1, <1>5 DEF StopIn, Answers, RequestTypes
  <2>2. stop' \subseteq Sessions /\ reset' \subseteq Labs
    BY <1>1, <1>5, <2>1 DEF StopIn, MarksReset, RowTypes
  <2>3. Admitted(req[c].session)
    BY <1>1, <2>1 DEF RequestsAgree, Names
  <2>4. RowTypes' /\ RowsAgree'
    <3>1. RowTypes'
      BY <1>1, <2>1, <2>2 DEF RowTypes, pool
    <3>2. RowsAgree'
      BY <1>1, <2>1, <2>3, PoolStep DEF pool
    <3> QED
      BY <3>1, <3>2
  <2>5. RequestTypes' /\ RequestsAgree'
    BY <1>1, <1>none, <2>1, RequestChanges
  <2> QED
    BY <1>g, <1>p, <2>1, <2>4, <2>5
<1>6. ASSUME ListResets PROVE IInv'
  <2>1. UNCHANGED <<rows, pool, around, req, at>>
    BY <1>6 DEF ListResets
  <2>2. ASSUME NEW l \in reset, current[l] \in gone
        PROVE  l \in Labs /\ current[l] \in Sessions /\ Names(l, current[l])
    BY <1>1, <2>2 DEF RowTypes, RowsAgree
  <2>3. todo' = {[lab |-> l, session |-> current[l]] : l \in {m \in reset : current[m] \in gone}}
    BY <1>6 DEF ListResets
  <2>4. ASSUME NEW t \in todo'
        PROVE  t \in [lab : Labs, session : Sessions] /\ Names(t.lab, t.session)
    <3>1. PICK l \in {m \in reset : current[m] \in gone} : t = [lab |-> l, session |-> current[l]]
      BY <2>3, <2>4
    <3> QED
      BY <2>2, <3>1
  <2>5. RequestTypes' /\ RequestsAgree'
    BY <1>1, <2>1, <2>4 DEF RequestTypes, RequestsAgree, Names, Admitted, rows
  <2> QED
    BY <1>g, <1>p, <1>r, <2>1, <2>5 DEF pool
<1>7. ASSUME NEW t \in todo, TakeReset(t) PROVE IInv'
  <2>1. /\ UNCHANGED <<rows, pool, around, req>> /\ todo' = todo \ {t}
        /\ t.lab \in Labs /\ t.session \in Sessions /\ Names(t.lab, t.session)
    BY <1>1, <1>7 DEF TakeReset, RequestTypes, RequestsAgree
  <2>2. PICK step \in {"admit", "clear"} :
           at' = [step |-> step, lab |-> t.lab, session |-> t.session]
    BY <1>7 DEF TakeReset
  <2>3. RequestTypes'
    BY <1>1, <2>1, <2>2 DEF RequestTypes
  <2>4. RequestsAgree'
    BY <1>1, <2>1, <2>2 DEF RequestsAgree, Names, Admitted, rows
  <2> QED
    BY <1>g, <1>p, <1>r, <2>1, <2>3, <2>4 DEF pool
<1>8. ASSUME AdmitReset PROVE IInv'
  <2>1. at.lab \in Labs /\ at.session \in Sessions /\ Names(at.lab, at.session)
    BY <1>1, <1>8 DEF AdmitReset, RequestTypes, RequestsAgree
  <2>2. /\ at' \in {[at EXCEPT !.step = "clear"], Resting}
        /\ UNCHANGED <<pool, around, req, todo>>
        /\ \E verdict : AdmitLaunch(at.lab, Nil, at.session, verdict)
    BY <1>8 DEF AdmitReset
  <2>3. /\ RowTypes' /\ RowsAgree'
        /\ \A t \in Sessions : lab[t] # Nil => lab'[t] = lab[t]
    BY <1>1, <2>1, <2>2, Admission DEF pool
  <2>4. \/ at' = Resting
        \/ at' = [step |-> "clear", lab |-> at.lab, session |-> at.session]
    BY <1>1, <2>2 DEF RequestTypes
  <2>5. RequestTypes'
    BY <1>1, <2>1, <2>2, <2>4 DEF RequestTypes, Resting
  <2>6. RequestsAgree'
    BY <1>1, <2>1, <2>2, <2>3, <2>4 DEF RequestsAgree, RequestTypes, Names, Admitted, Resting
  <2> QED
    BY <1>g, <1>p, <2>2, <2>3, <2>5, <2>6
<1>9. ASSUME ClearReset PROVE IInv'
  <2>1. /\ at' = Resting
        /\ UNCHANGED <<current, lab, from, stop, keyed, told, pool, around, req, todo>>
        /\ reset' \subseteq Labs
    BY <1>1, <1>9 DEF ClearReset, Cleared, RowTypes
  <2>2. RowTypes' /\ RowsAgree'
    BY <1>1, <2>1 DEF pool, RowTypes, RowsAgree, Admitted, Names, OneLiveSessionPerLab,
                      ReplacedOnce, Live
  <2>3. RequestTypes' /\ RequestsAgree'
    BY <1>1, <2>1 DEF RequestTypes, RequestsAgree, Names, Admitted, Resting
  <2> QED
    BY <1>g, <1>p, <2>1, <2>2, <2>3
<1>10. ASSUME SweepFails PROVE IInv'
  <2>1. at' = Resting /\ todo' = {} /\ UNCHANGED <<rows, pool, around, req>>
    BY <1>10 DEF SweepFails
  <2>2. RequestTypes' /\ RequestsAgree'
    BY <1>1, <2>1 DEF RequestTypes, RequestsAgree, Names, Admitted, Resting, rows
  <2> QED
    BY <1>g, <1>p, <1>r, <2>1, <2>2 DEF pool
<1>11. ASSUME NEW s \in Sessions, TakesSlot(s) \/ Starts(s) \/ Expires(s) \/ Ends(s)
       PROVE  IInv'
  <2>1. s \in Live /\ Admitted(s)
    BY <1>11 DEF TakesSlot, Starts, Expires, Ends, Live, Admitted
  <2>2. /\ UNCHANGED <<current, reset, lab, from, keyed, told, around, req, todo, at>>
        /\ stop' \subseteq Sessions
        /\ gone' \in {gone, gone \cup {s}}
        /\ live' \in {live, live \cup {s}, live \ {s}}
    BY <1>1, <1>11 DEF TakesSlot, Starts, Expires, Ends, Pool!Take, Pool!Start, Pool!Stop,
                       Pool!Drop, Pool!Release, rows, pool, RowTypes
  <2>3. holder' \in [Slots -> Sessions \cup {Nil}]
    BY <1>1, <1>11 DEF TakesSlot, Starts, Expires, Ends, Pool!Take, Pool!Start, Pool!Stop,
                       Pool!Drop, Pool!Release, pool, PoolTypes
  <2>4. RowTypes' /\ PoolTypes'
    BY <1>1, <2>2, <2>3 DEF RowTypes, PoolTypes, around
  <2>5. RowsAgree'
    BY <1>1, <2>1, <2>2, PoolStep
  <2> QED
    BY <1>g, <1>q, <2>2, <2>4, <2>5
<1>12. ASSUME \/ \E k \in Slots : HoldSlot(k)
              \/ \E l \in Labs : Enrol(l)
       PROVE  IInv'
  <2>1. UNCHANGED <<rows, pool, req, todo, at>> /\ held' \subseteq Slots /\ member' \subseteq Labs
    BY <1>1, <1>12 DEF HoldSlot, Enrol, PoolTypes
  <2>2. PoolTypes'
    BY <1>1, <2>1 DEF PoolTypes, pool
  <2> QED
    BY <1>g, <1>q, <1>r, <2>1, <2>2 DEF pool, rows
<1>13. ASSUME UNCHANGED vars PROVE IInv'
  BY <1>g, <1>p, <1>q, <1>r, <1>13 DEF vars, rows, pool, around
<1> QED
  BY <1>2, <1>3, <1>4, <1>5, <1>6, <1>7, <1>8, <1>9, <1>10, <1>11, <1>12, <1>13 DEF Next, Resets

\* THEOREM: the invariant holds, for every number of labs, students, sessions,
\* keys, slots and concurrent requests, and whatever the limits.
THEOREM Invariance == Spec => []IInv
BY InitIInv, StepIInv, PTL DEF Spec

\* THEOREM: concurrent and retried launches and resets never give a lab two live
\* sessions.
THEOREM OneSession == Spec => []OneLiveSessionPerLab
<1>1. IInv => OneLiveSessionPerLab
  BY DEF IInv, RowsAgree
<1> QED
  BY Invariance, <1>1, PTL

\* THEOREM: a reset is idempotent on the session it replaces.
THEOREM ResetOnce == Spec => []ReplacedOnce
<1>1. IInv => ReplacedOnce
  BY DEF IInv, RowsAgree
<1> QED
  BY Invariance, <1>1, PTL

\* THEOREM: launches with one key are all answered with one session.
THEOREM KeyedOnce == Spec => []OneSessionPerKey
<1>1. IInv => OneSessionPerKey
  <2> SUFFICES ASSUME IInv, NEW u \in Students, NEW key \in Keys
               PROVE  Cardinality(told[u][key]) <= 1
    BY DEF OneSessionPerKey
  <2>1. told[u][key] \subseteq {keyed[u][key]}
    BY DEF IInv, RowsAgree
  <2>2. IsFiniteSet({keyed[u][key]}) /\ Cardinality({keyed[u][key]}) = 1
    BY FS_Singleton
  <2>3. Cardinality(told[u][key]) <= Cardinality({keyed[u][key]})
    BY <2>1, <2>2, FS_Subset
  <2> QED
    BY <2>2, <2>3
<1> QED
  BY Invariance, <1>1, PTL

-----------------------------------------------------------------------------
\* The places of a set of labs: their live sessions and those of them that wait
\* for a reset; Others are the places a launch of l is counted against.
LiveIn(C) == {s \in Live : lab[s] \in C}
WaitingIn(C) == {m \in Waiting : m \in C}
PlacesIn(C) == Cardinality(LiveIn(C)) + Cardinality(WaitingIn(C))
Others(l, C) == Cardinality(LiveIn(C)) + Cardinality(WaitingIn(C) \ {l})

OfStudent(u) == {m \in Labs : Owner[m] = u}
OfCourse(c) == {m \in Labs : Course[m] = c}

\* What is counted is finite.
LEMMA PlacesAreFinite ==
    ASSUME TypeOK, NEW C
    PROVE  /\ IsFiniteSet(LiveIn(C)) /\ IsFiniteSet(WaitingIn(C))
           /\ Cardinality(LiveIn(C)) \in Nat /\ Cardinality(WaitingIn(C)) \in Nat
<1>1. LiveIn(C) \in SUBSET Sessions /\ WaitingIn(C) \in SUBSET Labs
  BY DEF LiveIn, WaitingIn, Live, Waiting, TypeOK
<1>2. IsFiniteSet(LiveIn(C)) /\ IsFiniteSet(WaitingIn(C))
  BY <1>1, AdmissionAssumption, FS_Subset
<1> QED
  BY <1>2, FS_CardinalityType

\* The limits that a launch is checked against, as counts of places.
LEMMA RoomMeans ==
    ASSUME TypeOK, NEW l \in Labs
    PROVE  HasRoom(l) <=>
             /\ Others(l, OfStudent(Owner[l])) < StudentLimit
             /\ Others(l, OfCourse(Course[l])) < CourseLimit
             /\ Others(l, Labs) < LabLimit
             /\ Others(l, Labs) < Cardinality(Usable)
<1>0. ASSUME NEW s \in Live PROVE lab[s] \in Labs
  BY NilIsNone DEF Live, TypeOK
<1>1. /\ {s \in Live : Owner[lab[s]] = Owner[l]} = LiveIn(OfStudent(Owner[l]))
      /\ {s \in Live : Course[lab[s]] = Course[l]} = LiveIn(OfCourse(Course[l]))
      /\ {s \in Live : TRUE} = LiveIn(Labs)
  BY <1>0 DEF LiveIn, OfStudent, OfCourse
<1>2. /\ {m \in AwaitingOthers(l) : Owner[m] = Owner[l]} = WaitingIn(OfStudent(Owner[l])) \ {l}
      /\ {m \in AwaitingOthers(l) : Course[m] = Course[l]} = WaitingIn(OfCourse(Course[l])) \ {l}
      /\ {m \in AwaitingOthers(l) : TRUE} = WaitingIn(Labs) \ {l}
  BY DEF WaitingIn, Waiting, OfStudent, OfCourse, AwaitingOthers, Awaiting, TypeOK
<1> QED
  BY <1>1, <1>2 DEF HasRoom, Counted, Others

\* The property, as counts of places.
Kept ==
    /\ \A u \in Students : PlacesIn(OfStudent(u)) <= StudentLimit
    /\ \A c \in Courses : PlacesIn(OfCourse(c)) <= CourseLimit
    /\ PlacesIn(Labs) <= LabLimit
    /\ PlacesIn(Labs) <= Cardinality(Slots)

\* Only an admission adds a place, and it adds one to those it was checked
\* against.
LEMMA PlacesMove ==
    ASSUME IInv, IInv', [Next]_vars, NEW C \in SUBSET Labs
    PROVE  \/ PlacesIn(C)' <= PlacesIn(C)
           \/ \E l \in C : HasRoom(l) /\ PlacesIn(C)' = Others(l, C) + 1
<1> USE NilIsNone
<1>0. TypeOK /\ TypeOK' /\ RowsAgree
  BY DEF IInv
<1>f. /\ IsFiniteSet(LiveIn(C)) /\ IsFiniteSet(WaitingIn(C))
      /\ Cardinality(LiveIn(C)) \in Nat /\ Cardinality(WaitingIn(C)) \in Nat
  BY <1>0, PlacesAreFinite
<1>s. ASSUME LiveIn(C)' \subseteq LiveIn(C), WaitingIn(C)' \subseteq WaitingIn(C)
      PROVE  PlacesIn(C)' <= PlacesIn(C)
  <2>1. /\ Cardinality(LiveIn(C)') <= Cardinality(LiveIn(C))
        /\ Cardinality(WaitingIn(C)') <= Cardinality(WaitingIn(C))
        /\ Cardinality(LiveIn(C)') \in Nat /\ Cardinality(WaitingIn(C)') \in Nat
    BY <1>f, <1>s, FS_Subset, FS_CardinalityType
  <2> QED
    BY <1>f, <2>1 DEF PlacesIn
<1>u. ASSUME lab' = lab, current' = current, gone' = gone, reset' \subseteq reset
      PROVE  PlacesIn(C)' <= PlacesIn(C)
  BY <1>s, <1>u DEF LiveIn, WaitingIn, Live, Waiting
<1>a. ASSUME NEW l \in Labs, NEW key, NEW prev, NEW verdict, AdmitLaunch(l, key, prev, verdict),
             gone' = gone
      PROVE  \/ PlacesIn(C)' <= PlacesIn(C)
             \/ \E m \in C : HasRoom(m) /\ PlacesIn(C)' = Others(m, C) + 1
  <2>1. CASE lab' = lab /\ current' = current /\ reset' = reset
    BY <1>a, <1>u, <2>1
  <2>2. CASE verdict = "created" /\ \E s \in Sessions : Create(l, key, prev, s)
    <3>1. PICK s \in Sessions : Create(l, key, prev, s)
      BY <2>2
    <3>2. HasRoom(l) /\ ~StillLive(l)
      BY <1>a, <2>2 DEF AdmitLaunch, Verdict
    <3>3. /\ lab[s] = Nil /\ lab' = [lab EXCEPT ![s] = l]
          /\ current' = [current EXCEPT ![l] = s] /\ reset' = reset \ {l}
      BY <3>1 DEF Create
    <3>4. s \notin gone /\ s \notin Live
      BY <1>0, <3>3 DEF RowsAgree, Admitted, Live
    <3>5. WaitingIn(C)' = WaitingIn(C) \ {l}
      BY <1>0, <1>a, <3>3, <3>4 DEF WaitingIn, Waiting, TypeOK
    <3>6. Live' = Live \cup {s} /\ lab'[s] = l /\ \A t \in Live : lab'[t] = lab[t]
      BY <1>0, <1>a, <3>3, <3>4 DEF Live, TypeOK
    <3>7. CASE l \notin C
      <4>1. LiveIn(C)' = LiveIn(C)
        BY <3>6, <3>7 DEF LiveIn
      <4> QED
        BY <1>s, <3>5, <4>1
    <3>8. CASE l \in C
      <4>1. LiveIn(C)' = LiveIn(C) \cup {s} /\ s \notin LiveIn(C)
        BY <3>4, <3>6, <3>8 DEF LiveIn
      <4>2. Cardinality(LiveIn(C)') = Cardinality(LiveIn(C)) + 1
        BY <1>f, <4>1, FS_AddElement
      <4>3. Cardinality(WaitingIn(C) \ {l}) \in Nat
        BY <1>f, FS_RemoveElement, FS_CardinalityType
      <4>4. PlacesIn(C)' = Others(l, C) + 1
        BY <1>f, <3>5, <4>2, <4>3 DEF PlacesIn, Others
      <4> QED
        BY <3>2, <3>8, <4>4
    <3> QED
      BY <3>7, <3>8
  <2> QED
    BY <1>a, <2>1, <2>2 DEF AdmitLaunch, rows
<1> DEFINE Goal == \/ PlacesIn(C)' <= PlacesIn(C)
                   \/ \E l \in C : HasRoom(l) /\ PlacesIn(C)' = Others(l, C) + 1
<1>1. ASSUME UNCHANGED <<rows, pool>> PROVE Goal
  BY <1>1, <1>u DEF rows, pool
<1>2. ASSUME NEW c \in Clients, Admit(c) PROVE Goal
  <2>1. req[c].lab \in Labs
    BY <1>0, <1>2 DEF Admit, TypeOK
  <2>2. gone' = gone /\ \E verdict : AdmitLaunch(req[c].lab, req[c].key, req[c].session, verdict)
    BY <1>2 DEF Admit, pool
  <2> QED
    BY <1>a, <2>1, <2>2
<1>3. ASSUME NEW c \in Clients, StopIn(c) PROVE Goal
  <2>1. /\ UNCHANGED <<lab, current, gone>>
        /\ MarksReset(req[c].lab, req[c].session, req[c].op = "stop_reset")
    BY <1>3 DEF StopIn, pool
  <2>2. LiveIn(C)' = LiveIn(C)
    BY <2>1 DEF LiveIn, Live
  <2>3. Waiting' \subseteq Waiting
    BY <2>1 DEF MarksReset, Waiting
  <2> QED
    BY <1>s, <2>2, <2>3 DEF WaitingIn
<1>4. ASSUME AdmitReset PROVE Goal
  <2>1. at.lab \in Labs
    BY <1>0, <1>4 DEF AdmitReset, TypeOK
  <2>2. gone' = gone /\ \E verdict : AdmitLaunch(at.lab, Nil, at.session, verdict)
    BY <1>4 DEF AdmitReset, pool
  <2> QED
    BY <1>a, <2>1, <2>2
<1>5. ASSUME ClearReset PROVE Goal
  BY <1>5, <1>u DEF ClearReset, Cleared, pool
<1>6. ASSUME NEW s \in Sessions, TakesSlot(s) \/ Starts(s) \/ Expires(s) PROVE Goal
  BY <1>6, <1>u DEF TakesSlot, Starts, Expires, Pool!Take, Pool!Start, rows, pool
<1>7. ASSUME NEW s \in Sessions, Ends(s) PROVE Goal
  <2>1. s \in Live /\ UNCHANGED <<lab, current, reset>>
    BY <1>7 DEF Ends, rows
  <2>2. gone' = gone \/ gone' = gone \cup {s}
    BY <1>7 DEF Ends, Pool!Stop, Pool!Drop, Pool!Release
  <2>3. CASE gone' = gone
    BY <1>u, <2>1, <2>3
  <2>4. CASE gone' = gone \cup {s}
    <3>1. Live' = Live \ {s}
      BY <2>1, <2>4 DEF Live
    <3>2. lab[s] \in Labs /\ current[lab[s]] = s
      BY <1>0, <2>1 DEF Live, TypeOK, RowsAgree, OneLiveSessionPerLab
    <3>3. \A m \in Labs : current[m] = s => m = lab[s]
      BY <1>0, <2>1 DEF RowsAgree, Names, Live
    <3>4. Waiting' \subseteq Waiting \cup {lab[s]}
      BY <1>0, <2>1, <2>4, <3>3 DEF Waiting, TypeOK
    <3>5. CASE lab[s] \notin C
      BY <1>s, <2>1, <3>1, <3>4, <3>5 DEF LiveIn, WaitingIn
    <3>6. CASE lab[s] \in C
      <4>1. LiveIn(C)' = LiveIn(C) \ {s} /\ s \in LiveIn(C)
        BY <2>1, <3>1, <3>6 DEF LiveIn
      <4>2. Cardinality(LiveIn(C)') = Cardinality(LiveIn(C)) - 1
        BY <1>f, <4>1, FS_RemoveElement
      <4>3. WaitingIn(C)' \in SUBSET (WaitingIn(C) \cup {lab[s]})
        BY <3>4 DEF WaitingIn
      <4>4. /\ IsFiniteSet(WaitingIn(C) \cup {lab[s]})
            /\ Cardinality(WaitingIn(C) \cup {lab[s]}) <= Cardinality(WaitingIn(C)) + 1
            /\ Cardinality(WaitingIn(C) \cup {lab[s]}) \in Nat
        <5> DEFINE W == WaitingIn(C)
                   x == lab[s]
        <5>1. IsFiniteSet(W) /\ Cardinality(W) \in Nat
          BY <1>f
        <5> HIDE DEF W, x
        <5>2. /\ IsFiniteSet(W \cup {x})
              /\ Cardinality(W \cup {x}) = IF x \in W THEN Cardinality(W) ELSE Cardinality(W) + 1
          BY <5>1, FS_AddElement
        <5>3. /\ IsFiniteSet(W \cup {x}) /\ Cardinality(W \cup {x}) <= Cardinality(W) + 1
              /\ Cardinality(W \cup {x}) \in Nat
          BY <5>1, <5>2
        <5> QED
          BY <5>3 DEF W, x
      <4>5. /\ Cardinality(WaitingIn(C)') <= Cardinality(WaitingIn(C) \cup {lab[s]})
            /\ IsFiniteSet(WaitingIn(C)')
        BY <4>3, <4>4, FS_Subset
      <4>6. Cardinality(WaitingIn(C)') \in Nat
        BY <4>5, FS_CardinalityType
      <4> QED
        BY <1>f, <4>2, <4>4, <4>5, <4>6 DEF PlacesIn
    <3> QED
      BY <3>5, <3>6
  <2> QED
    BY <2>2, <2>3, <2>4
<1>8. ASSUME \/ \E c \in Clients :
                  \/ \E l \in Labs, key \in Keys \cup {Nil} : Launch(c, l, key)
                  \/ \E s \in Sessions : Reset(c, s) \/ Stop(c, s)
             \/ ListResets \/ (\E t \in todo : TakeReset(t)) \/ SweepFails
             \/ \E k \in Slots : HoldSlot(k)
             \/ \E l \in Labs : Enrol(l)
      PROVE  UNCHANGED <<rows, pool>>
  BY <1>8 DEF Launch, Reset, Stop, ListResets, TakeReset, SweepFails, HoldSlot, Enrol
<1>9. ASSUME UNCHANGED vars PROVE UNCHANGED <<rows, pool>>
  BY <1>9 DEF vars, rows, pool
<1> HIDE DEF Goal
<1>10. Goal
  BY <1>1, <1>2, <1>3, <1>4, <1>5, <1>6, <1>7, <1>8, <1>9 DEF Next, Resets
<1> QED
  BY <1>10 DEF Goal

\* No step takes more places than the limits give.
LEMMA StepKept == IInv /\ IInv' /\ Kept /\ [Next]_vars => Kept'
<1> SUFFICES ASSUME IInv, IInv', Kept, [Next]_vars PROVE Kept'
  OBVIOUS
<1>0. TypeOK /\ TypeOK'
  BY DEF IInv
<1>n. /\ StudentLimit \in Nat /\ CourseLimit \in Nat /\ LabLimit \in Nat
      /\ Cardinality(Slots) \in Nat
  BY AdmissionAssumption, FS_CardinalityType
<1>t. ASSUME NEW C PROVE /\ PlacesIn(C) \in Nat /\ PlacesIn(C)' \in Nat
                         /\ \A l : Others(l, C) \in Nat
  <2>1. PlacesIn(C) \in Nat
    BY <1>0, PlacesAreFinite DEF PlacesIn
  <2>2. PlacesIn(C)' \in Nat
    <3>1. LiveIn(C)' \in SUBSET Sessions /\ WaitingIn(C)' \in SUBSET Labs
      BY <1>0 DEF LiveIn, WaitingIn, Live, Waiting, TypeOK
    <3>2. IsFiniteSet(LiveIn(C)') /\ IsFiniteSet(WaitingIn(C)')
      BY <3>1, AdmissionAssumption, FS_Subset
    <3> QED
      BY <3>2, FS_CardinalityType DEF PlacesIn
  <2>3. ASSUME NEW l PROVE Others(l, C) \in Nat
    <3>1. IsFiniteSet(WaitingIn(C)) /\ Cardinality(LiveIn(C)) \in Nat
      BY <1>0, PlacesAreFinite
    <3>2. IsFiniteSet(WaitingIn(C) \ {l})
      BY <3>1, FS_Subset
    <3> QED
      BY <3>1, <3>2, FS_CardinalityType DEF Others
  <2> QED
    BY <1>0, <2>1, <2>2, <2>3
<1>1. ASSUME NEW u \in Students PROVE PlacesIn(OfStudent(u))' <= StudentLimit
  <2>1. OfStudent(u) \in SUBSET Labs /\ \A l \in OfStudent(u) : Owner[l] = u /\ l \in Labs
    BY DEF OfStudent
  <2>2. PlacesIn(OfStudent(u)) <= StudentLimit
    BY DEF Kept
  <2>3. ASSUME NEW l \in OfStudent(u), HasRoom(l) PROVE Others(l, OfStudent(u)) < StudentLimit
    BY <1>0, <2>1, <2>3, RoomMeans
  <2> QED
    BY <1>n, <1>t, <2>1, <2>2, <2>3, PlacesMove
<1>2. ASSUME NEW c \in Courses PROVE PlacesIn(OfCourse(c))' <= CourseLimit
  <2>1. OfCourse(c) \in SUBSET Labs /\ \A l \in OfCourse(c) : Course[l] = c /\ l \in Labs
    BY DEF OfCourse
  <2>2. PlacesIn(OfCourse(c)) <= CourseLimit
    BY DEF Kept
  <2>3. ASSUME NEW l \in OfCourse(c), HasRoom(l) PROVE Others(l, OfCourse(c)) < CourseLimit
    BY <1>0, <2>1, <2>3, RoomMeans
  <2> QED
    BY <1>n, <1>t, <2>1, <2>2, <2>3, PlacesMove
<1>3. PlacesIn(Labs)' <= LabLimit /\ PlacesIn(Labs)' <= Cardinality(Slots)
  <2>1. PlacesIn(Labs) <= LabLimit /\ PlacesIn(Labs) <= Cardinality(Slots)
    BY DEF Kept
  <2>2. Cardinality(Usable) \in Nat /\ Cardinality(Usable) <= Cardinality(Slots)
    BY AdmissionAssumption, FS_Subset, FS_CardinalityType DEF Usable
  <2>3. ASSUME NEW l \in Labs, HasRoom(l)
        PROVE  Others(l, Labs) < LabLimit /\ Others(l, Labs) < Cardinality(Slots)
    BY <1>0, <1>n, <1>t, <2>2, <2>3, RoomMeans
  <2> QED
    BY <1>n, <1>t, <2>1, <2>3, PlacesMove
<1> QED
  BY <1>1, <1>2, <1>3 DEF Kept

\* Counting a lab that waits, its own place is the one its reset takes.
LEMMA KeptMeans == IInv /\ Kept => PlaceIsKept
<1> SUFFICES ASSUME IInv, Kept PROVE PlaceIsKept
  OBVIOUS
<1>0. TypeOK
  BY DEF IInv
<1>n. /\ StudentLimit \in Nat /\ CourseLimit \in Nat /\ LabLimit \in Nat
      /\ Cardinality(Slots) \in Nat
  BY AdmissionAssumption, FS_CardinalityType
<1>l. ASSUME NEW s \in Live PROVE lab[s] \in Labs
  BY <1>0, NilIsNone DEF Live, TypeOK
<1>1. ASSUME NEW u \in Students
      PROVE  /\ {s \in Live : Owner[lab[s]] = u} = LiveIn(OfStudent(u))
             /\ {m \in Waiting : Owner[m] = u} = WaitingIn(OfStudent(u))
  BY <1>0, <1>l DEF LiveIn, WaitingIn, Waiting, OfStudent, TypeOK
<1>2. ASSUME NEW c \in Courses
      PROVE  /\ {s \in Live : Course[lab[s]] = c} = LiveIn(OfCourse(c))
             /\ {m \in Waiting : Course[m] = c} = WaitingIn(OfCourse(c))
  BY <1>0, <1>l DEF LiveIn, WaitingIn, Waiting, OfCourse, TypeOK
<1>3. {s \in Live : TRUE} = LiveIn(Labs) /\ {m \in Waiting : TRUE} = WaitingIn(Labs)
  BY <1>0, <1>l DEF LiveIn, WaitingIn, Waiting, TypeOK
<1>4. ASSUME NEW m \in Waiting, NEW C, m \in C
      PROVE  Others(m, C) = PlacesIn(C) - 1 /\ PlacesIn(C) \in Nat
  <2> DEFINE W == WaitingIn(C)
  <2>1. m \in W
    BY <1>4 DEF WaitingIn
  <2>2. IsFiniteSet(W) /\ Cardinality(W) \in Nat /\ Cardinality(LiveIn(C)) \in Nat
    BY <1>0, PlacesAreFinite
  <2> HIDE DEF W
  <2>3. Cardinality(W \ {m}) = Cardinality(W) - 1
    BY <2>1, <2>2, FS_RemoveElement
  <2> QED
    BY <2>2, <2>3 DEF PlacesIn, Others, W
<1>5. ASSUME held = {}, NEW m \in Waiting PROVE HasRoom(m)
  <2>1. m \in Labs /\ Owner[m] \in Students /\ Course[m] \in Courses
    BY <1>0, AdmissionAssumption DEF Waiting, TypeOK
  <2>2. m \in OfStudent(Owner[m]) /\ m \in OfCourse(Course[m])
    BY <2>1 DEF OfStudent, OfCourse
  <2>3. Usable = Slots
    BY <1>5 DEF Usable
  <2>4. Others(m, OfStudent(Owner[m])) < StudentLimit
    BY <1>4, <1>n, <2>1, <2>2 DEF Kept
  <2>5. Others(m, OfCourse(Course[m])) < CourseLimit
    BY <1>4, <1>n, <2>1, <2>2 DEF Kept
  <2>6. Others(m, Labs) < LabLimit /\ Others(m, Labs) < Cardinality(Slots)
    BY <1>4, <1>n, <2>1 DEF Kept
  <2> QED
    BY <1>0, <2>1, <2>3, <2>4, <2>5, <2>6, RoomMeans
<1> QED
  BY <1>1, <1>2, <1>3, <1>5 DEF PlaceIsKept, Places, Kept, PlacesIn

\* THEOREM: whoever launches meanwhile, no student, course or tenant ever has more
\* places than its limit, labs that wait for a reset included; so a reset that waits
\* has room whenever no slot is held (admit_campus_lab_launch counts AWAITING_RESET).
THEOREM PlacesAreKept == Spec => []PlaceIsKept
<1>1. Init => Kept
  <2> SUFFICES ASSUME Init PROVE Kept
    OBVIOUS
  <2>1. ASSUME NEW C PROVE PlacesIn(C) = 0
    <3>1. LiveIn(C) = {} /\ WaitingIn(C) = {}
      BY DEF Init, LiveIn, WaitingIn, Live, Waiting
    <3> QED
      BY <3>1, FS_EmptySet DEF PlacesIn
  <2>2. /\ StudentLimit \in Nat /\ CourseLimit \in Nat /\ LabLimit \in Nat
        /\ Cardinality(Slots) \in Nat
    BY AdmissionAssumption, FS_CardinalityType
  <2> QED
    BY <2>1, <2>2 DEF Kept
<1>2. Spec => []Kept
  BY <1>1, StepKept, Invariance, PTL DEF Spec
<1> QED
  BY <1>2, Invariance, KeptMeans, PTL

\* The sessions that admission counts live as LabSlots lets them, which is
\* what CampusLab implements (CampusLabProofs, LabSlotsImplemented): admission is
\* composed with the journal through this specification and nothing else.
LEMMA SessionsFollowTheSlots == Spec => Pool!Spec
<1>1. Init => Pool!Init
  BY DEF Init
<1>2. [Next]_vars => [Pool!Next]_(Pool!vars)
  <2> SUFFICES ASSUME [Next]_vars PROVE [Pool!Next]_(Pool!vars)
    OBVIOUS
  <2>1. ASSUME NEW s \in Sessions, TakesSlot(s) PROVE Pool!Next
    BY <2>1 DEF TakesSlot, Pool!Next
  <2>2. ASSUME NEW s \in Sessions, Starts(s) PROVE Pool!Next
    BY <2>2 DEF Starts, Pool!Next
  <2>3. ASSUME NEW s \in Sessions, Ends(s) PROVE Pool!Next
    BY <2>3 DEF Ends, Pool!Next
  <2>4. ASSUME UNCHANGED pool PROVE UNCHANGED Pool!vars
    BY <2>4 DEF pool, Pool!vars
  <2>5. ASSUME \/ \E c \in Clients :
                    \/ \E l \in Labs, key \in Keys \cup {Nil} : Launch(c, l, key)
                    \/ \E s \in Sessions : Reset(c, s) \/ Stop(c, s)
                    \/ Admit(c) \/ StopIn(c)
               \/ Resets \/ SweepFails
               \/ \E s \in Sessions : Expires(s)
               \/ \E k \in Slots : HoldSlot(k)
               \/ \E l \in Labs : Enrol(l)
        PROVE  UNCHANGED pool
    BY <2>5 DEF Launch, Reset, Stop, Admit, StopIn, Resets, ListResets, TakeReset, AdmitReset,
                ClearReset, SweepFails, Expires, HoldSlot, Enrol
  <2>6. CASE UNCHANGED vars
    BY <2>4, <2>6 DEF vars, pool
  <2> QED
    BY <2>1, <2>2, <2>3, <2>4, <2>5, <2>6 DEF Next
<1> QED
  BY <1>1, <1>2, PTL DEF Spec, Pool!Spec
=============================================================================
