--------------------------- MODULE CampusAdmission ---------------------------
(***************************************************************************)
(* Admission of Campus lab sessions: the launch, stop and reset handlers   *)
(* of the API, the admission transaction they share with the reconciler,   *)
(* and the reconciler's pass over the labs that wait for a reset.          *)
(*                                                                         *)
(* A lab is one student's copy of one assignment; each session is one      *)
(* generation of it.  What becomes of an admitted session is taken from    *)
(* LabSlots, which CampusLab implements: gone are the sessions in a        *)
(* terminal state.  A handler reads, then writes in one transaction; other *)
(* requests and the reconciler run in between.                             *)
(***************************************************************************)
EXTENDS Integers, FiniteSets

CONSTANTS
    Labs,
    Students,
    Courses,
    Owner,          \* the student of each lab
    Course,         \* its course
    Sessions,       \* bound: session ids that can be handed out
    Keys,           \* idempotency keys
    Slots,
    Clients,        \* requests under way at once
    Nil,
    LabLimit,       \* limits.lab_slots
    StudentLimit,   \* limits.max_active_per_identity
    CourseLimit     \* limits.max_active_per_course

ASSUME AdmissionAssumption ==
    /\ Owner \in [Labs -> Students]
    /\ Course \in [Labs -> Courses]
    /\ {LabLimit, StudentLimit, CourseLimit} \subseteq Nat \ {0}
    /\ IsFiniteSet(Sessions) /\ IsFiniteSet(Labs) /\ IsFiniteSet(Slots)
    /\ Nil \notin Sessions \cup Labs \cup Keys

VARIABLES
    current,    \* campus_labs.current_session_id
    reset,      \* labs with reset_requested_at set
    lab,        \* campus_lab_generations: the lab of each admitted session
    from,       \*   and the session it replaces
    stop,       \* sessions whose desired state is terminated
    keyed,      \* campus_launch_requests: the session of each student's key
    told,       \* sessions a student was answered with for each key
    holder, live, gone,   \* the sessions' lives: see LabSlots
    held,       \* slots with an active hold
    member,     \* labs whose student may still launch them
    req,        \* the request of each client
    todo,       \* the labs the reconciler listed, each with its session
    at          \* the one it is at, and what it does next

vars == <<current, reset, lab, from, stop, keyed, told, holder, live, gone, held, member,
          req, todo, at>>
rows == <<current, reset, lab, from, stop, keyed, told>>
pool == <<holder, live, gone>>
around == <<held, member>>

Pool == INSTANCE LabSlots

NoRequest == [op |-> "none", lab |-> Nil, key |-> Nil, session |-> Nil]
Resting == [step |-> "idle", lab |-> Nil, session |-> Nil]

-----------------------------------------------------------------------------
\* The admission transaction.

Live == {s \in Sessions : lab[s] # Nil /\ s \notin gone}

\* AWAITING_RESET, without the lab that asks.
Awaiting(l) == {m \in reset \ {l} : current[m] \in gone}

\* Mutant: only the sessions that run are counted.
AwaitingNobody(l) == {}

AwaitingOthers(l) == Awaiting(l)

\* A held slot counts only while it is occupied.
Usable == {k \in Slots : holder[k] # Nil \/ k \notin held}

Counted(l, P(_)) ==
    Cardinality({s \in Live : P(lab[s])}) + Cardinality({m \in AwaitingOthers(l) : P(m)})

HasRoom(l) ==
    LET SameStudent(m) == Owner[m] = Owner[l]
        SameCourse(m)  == Course[m] = Course[l]
        SameTenant(m)  == TRUE
    IN  /\ Counted(l, SameStudent) < StudentLimit
        /\ Counted(l, SameTenant) < LabLimit
        /\ Counted(l, SameTenant) < Cardinality(Usable)
        /\ Counted(l, SameCourse) < CourseLimit

KeyKnown(l, key) == key # Nil /\ keyed[Owner[l]][key] # Nil

\* Mutant: only the key's row is looked at, never the lab's session.
StillLiveNever(l) == FALSE

StillLive(l) == current[l] # Nil /\ current[l] \notin gone

\* Mutant: a reset of a session that was replaced is admitted again.
SupersededNever(l, prev) == FALSE

Superseded(l, prev) == prev # Nil /\ prev # current[l]

\* What one launch (prev = Nil) or one reset of prev is answered.
Verdict(l, key, prev) ==
    CASE KeyKnown(l, key) ->
            IF lab[keyed[Owner[l]][key]] = l THEN "replayed" ELSE "rejected"
      [] ~KeyKnown(l, key) /\ Superseded(l, prev) ->
            IF current[l] # Nil /\ from[current[l]] = prev THEN "replayed" ELSE "rejected"
      [] ~KeyKnown(l, key) /\ ~Superseded(l, prev) /\ StillLive(l) ->
            IF prev = Nil THEN "active" ELSE "rejected"
      [] OTHER -> IF HasRoom(l) THEN "created" ELSE "rejected"

\* The session a replay or an existing session answers with.
Answered(l, key) == IF KeyKnown(l, key) THEN keyed[Owner[l]][key] ELSE current[l]

\* Mutant: an answer with the session that runs is not written down.
NotesKeyOfNew(l, key, s, verdict) ==
    keyed' = IF key # Nil /\ verdict = "created"
             THEN [keyed EXCEPT ![Owner[l]][key] = s] ELSE keyed

\* insert_launch_request.
NotesKey(l, key, s, verdict) ==
    keyed' = IF key # Nil /\ verdict \in {"created", "active"}
             THEN [keyed EXCEPT ![Owner[l]][key] = s] ELSE keyed

Tells(l, key, s) ==
    told' = IF key # Nil THEN [told EXCEPT ![Owner[l]][key] = @ \cup {s}] ELSE told

\* The session, its generation, the lab's current session and the key; the
\* reset that waited is served.
Create(l, key, prev, s) ==
    /\ lab[s] = Nil
    /\ lab' = [lab EXCEPT ![s] = l]
    /\ from' = [from EXCEPT ![s] = prev]
    /\ current' = [current EXCEPT ![l] = s]
    /\ reset' = reset \ {l}
    /\ NotesKey(l, key, s, "created")
    /\ Tells(l, key, s)
    /\ UNCHANGED stop

\* admit_campus_lab_launch.
AdmitLaunch(l, key, prev, verdict) ==
    /\ verdict = Verdict(l, key, prev)
    /\ \/ verdict = "created" /\ \E s \in Sessions : Create(l, key, prev, s)
       \/ /\ verdict \in {"active", "replayed"}
          /\ NotesKey(l, key, Answered(l, key), verdict)
          /\ Tells(l, key, Answered(l, key))
          /\ UNCHANGED <<current, reset, lab, from, stop>>
       \/ verdict = "rejected" /\ UNCHANGED rows

-----------------------------------------------------------------------------
\* The handlers.

\* Bound: an id is kept back for each reset that may still be admitted.
Spare == Cardinality({s \in Sessions : lab[s] = Nil})
            > Cardinality((reset \cup {t.lab : t \in todo} \cup {at.lab}) \ {Nil})

Idle(c) == req[c] = NoRequest
Asks(c, op, l, key, s) ==
    req' = [req EXCEPT ![c] = [op |-> op, lab |-> l, key |-> key, session |-> s]]
Answers(c) == req' = [req EXCEPT ![c] = NoRequest]

\* launch: the course role is checked first.
Launch(c, l, key) ==
    /\ Idle(c)
    /\ l \in member
    /\ Asks(c, "admit", l, key, Nil)
    /\ UNCHANGED <<rows, pool, around, todo, at>>

\* reset_session: a live current session is asked to stop, one that ended is
\* replaced at once.
Reset(c, s) ==
    /\ Idle(c)
    /\ lab[s] # Nil
    /\ lab[s] \in member
    /\ Asks(c, IF current[lab[s]] = s /\ s \notin gone THEN "stop_reset" ELSE "admit",
            lab[s], Nil, s)
    /\ UNCHANGED <<rows, pool, around, todo, at>>

\* stop_session, by the student or by course staff.
Stop(c, s) ==
    /\ Idle(c)
    /\ lab[s] # Nil
    /\ Asks(c, "stop", lab[s], Nil, s)
    /\ UNCHANGED <<rows, pool, around, todo, at>>

Admit(c) ==
    LET r == req[c]
    IN  /\ r.op = "admit"
        /\ \E verdict \in {"created", "active", "replayed", "rejected"} :
              /\ AdmitLaunch(r.lab, r.key, r.session, verdict)
              /\ verdict = "created" => Spare
        /\ Answers(c)
        /\ UNCHANGED <<pool, around, todo, at>>

\* Only the lab's current session changes the lab; without `reset`, or once the
\* session ended, a reset that waits is cancelled.
MarksReset(l, s, resets) ==
    reset' = IF current[l] # s THEN reset
             ELSE IF resets /\ s \notin gone THEN reset \cup {l} ELSE reset \ {l}

\* request_campus_lab_stop.
StopIn(c) ==
    LET r == req[c]
    IN  /\ r.op = "stop" \/ (r.op = "stop_reset" /\ Spare)
        /\ stop' = IF r.session \in gone THEN stop ELSE stop \cup {r.session}
        /\ MarksReset(r.lab, r.session, r.op = "stop_reset")
        /\ Answers(c)
        /\ UNCHANGED <<current, lab, from, keyed, told, pool, around, todo, at>>

-----------------------------------------------------------------------------
\* The reconciler's resets.

\* list_campus_labs_awaiting_reset.
ListResets ==
    /\ at = Resting
    /\ todo = {}
    /\ \E l \in reset : current[l] \in gone
    /\ todo' = {[lab |-> l, session |-> current[l]] : l \in {m \in reset : current[m] \in gone}}
    /\ UNCHANGED <<rows, pool, around, req, at>>

\* admit_reset: the course role is read, then the admission, or the clearing,
\* is a transaction of its own.
TakeReset(t) ==
    /\ at = Resting
    /\ t \in todo
    /\ todo' = todo \ {t}
    /\ at' = [step |-> IF t.lab \in member THEN "admit" ELSE "clear",
              lab |-> t.lab, session |-> t.session]
    /\ UNCHANGED <<rows, pool, around, req>>

AdmitReset ==
    /\ at.step = "admit"
    /\ \E verdict \in {"created", "replayed", "rejected"} :
          /\ AdmitLaunch(at.lab, Nil, at.session, verdict)
          /\ at' = IF verdict = "rejected" THEN [at EXCEPT !.step = "clear"] ELSE Resting
    /\ UNCHANGED <<pool, around, req, todo>>

\* Mutant: a refused reset is left to the next sweep.
LeaveReset(l, s) == reset

\* clear_campus_lab_reset.
Cleared(l, s) == IF current[l] = s THEN reset \ {l} ELSE reset

ClearReset ==
    /\ at.step = "clear"
    /\ reset' = Cleared(at.lab, at.session)
    /\ at' = Resting
    /\ UNCHANGED <<current, lab, from, stop, keyed, told, pool, around, req, todo>>

\* The API process restarts, or the store fails under the sweep.
SweepFails ==
    /\ at # Resting \/ todo # {}
    /\ at' = Resting
    /\ todo' = {}
    /\ UNCHANGED <<rows, pool, around, req>>

-----------------------------------------------------------------------------
\* The sessions, as CampusLab moves them, and what surrounds them.

TakesSlot(s) ==
    /\ s \in Live \ stop
    /\ \E k \in Slots \ held : Pool!Take(s, k)
    /\ UNCHANGED <<rows, around, req, todo, at>>

Starts(s) ==
    /\ s \in Live \ stop
    /\ s \notin live
    /\ Pool!Start(s)
    /\ UNCHANGED <<rows, around, req, todo, at>>

\* The workspace is lost or the lifetime is over.
Expires(s) ==
    /\ s \in Live \ stop
    /\ stop' = stop \cup {s}
    /\ UNCHANGED <<current, reset, lab, from, keyed, told, pool, around, req, todo, at>>

Ends(s) ==
    /\ s \in Live \cap stop
    /\ IF s \in live THEN Pool!Stop(s)
       ELSE Pool!Drop(s) \/ \E k \in Slots : Pool!Release(s, k)
    /\ UNCHANGED <<rows, around, req, todo, at>>

HoldSlot(k) ==
    /\ held' = IF k \in held THEN held \ {k} ELSE held \cup {k}
    /\ UNCHANGED <<rows, pool, member, req, todo, at>>

Enrol(l) ==
    /\ member' = IF l \in member THEN member \ {l} ELSE member \cup {l}
    /\ UNCHANGED <<rows, pool, held, req, todo, at>>

Init ==
    /\ current = [l \in Labs |-> Nil]
    /\ reset = {}
    /\ lab = [s \in Sessions |-> Nil]
    /\ from = [s \in Sessions |-> Nil]
    /\ stop = {}
    /\ keyed = [u \in Students |-> [k \in Keys |-> Nil]]
    /\ told = [u \in Students |-> [k \in Keys |-> {}]]
    /\ Pool!Init
    /\ held = {}
    /\ member = Labs
    /\ req = [c \in Clients |-> NoRequest]
    /\ todo = {}
    /\ at = Resting

Resets == ListResets \/ (\E t \in todo : TakeReset(t)) \/ AdmitReset \/ ClearReset

Next ==
    \/ \E c \in Clients :
          \/ \E l \in Labs, key \in Keys \cup {Nil} : Launch(c, l, key)
          \/ \E s \in Sessions : Reset(c, s) \/ Stop(c, s)
          \/ Admit(c) \/ StopIn(c)
    \/ Resets \/ SweepFails
    \/ \E s \in Sessions : TakesSlot(s) \/ Starts(s) \/ Expires(s) \/ Ends(s)
    \/ \E k \in Slots : HoldSlot(k)
    \/ \E l \in Labs : Enrol(l)

\* The reconciler sweeps on; every session that is asked to stop ends
\* (CampusLab's EverySessionEnds).  A sweep may fail, but not for ever: its
\* last steps get their turn again and again.
Fairness ==
    /\ WF_vars(ListResets)
    /\ SF_vars(\E t \in todo : TakeReset(t))
    /\ SF_vars(AdmitReset)
    /\ SF_vars(ClearReset)
    /\ \A s \in Sessions : WF_vars(Ends(s))

Spec == Init /\ [][Next]_vars /\ Fairness

-----------------------------------------------------------------------------
\* Properties.

Requests == [op : {"none", "admit", "stop", "stop_reset"}, lab : Labs \cup {Nil},
             key : Keys \cup {Nil}, session : Sessions \cup {Nil}]

\* Rows, requests and the reconciler's position are well formed; a request and
\* a listed lab name a lab.
TypeOK ==
    /\ current \in [Labs -> Sessions \cup {Nil}]
    /\ reset \subseteq Labs
    /\ lab \in [Sessions -> Labs \cup {Nil}]
    /\ from \in [Sessions -> Sessions \cup {Nil}]
    /\ stop \subseteq Sessions
    /\ keyed \in [Students -> [Keys -> Sessions \cup {Nil}]]
    /\ told \in [Students -> [Keys -> SUBSET Sessions]]
    /\ holder \in [Slots -> Sessions \cup {Nil}]
    /\ live \subseteq Sessions
    /\ gone \subseteq Sessions
    /\ held \subseteq Slots
    /\ member \subseteq Labs
    /\ req \in [Clients -> Requests]
    /\ \A c \in Clients : req[c].op # "none" => req[c].lab \in Labs
    /\ \A c \in Clients : req[c].op \in {"stop", "stop_reset"} => req[c].session \in Sessions
    /\ todo \subseteq [lab : Labs, session : Sessions]
    /\ at \in [step : {"idle", "admit", "clear"}, lab : Labs \cup {Nil},
               session : Sessions \cup {Nil}]
    /\ at.step # "idle" => at.lab \in Labs /\ at.session \in Sessions

\* No number of concurrent or retried launches and resets gives a lab a second
\* live session, and the live one is the lab's current one
\* (admit_campus_lab_launch, step 3).
OneLiveSessionPerLab == \A s \in Live : current[lab[s]] = s

\* No session is replaced twice: a reset repeated by the student, or raced by
\* the reconciler or by a launch, is idempotent on the session it replaces.
ReplacedOnce == \A s, t \in Sessions : from[s] # Nil /\ from[s] = from[t] => s = t

\* Launches retried with one key, however late, are all answered with the same
\* session, also when the first answer was a session that was running already
\* and has ended since.
OneSessionPerKey == \A u \in Students, key \in Keys : Cardinality(told[u][key]) <= 1

Admitted(s) == s \in Sessions /\ lab[s] # Nil

\* A request for, or a listed, session of a lab names one of that lab's.
Names(l, s) == Admitted(s) /\ lab[s] = l

\* The rows: a lab's current session is one of its own and the only one that may
\* live; what replaced a session came after it ended; and a key's answers are the
\* one session its row names.
RowsAgree ==
    /\ \A s \in gone : Admitted(s)
    /\ \A l \in Labs : current[l] # Nil => Names(l, current[l])
    /\ OneLiveSessionPerLab
    /\ \A s \in Sessions : from[s] # Nil =>
          Admitted(s) /\ from[s] \in gone /\ Names(lab[s], from[s]) /\ current[lab[s]] # from[s]
    /\ ReplacedOnce
    /\ \A u \in Students, key \in Keys :
          /\ keyed[u][key] # Nil => Admitted(keyed[u][key])
          /\ told[u][key] \subseteq {keyed[u][key]}

\* What is under way names sessions of the right lab, and a reset has no key.
RequestsAgree ==
    /\ \A c \in Clients : req[c].session # Nil =>
          Names(req[c].lab, req[c].session) /\ req[c].key = Nil
    /\ \A t \in todo : Names(t.lab, t.session)
    /\ at.step # "idle" => Names(at.lab, at.session)

\* The inductive invariant.
IInv == TypeOK /\ RowsAgree /\ RequestsAgree

Waiting == {m \in reset : current[m] \in gone}

Places(P(_)) == Cardinality({s \in Live : P(lab[s])}) + Cardinality({m \in Waiting : P(m)})

\* A lab that waits for its reset keeps its place: counting it, no limit is
\* exceeded, whoever launches meanwhile, so that unless slots are held the reset
\* always has room ("a concurrent launch cannot take the capacity a reset is
\* about to use").
PlaceIsKept ==
    /\ \A u \in Students : LET Of(m) == Owner[m] = u IN Places(Of) <= StudentLimit
    /\ \A c \in Courses : LET Of(m) == Course[m] = c IN Places(Of) <= CourseLimit
    /\ LET Of(m) == TRUE IN Places(Of) <= LabLimit /\ Places(Of) <= Cardinality(Slots)
    /\ held = {} => \A m \in Waiting : HasRoom(m)

\* A session reset by the student is not waited for in vain: the reset is
\* admitted, refused or cancelled.
ResetsAreSettled == \A l \in Labs : l \in reset ~> l \notin reset
=============================================================================
