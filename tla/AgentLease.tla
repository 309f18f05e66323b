------------------------------ MODULE AgentLease ------------------------------
(***************************************************************************)
(* Agent hosts outside the cluster and the leases through which they run   *)
(* the stages of Repo Mode: the agent_leases and agent_hosts tables, the   *)
(* API handlers over them, the monitor that pauses expired leases, and the *)
(* host process with the lease file it keeps on disk.                      *)
(*                                                                         *)
(* A stage of a workspace has one Run and the Run one lease, so a pair     *)
(* <<workspace, stage>> stands for both.  A handler that writes the lease  *)
(* and then the Run is two steps: the second waits in calls, and an API    *)
(* that stops in between never takes it.  A host has one slot.             *)
(***************************************************************************)
EXTENDS Integers, FiniteSets

CONSTANTS
    Hosts,
    Workspaces,
    LastStage,      \* bound: stages of one workspace
    Prepared,       \* workspaces whose builder reuses a prepared environment
    Nil,
    MaxFaults,      \* bound: host processes that die, lost answers and API restarts
    MaxActions      \* bound: lifecycle changes of hosts

ASSUME LeaseAssumption ==
    /\ LastStage \in Nat \ {0}
    /\ Prepared \subseteq Workspaces
    /\ MaxFaults \in Nat
    /\ MaxActions \in Nat
    /\ Nil \notin Hosts \cup (Workspaces \X (1..LastStage))

Leases == Workspaces \X (1..LastStage)

VARIABLES
    host,       \* lifecycle_state of each host
    state,      \* each lease's state; "closed" is completed, failed or cancelled
    owner,      \* host_id
    pin,        \* pinned_host_id
    fresh,      \* expires_at lies ahead
    run,        \* the Run's status; "paused" is either pause category
    calls,      \* handlers between their write to the lease and to the Run
    listed,     \* leases the monitor selected and has not paused yet
    decided,    \* lifecycle changes whose handler has checked and not written
    pc, file,   \* the host process and the lease file it keeps
    resumed,    \* its execution was started from that file
    crashes, restarts, actions

vars == <<host, state, owner, pin, fresh, run, calls, listed, decided,
          pc, file, resumed, crashes, restarts, actions>>
leases == <<state, owner, pin, fresh>>
process == <<pc, file, resumed>>
bounds == <<crashes, restarts, actions>>

Live == {"claimed", "running"}
Active == Live \cup {"paused"}
Terminal == {"completed", "failed", "cancelled"}

\* The second writes of handlers.
Call(op, l) == [op |-> op, lease |-> l]
Calls == {Call(op, l) : op \in {"mark", "pause", "fail", "prepared", "continue"}, l \in Leases}

Goto(h, step) == pc' = [pc EXCEPT ![h] = step]

\* The process exits and systemd starts it again.
Exit(h) == Goto(h, "start") /\ UNCHANGED <<file, resumed>>

\* An execution that ends in an error: the first one pauses its lease before
\* the process exits, a resumed one just exits.  Both keep the lease file.
Fail(h) ==
    /\ Goto(h, IF resumed[h] THEN "start" ELSE "failing")
    /\ UNCHANGED <<file, resumed>>

-----------------------------------------------------------------------------
\* Queueing stages and claiming them.

\* start_repo_builder on a workspace no host has: the lease is not pinned.
StartBuilder(w) ==
    LET l == <<w, 1>> IN
    /\ state[l] = "absent"
    /\ state' = [state EXCEPT ![l] = "queued"]
    /\ run' = [run EXCEPT ![l] = IF w \in Prepared THEN "queued" ELSE "preparing"]
    /\ UNCHANGED <<host, owner, pin, fresh, calls, listed, decided, process, bounds>>

PinAnyHost(l) == Nil

\* sticky_workspace_host
StickyHost(l) == IF owner[l] # Nil THEN owner[l] ELSE pin[l]

Following(l) == <<l[1], l[2] + 1>>

\* continue_repo_stage_chain after a completed stage: the next stage is queued
\* for the host of the workspace's latest lease.
ContinueChain(l) ==
    /\ IF run[l] = "completed" /\ l[2] < LastStage /\ state[Following(l)] = "absent"
       THEN /\ state' = [state EXCEPT ![Following(l)] = "queued"]
            /\ pin' = [pin EXCEPT ![Following(l)] = StickyHost(l)]
            /\ run' = [run EXCEPT ![Following(l)] = "queued"]
       ELSE UNCHANGED <<state, pin, run>>
    /\ UNCHANGED <<owner, fresh>>

IgnorePaused(h) == ~ \E l \in Leases : owner[l] = h /\ state[l] \in Live

HasFreeSlot(h) == ~ \E l \in Leases : owner[l] = h /\ state[l] \in Active

\* claim_next_agent_lease, one transaction.  It does not look at the Run.
Claims(h, l) ==
    /\ host[h] = "ready"
    /\ HasFreeSlot(h)
    /\ state[l] = "queued"
    /\ pin[l] \in {Nil, h}
    /\ state' = [state EXCEPT ![l] = "claimed"]
    /\ owner' = [owner EXCEPT ![l] = h]
    /\ fresh' = [fresh EXCEPT ![l] = TRUE]
    /\ UNCHANGED pin

\* persist_and_execute_lease writes the file before it executes.
Claim(h) ==
    /\ pc[h] = "polling"
    /\ \E l \in Leases : Claims(h, l) /\ file' = [file EXCEPT ![h] = l]
    /\ Goto(h, "checkout")
    /\ resumed' = [resumed EXCEPT ![h] = FALSE]
    /\ UNCHANGED <<host, run, calls, listed, decided, bounds>>

\* The answer, which holds the lease's token, is lost: claim() is an error.
ClaimLost(h) ==
    /\ pc[h] = "polling"
    /\ crashes + restarts < MaxFaults
    /\ crashes' = crashes + 1
    /\ \E l \in Leases : Claims(h, l)
    /\ Exit(h)
    /\ UNCHANGED <<host, run, calls, listed, decided, restarts, actions>>

-----------------------------------------------------------------------------
\* The host process.  file[h] is the lease it works on.

\* serve: resume_local_lease_if_present, then poll.
Start(h) ==
    /\ pc[h] = "start"
    /\ Goto(h, IF file[h] = Nil THEN "polling" ELSE "checkout")
    /\ resumed' = [resumed EXCEPT ![h] = file[h] # Nil]
    /\ UNCHANGED <<host, leases, run, calls, listed, decided, file, bounds>>

\* Mutant: a paused lease is revived by its host's calls.
RevivesPaused(h, l) == owner[l] = h /\ state[l] \in Active

\* authorize_lease and heartbeat_agent_lease: every call of a lease but its
\* mark_running, pause and complete.
MayHeartbeat(h, l) == owner[l] = h /\ state[l] \in Live

Refresh(l) ==
    /\ state' = [state EXCEPT ![l] = "running"]
    /\ fresh' = [fresh EXCEPT ![l] = TRUE]
    /\ UNCHANGED <<owner, pin>>

\* authorize_lease alone: the token of an active lease.
MayCall(h, l) == owner[l] = h /\ state[l] \in Active

\* A call that only refreshes the lease: context before the checkout, and again
\* in the executor with workspace_provisioned.
Context(h) ==
    LET l == file[h] IN
    /\ pc[h] \in {"checkout", "context"}
    /\ IF MayHeartbeat(h, l)
       THEN /\ Refresh(l)
            /\ Goto(h, IF pc[h] = "checkout" THEN "context"
                       ELSE IF l[2] = 1 /\ l[1] \notin Prepared THEN "prepare"
                       ELSE "mark")
            /\ UNCHANGED <<file, resumed>>
       ELSE Fail(h) /\ UNCHANGED leases
    /\ UNCHANGED <<host, run, calls, listed, decided, bounds>>

\* environment_preparation: refreshes the lease, reads the Run, and writes the
\* preparation's result afterwards.
ReportPreparation(h) ==
    LET l == file[h] IN
    /\ pc[h] = "prepare"
    /\ IF MayHeartbeat(h, l)
       THEN /\ Refresh(l)
            /\ IF run[l] = "preparing"
               THEN /\ \E op \in {"prepared", "fail"} : calls' = calls \cup {Call(op, l)}
                    /\ Goto(h, "preparing")
                    /\ UNCHANGED <<file, resumed>>
               ELSE Fail(h) /\ UNCHANGED calls
       ELSE Fail(h) /\ UNCHANGED <<leases, calls>>
    /\ UNCHANGED <<host, run, listed, decided, bounds>>

\* mark_agent_lease_running takes a paused lease as well.
MarkRunning(h) ==
    LET l == file[h] IN
    /\ pc[h] = "mark"
    /\ IF MayCall(h, l)
       THEN /\ Refresh(l)
            /\ calls' = calls \cup {Call("mark", l)}
            /\ Goto(h, "marking")
            /\ UNCHANGED <<file, resumed>>
       ELSE Fail(h) /\ UNCHANGED <<leases, calls>>
    /\ UNCHANGED <<host, run, listed, decided, bounds>>

\* The heartbeat every ten seconds of an execution; its failure is only logged.
Heartbeat(h) ==
    LET l == file[h] IN
    /\ pc[h] = "execute"
    /\ MayHeartbeat(h, l)
    /\ Refresh(l)
    /\ UNCHANGED <<host, run, calls, listed, decided, process, bounds>>

\* internal_ingest_outcome and finish_run_from_attempt: a Run that has a
\* result keeps it.
AcceptsOutcome(l) == run[l] \notin Terminal

ReportOutcome(h) ==
    LET l == file[h] IN
    /\ pc[h] = "execute"
    /\ IF MayHeartbeat(h, l)
       THEN /\ Refresh(l)
            /\ IF AcceptsOutcome(l)
               THEN /\ \E result \in {"completed", "failed"} : run' = [run EXCEPT ![l] = result]
                    /\ calls' = calls \cup {Call("continue", l)}
                    /\ Goto(h, "reporting")
                    /\ UNCHANGED <<file, resumed>>
               ELSE Fail(h) /\ UNCHANGED <<run, calls>>
       ELSE Fail(h) /\ UNCHANGED <<leases, run, calls>>
    /\ UNCHANGED <<host, listed, decided, bounds>>

\* pause_agent_lease
PauseLease(l) ==
    /\ state' = [state EXCEPT ![l] = "paused"]
    /\ calls' = calls \cup {Call("pause", l)}
    /\ UNCHANGED <<owner, pin, fresh>>

\* The subscription's quota is used up: the lease is paused and the execution
\* is over.
PauseForQuota(h) ==
    LET l == file[h] IN
    /\ pc[h] = "execute"
    /\ IF MayCall(h, l)
       THEN PauseLease(l) /\ Goto(h, "pausing") /\ UNCHANGED <<file, resumed>>
       ELSE Fail(h) /\ UNCHANGED <<leases, calls>>
    /\ UNCHANGED <<host, run, listed, decided, bounds>>

\* complete_agent_lease
CompleteLease(h) ==
    LET l == file[h] IN
    /\ pc[h] = "complete"
    /\ IF MayCall(h, l)
       THEN /\ state' = [state EXCEPT ![l] = "closed"]
            /\ Goto(h, "remove")
            /\ UNCHANGED <<owner, pin, fresh, file, resumed>>
       ELSE Fail(h) /\ UNCHANGED leases
    /\ UNCHANGED <<host, run, calls, listed, decided, bounds>>

RemoveFile(h) ==
    /\ pc[h] = "remove"
    /\ file' = [file EXCEPT ![h] = Nil]
    /\ Goto(h, "polling")
    /\ UNCHANGED <<host, leases, run, calls, listed, decided, resumed, bounds>>

\* The pause of a failed execution; its own failure is ignored.
PauseAndExit(h) ==
    LET l == file[h] IN
    /\ pc[h] = "failing"
    /\ IF MayCall(h, l) THEN PauseLease(l) ELSE UNCHANGED <<leases, calls>>
    /\ Exit(h)
    /\ UNCHANGED <<host, run, listed, decided, bounds>>

CrashHost(h) ==
    /\ crashes + restarts < MaxFaults
    /\ crashes' = crashes + 1
    /\ pc[h] # "start"
    /\ Exit(h)
    /\ UNCHANGED <<host, leases, run, calls, listed, decided, restarts, actions>>

\* A request that gets no answer is an error like one that is refused.
CallFails(h) ==
    /\ crashes + restarts < MaxFaults
    /\ crashes' = crashes + 1
    /\ pc[h] \in {"checkout", "context", "prepare", "mark", "execute", "complete"}
    /\ Fail(h)
    /\ UNCHANGED <<host, leases, run, calls, listed, decided, restarts, actions>>

-----------------------------------------------------------------------------
\* The API.

\* What a host whose call is answered does next.
Answered(op) ==
    CASE op = "mark" -> "execute"
      [] op = "prepared" -> "mark"
      [] op \in {"fail", "continue"} -> "complete"
      [] op = "pause" -> "remove"

Waiting(op) ==
    CASE op = "mark" -> "marking"
      [] op \in {"prepared", "fail"} -> "preparing"
      [] op = "continue" -> "reporting"
      [] op = "pause" -> "pausing"

\* Mutant: a pause that was on its way replaces a result.
RunAfterPausesAny(op, status) ==
    CASE op = "mark" /\ status \notin Terminal -> "running"
      [] op = "pause" -> "paused"
      [] op = "prepared" /\ status = "preparing" -> "queued"
      [] op = "fail" -> "failed"
      [] OTHER -> status

\* mark_run_running and pause_run_for_agent_host spare a terminal Run and the
\* snapshot one that no longer prepares; complete_run spares nothing.
RunAfter(op, status) ==
    CASE op = "mark" /\ status \notin Terminal -> "running"
      [] op = "pause" /\ status \notin Terminal -> "paused"
      [] op = "prepared" /\ status = "preparing" -> "queued"
      [] op = "fail" -> "failed"
      [] OTHER -> status

\* The second write of a handler and its answer.
FinishCall(c) ==
    LET l == c.lease IN
    /\ c \in calls
    /\ calls' = calls \ {c}
    /\ IF c.op = "continue"
       THEN ContinueChain(l)
       ELSE run' = [run EXCEPT ![l] = RunAfter(c.op, run[l])] /\ UNCHANGED leases
    /\ pc' = [h \in Hosts |->
                IF file[h] = l /\ pc[h] = Waiting(c.op) THEN Answered(c.op) ELSE pc[h]]
    /\ UNCHANGED <<host, listed, decided, file, resumed, bounds>>

\* The API stops: its handlers end where they are, and the hosts that wait for
\* them see an error.
RestartApi ==
    /\ crashes + restarts < MaxFaults
    /\ restarts' = restarts + 1
    /\ calls' = {}
    /\ listed' = {}
    /\ decided' = {}
    /\ pc' = [h \in Hosts |->
                IF pc[h] \in {"marking", "preparing", "reporting", "pausing"}
                THEN IF resumed[h] THEN "start" ELSE "failing"
                ELSE pc[h]]
    /\ UNCHANGED <<host, leases, run, file, resumed, crashes, actions>>

\* Forty-five seconds without a call of the lease.
Expire(l) ==
    /\ state[l] \in Live
    /\ fresh[l]
    /\ fresh' = [fresh EXCEPT ![l] = FALSE]
    /\ UNCHANGED <<host, state, owner, pin, run, calls, listed, decided, process, bounds>>

Expired(l) == state[l] \in Live /\ ~fresh[l]

\* pause_expired_agent_leases selects the leases, updates those that are still
\* expired, and the monitor pauses the Runs of all it selected.
SelectExpired ==
    /\ listed = {}
    /\ listed' = {l \in Leases : Expired(l)}
    /\ listed' # {}
    /\ UNCHANGED <<host, leases, run, calls, decided, process, bounds>>

NoRunToPause(selected) == {}

RunsToPause(selected) == {Call("pause", l) : l \in selected}

PauseExpired ==
    /\ listed # {}
    /\ state' = [l \in Leases |-> IF l \in listed /\ Expired(l) THEN "paused" ELSE state[l]]
    /\ calls' = calls \cup RunsToPause(listed)
    /\ listed' = {}
    /\ UNCHANGED <<host, owner, pin, fresh, run, decided, process, bounds>>

-----------------------------------------------------------------------------
\* Operators.

\* cancel_run of a Repo Mode Run, through finish_run_from_attempt.
CancelRun(l) ==
    /\ run[l] \notin Terminal \cup {"absent"}
    /\ run' = [run EXCEPT ![l] = "cancelled"]
    /\ UNCHANGED <<host, leases, calls, listed, decided, process, bounds>>

\* abandon_agent_lease
AbandonLease(l) ==
    /\ state[l] = "paused"
    /\ state' = [state EXCEPT ![l] = "abandoned"]
    /\ UNCHANGED <<host, owner, pin, fresh, run, calls, listed, decided, process, bounds>>

\* execute_host_action checks the host's state and writes the new one later.
Eligible(h, to) ==
    CASE to = "draining" -> host[h] = "ready"
      [] to = "ready" -> host[h] = "draining"
      [] to = "retired" -> host[h] = "draining"

DecideHost(h, to) ==
    /\ Eligible(h, to)
    /\ <<h, to>> \notin decided
    /\ decided' = decided \cup {<<h, to>>}
    /\ actions < MaxActions
    /\ actions' = actions + 1
    /\ UNCHANGED <<host, leases, run, calls, listed, process, crashes, restarts>>

RetireAnyway(h) == TRUE

\* The update that retires a host looks at its leases itself.
MayRetire(h) == HasFreeSlot(h)

\* set_agent_host_lifecycle_state
SetHost(h, to) ==
    /\ <<h, to>> \in decided
    /\ decided' = decided \ {<<h, to>>}
    /\ IF to = "retired" => MayRetire(h)
       THEN host' = [host EXCEPT ![h] = to]
       ELSE UNCHANGED host
    /\ UNCHANGED <<leases, run, calls, listed, process, bounds>>

-----------------------------------------------------------------------------
Init ==
    /\ host = [h \in Hosts |-> "ready"]
    /\ state = [l \in Leases |-> "absent"]
    /\ owner = [l \in Leases |-> Nil]
    /\ pin = [l \in Leases |-> Nil]
    /\ fresh = [l \in Leases |-> FALSE]
    /\ run = [l \in Leases |-> "absent"]
    /\ calls = {}
    /\ listed = {}
    /\ decided = {}
    /\ pc = [h \in Hosts |-> "start"]
    /\ file = [h \in Hosts |-> Nil]
    /\ resumed = [h \in Hosts |-> FALSE]
    /\ crashes = 0
    /\ restarts = 0
    /\ actions = 0

HostStep(h) ==
    \/ Start(h)
    \/ Claim(h)
    \/ Context(h)
    \/ ReportPreparation(h)
    \/ MarkRunning(h)
    \/ ReportOutcome(h)
    \/ CompleteLease(h)
    \/ RemoveFile(h)
    \/ PauseAndExit(h)

ApiStep ==
    \/ \E c \in calls : FinishCall(c)
    \/ SelectExpired
    \/ PauseExpired

OperatorStep ==
    \/ \E w \in Workspaces : StartBuilder(w)
    \/ \E l \in Leases : CancelRun(l) \/ AbandonLease(l)
    \/ \E h \in Hosts, to \in {"ready", "draining", "retired"} :
         DecideHost(h, to) \/ SetHost(h, to)

Next ==
    \/ \E h \in Hosts :
         \/ HostStep(h)
         \/ Heartbeat(h)
         \/ PauseForQuota(h)
         \/ ClaimLost(h)
         \/ CallFails(h)
         \/ CrashHost(h)
    \/ ApiStep
    \/ \E l \in Leases : Expire(l)
    \/ RestartApi
    \/ OperatorStep

Spec == Init /\ [][Next]_vars

\* The monitor wakes every ten seconds and goes through what it selected.  Nothing
\* is assumed of hosts and operators: an execution need not answer.
FairSpec ==
    /\ Spec
    /\ WF_vars(SelectExpired \/ PauseExpired)
    /\ \A l \in Leases : WF_vars(FinishCall(Call("pause", l)))

-----------------------------------------------------------------------------
\* What the runs check.

Steps == {"start", "polling", "checkout", "context", "prepare", "preparing", "mark", "marking",
          "execute", "reporting", "pausing", "complete", "remove", "failing"}

\* TypeOK: hosts, leases, Runs and processes have the states the code gives them.
TypeOK ==
    /\ host \in [Hosts -> {"ready", "draining", "retired"}]
    /\ state \in [Leases -> {"absent", "queued", "claimed", "running", "paused", "closed", "abandoned"}]
    /\ owner \in [Leases -> Hosts \cup {Nil}]
    /\ pin \in [Leases -> Hosts \cup {Nil}]
    /\ fresh \in [Leases -> BOOLEAN]
    /\ run \in [Leases -> {"absent", "preparing", "queued", "running", "paused"} \cup Terminal]
    /\ calls \subseteq Calls
    /\ listed \subseteq Leases
    /\ decided \subseteq Hosts \X {"ready", "draining", "retired"}
    /\ pc \in [Hosts -> Steps]
    /\ file \in [Hosts -> Leases \cup {Nil}]
    /\ resumed \in [Hosts -> BOOLEAN]
    /\ crashes \in 0..MaxFaults
    /\ restarts \in 0..MaxFaults
    /\ actions \in 0..MaxActions

Owned(l) == state[l] \notin {"absent", "queued"}

\* A lease has an owner from its claim on, and a host keeps the file of a
\* lease it owns for as long as it works on it.
FilesAreOwned ==
    /\ \A l \in Leases : Owned(l) <=> owner[l] # Nil
    /\ \A h \in Hosts :
         /\ file[h] # Nil => owner[file[h]] = h
         /\ pc[h] = "polling" => file[h] = Nil
         /\ pc[h] \notin {"start", "polling"} => file[h] # Nil

First(l) == <<l[1], 1>>

\* The later stages of a workspace are pinned to the host of its first, and a
\* pinned lease is claimed by no other.
PinsAreInherited ==
    \A l \in Leases :
      /\ owner[l] # Nil /\ pin[l] # Nil => owner[l] = pin[l]
      /\ l # First(l) /\ state[l] # "absent" =>
           owner[First(l)] # Nil /\ pin[l] = owner[First(l)]

\* One slot per host: a paused lease still takes it.
OneLeasePerHost ==
    \A l, m \in Leases :
      owner[l] # Nil /\ owner[l] = owner[m] /\ state[l] \in Active /\ state[m] \in Active => l = m

\* A lease and its Run are created together; a continuation, the completion of
\* a lease and a closed lease come after the Run's result.
ResultsComeFirst ==
    /\ \A l \in Leases :
         /\ state[l] = "absent" <=> run[l] = "absent"
         /\ state[l] = "closed" => run[l] \in Terminal
    /\ \A c \in calls : owner[c.lease] # Nil /\ (c.op = "continue" => run[c.lease] \in Terminal)
    /\ \A l \in listed : owner[l] # Nil
    /\ \A h \in Hosts : pc[h] \in {"complete", "reporting"} => run[file[h]] \in Terminal

\* RetiredOwnsNothing: a retired host owns no active or resumable lease, also
\* when its retirement was decided before a claim and written after it
\* (agent_execution.rs:335, claim_next_agent_lease).
RetiredOwnsNothing ==
    \A h \in Hosts : host[h] = "retired" => HasFreeSlot(h)

\* IInv: the inductive invariant of the leases.
IInv ==
    /\ TypeOK
    /\ FilesAreOwned
    /\ PinsAreInherited
    /\ OneLeasePerHost
    /\ ResultsComeFirst
    /\ RetiredOwnsNothing

\* StagesDoNotOverlap: two stages of one workspace are never active at once and
\* never on two hosts, although the next stage is queued while the host of the
\* former has not completed its lease, processes die and claims are lost
\* (stages.rs:1583, claim_next_agent_lease).
StagesDoNotOverlap ==
    \A w \in Workspaces : \A s, t \in 1..LastStage :
      s # t /\ owner[<<w, s>>] # Nil /\ owner[<<w, t>>] # Nil =>
        /\ owner[<<w, s>>] = owner[<<w, t>>]
        /\ ~(state[<<w, s>>] \in Active /\ state[<<w, t>>] \in Active)

\* ClosedHasItsResult: a lease is closed only when its Run has a result: no
\* order of pauses, cancellations, crashes and resumed executions lets a host
\* release its slot with the Run still open (executor.rs:173-200).
ClosedHasItsResult ==
    \A l \in Leases : state[l] = "closed" => run[l] \in Terminal

\* TerminalRunIsFinal: neither a late second execution nor a mark or a pause that
\* was on its way replaces a Run's result (worker.rs:343).  One write may: that of
\* a failed preparation which read the Run before it ended (runs.rs:213).
TerminalRunIsFinal ==
    [][\A l \in Leases :
         run[l] \in Terminal /\ run'[l] # run[l] => Call("fail", l) \in calls]_vars

\* LostLeasePausesItsRun: a lease that expires is refreshed, closed or
\* abandoned, or its Run is paused or has its result in the end, unless the API
\* stops (agent_hosts.rs:153).
LostLeasePausesItsRun ==
    \A l \in Leases :
      Expired(l) ~> (\/ run[l] \in Terminal \cup {"paused"}
                     \/ state[l] \in Live /\ fresh[l]
                     \/ state[l] \in {"closed", "abandoned"}
                     \/ restarts > 0)

\* A host process that was started again with the file of a paused lease.
Stuck(h, l) ==
    /\ file[h] = l
    /\ state[l] \in {"paused", "abandoned"}
    /\ pc[h] = "start" \/ (pc[h] = "checkout" /\ resumed[h])

\* PausedIsNeverResumed: a host that starts with the file of a paused lease is
\* refused its context, exits, and is started again, whatever else happens: no
\* heartbeat, mark or monitor brings the lease back (agent_execution.rs:707).
PausedIsNeverResumed ==
    [][\A h \in Hosts, l \in Leases : Stuck(h, l) => Stuck(h, l)']_vars

\* The host of each workspace, the leases that take a slot or gave it back, the
\* hosts out of service.
Home    == [w \in Workspaces |-> owner[<<w, 1>>]]
Served  == {l \in Leases : state[l] \in Active}
Over    == {l \in Leases : state[l] \in {"closed", "abandoned"}}
Retired == {h \in Hosts : host[h] = "retired"}

Slots == INSTANCE HostSlots
    WITH home <- Home, served <- Served, over <- Over, retired <- Retired

\* ImplementsHostSlots: whatever dies, expires, is paused or answers late, a host
\* serves one stage at a time, the stages of a workspace are served once each, in
\* order and on one host, and no lifecycle change that was decided earlier takes a
\* host out of service with a stage on it (claim_next_agent_lease).
ImplementsHostSlots == Slots!Spec
=============================================================================
