-------------------------- MODULE AgentLeaseProofs --------------------------
(***************************************************************************)
(* Proofs about AgentLease, for any hosts, workspaces, stages and numbers  *)
(* of crashes, restarts and lifecycle changes: the inductive invariant, the*)
(* safety properties from it, and that leases implement HostSlots.         *)
(***************************************************************************)
EXTENDS AgentLease, TLAPS

\* Leases are pairs, and the stage after one that is not the last is a lease
\* that is not its workspace's first.
LEMMA LeasePairs ==
    ASSUME NEW l \in Leases
    PROVE  /\ First(l) \in Leases
           /\ l[2] < LastStage => /\ Following(l) \in Leases
                                  /\ Following(l) # First(Following(l))
                                  /\ First(Following(l)) = First(l)
                                  /\ Following(l) # l
  BY LeaseAssumption DEF Leases, First, Following

LEMMA FirstStages ==
    ASSUME NEW w \in Workspaces
    PROVE  <<w, 1>> \in Leases /\ First(<<w, 1>>) = <<w, 1>>
  BY LeaseAssumption DEF Leases, First

\* The steps of Next, apart.
LEMMA NextSteps ==
    ASSUME Next
    PROVE  \/ \E h \in Hosts : \/ Start(h) \/ Claim(h) \/ Context(h) \/ ReportPreparation(h)
                               \/ MarkRunning(h) \/ ReportOutcome(h) \/ CompleteLease(h)
                               \/ RemoveFile(h) \/ PauseAndExit(h) \/ Heartbeat(h)
                               \/ PauseForQuota(h) \/ ClaimLost(h) \/ CallFails(h) \/ CrashHost(h)
           \/ \E c \in calls : FinishCall(c)
           \/ SelectExpired \/ PauseExpired \/ RestartApi
           \/ \E l \in Leases : Expire(l) \/ CancelRun(l) \/ AbandonLease(l)
           \/ \E w \in Workspaces : StartBuilder(w)
           \/ \E h \in Hosts, to \in {"ready", "draining", "retired"} : DecideHost(h, to) \/ SetHost(h, to)
  BY DEF Next, HostStep, ApiStep, OperatorStep

\* A working host has a lease's file.
LEMMA WorkingHost ==
    ASSUME TypeOK, FilesAreOwned, NEW h \in Hosts, pc[h] \notin {"start", "polling"}
    PROVE  file[h] \in Leases /\ owner[file[h]] = h
  BY DEF TypeOK, FilesAreOwned

\* A call is about a lease, and what its answer leads to is a step.
LEMMA CallParts ==
    ASSUME TypeOK, NEW c \in calls
    PROVE  /\ c.lease \in Leases
           /\ c.op \in {"mark", "pause", "fail", "prepared", "continue"}
           /\ c = Call(c.op, c.lease)
  BY DEF TypeOK, Calls, Call

LEMMA CallIsOne ==
    ASSUME NEW l \in Leases, NEW op \in {"mark", "pause", "fail", "prepared", "continue"}
    PROVE  Call(op, l) \in Calls /\ Call(op, l).op = op /\ Call(op, l).lease = l
  BY DEF Calls, Call

LEMMA AnswersAreSteps ==
    ASSUME NEW op \in {"mark", "pause", "fail", "prepared", "continue"}
    PROVE  Answered(op) \in Steps
  BY DEF Answered, Steps

LEMMA RunAfterIsStatus ==
    ASSUME NEW op, NEW status \in {"absent", "preparing", "queued", "running", "paused"} \cup Terminal
    PROVE  RunAfter(op, status) \in {"absent", "preparing", "queued", "running", "paused"} \cup Terminal
  BY DEF RunAfter, Terminal

\* The parts of TypeOK a step may change.
LeaseTypes ==
    /\ state \in [Leases -> {"absent", "queued", "claimed", "running", "paused", "closed", "abandoned"}]
    /\ owner \in [Leases -> Hosts \cup {Nil}]
    /\ pin \in [Leases -> Hosts \cup {Nil}]
    /\ fresh \in [Leases -> BOOLEAN]

ProcessTypes ==
    /\ pc \in [Hosts -> Steps]
    /\ file \in [Hosts -> Leases \cup {Nil}]
    /\ resumed \in [Hosts -> BOOLEAN]

ApiTypes ==
    /\ host \in [Hosts -> {"ready", "draining", "retired"}]
    /\ run \in [Leases -> {"absent", "preparing", "queued", "running", "paused"} \cup Terminal]
    /\ calls \subseteq Calls
    /\ listed \subseteq Leases
    /\ decided \subseteq Hosts \X {"ready", "draining", "retired"}

BoundTypes ==
    /\ crashes \in 0..MaxFaults
    /\ restarts \in 0..MaxFaults
    /\ actions \in 0..MaxActions

LEMMA Types == TypeOK <=> LeaseTypes /\ ProcessTypes /\ ApiTypes /\ BoundTypes
  BY DEF TypeOK, LeaseTypes, ProcessTypes, ApiTypes, BoundTypes

\* A host that goes on, exits or fails stays at a step of its program.
LEMMA GotoIsStep ==
    ASSUME ProcessTypes, NEW h \in Hosts, NEW step \in Steps, Goto(h, step), UNCHANGED <<file, resumed>>
    PROVE  ProcessTypes'
  BY DEF ProcessTypes, Goto

LEMMA FailIsStep ==
    ASSUME ProcessTypes, NEW h \in Hosts, Fail(h) \/ Exit(h)
    PROVE  ProcessTypes'
  BY DEF ProcessTypes, Goto, Fail, Exit, Steps

LEMMA RefreshIsTyped ==
    ASSUME LeaseTypes, NEW l \in Leases, Refresh(l)
    PROVE  LeaseTypes'
  BY DEF LeaseTypes, Refresh

LEMMA ClaimIsTyped ==
    ASSUME LeaseTypes, NEW h \in Hosts, NEW l \in Leases, Claims(h, l)
    PROVE  LeaseTypes'
  BY DEF LeaseTypes, Claims

LEMMA StickyIsTyped ==
    ASSUME LeaseTypes, NEW l \in Leases
    PROVE  StickyHost(l) \in Hosts \cup {Nil}
  BY DEF LeaseTypes, StickyHost

LEMMA PauseIsTyped ==
    ASSUME LeaseTypes, NEW l \in Leases, calls \subseteq Calls, PauseLease(l)
    PROVE  LeaseTypes' /\ calls' \subseteq Calls
  BY CallIsOne DEF LeaseTypes, PauseLease

\* Every step keeps hosts, leases, Runs and processes well formed.
LEMMA TypeStep ==
    ASSUME TypeOK, FilesAreOwned, [Next]_vars
    PROVE  TypeOK'
  <1> DEFINE Typed == LeaseTypes /\ ProcessTypes /\ ApiTypes /\ BoundTypes
  <1> SUFFICES Typed'
    BY DEF TypeOK, LeaseTypes, ProcessTypes, ApiTypes, BoundTypes
  <1> USE LeaseAssumption
  <1> USE DEF leases, process, bounds
  <1>0. LeaseTypes /\ ProcessTypes /\ ApiTypes /\ BoundTypes  BY Types
  <1>1. ASSUME NEW h \in Hosts, Start(h)  PROVE Typed'
    BY <1>0, <1>1 DEF Start, LeaseTypes, ProcessTypes, ApiTypes, BoundTypes, Goto, Steps
  <1>2. ASSUME NEW h \in Hosts, Claim(h)  PROVE Typed'
    <2>1. PICK l \in Leases : Claims(h, l) /\ file' = [file EXCEPT ![h] = l]  BY <1>2 DEF Claim
    <2>2. LeaseTypes'  BY <1>0, <2>1, ClaimIsTyped
    <2>3. ProcessTypes'  BY <1>0, <1>2, <2>1 DEF Claim, ProcessTypes, Goto, Steps
    <2> QED  BY <1>0, <1>2, <2>2, <2>3 DEF Claim, ApiTypes, BoundTypes
  <1>3. ASSUME NEW h \in Hosts, ClaimLost(h)  PROVE Typed'
    <2>1. LeaseTypes'  BY <1>0, <1>3, ClaimIsTyped DEF ClaimLost
    <2>2. ProcessTypes'  BY <1>0, <1>3, FailIsStep DEF ClaimLost
    <2> QED  BY <1>0, <1>3, <2>1, <2>2 DEF ClaimLost, ApiTypes, BoundTypes
  <1>4. ASSUME NEW h \in Hosts, Context(h)  PROVE Typed'
    <2>1. file[h] \in Leases  BY <1>4, WorkingHost DEF Context
    <2>2. LeaseTypes'  BY <1>0, <1>4, <2>1, RefreshIsTyped DEF Context, LeaseTypes
    <2>3. ProcessTypes'
      <3>1. CASE MayHeartbeat(h, file[h])
        <4>1. PICK step \in Steps : Goto(h, step)
          BY <1>4, <3>1 DEF Context, Steps
        <4> QED  BY <1>0, <1>4, <3>1, <4>1, GotoIsStep DEF Context
      <3>2. CASE ~MayHeartbeat(h, file[h])
        BY <1>0, <1>4, <3>2, FailIsStep DEF Context
      <3> QED  BY <3>1, <3>2
    <2> QED  BY <1>0, <1>4, <2>2, <2>3 DEF Context, ApiTypes, BoundTypes
  <1>5. ASSUME NEW h \in Hosts, ReportPreparation(h)  PROVE Typed'
    <2>1. file[h] \in Leases  BY <1>5, WorkingHost DEF ReportPreparation
    <2>2. LeaseTypes'  BY <1>0, <1>5, <2>1, RefreshIsTyped DEF ReportPreparation, LeaseTypes
    <2>3. ProcessTypes'
      <3>1. "preparing" \in Steps  BY DEF Steps
      <3> QED  BY <1>0, <1>5, <3>1, GotoIsStep, FailIsStep DEF ReportPreparation
    <2>4. calls' \subseteq Calls
      BY <1>0, <1>5, <2>1, CallIsOne DEF ReportPreparation, ApiTypes
    <2> QED  BY <1>0, <1>5, <2>2, <2>3, <2>4 DEF ReportPreparation, ApiTypes, BoundTypes
  <1>6. ASSUME NEW h \in Hosts, MarkRunning(h)  PROVE Typed'
    <2>1. file[h] \in Leases  BY <1>6, WorkingHost DEF MarkRunning
    <2>2. LeaseTypes'  BY <1>0, <1>6, <2>1, RefreshIsTyped DEF MarkRunning, LeaseTypes
    <2>3. ProcessTypes'
      <3>1. "marking" \in Steps  BY DEF Steps
      <3> QED  BY <1>0, <1>6, <3>1, GotoIsStep, FailIsStep DEF MarkRunning
    <2>4. calls' \subseteq Calls
      BY <1>0, <1>6, <2>1, CallIsOne DEF MarkRunning, ApiTypes
    <2> QED  BY <1>0, <1>6, <2>2, <2>3, <2>4 DEF MarkRunning, ApiTypes, BoundTypes
  <1>7. ASSUME NEW h \in Hosts, ReportOutcome(h)  PROVE Typed'
    <2>1. file[h] \in Leases  BY <1>7, WorkingHost DEF ReportOutcome
    <2>2. LeaseTypes'  BY <1>0, <1>7, <2>1, RefreshIsTyped DEF ReportOutcome, LeaseTypes
    <2>3. ProcessTypes'
      <3>1. "reporting" \in Steps  BY DEF Steps
      <3> QED  BY <1>0, <1>7, <3>1, GotoIsStep, FailIsStep DEF ReportOutcome
    <2>4. calls' \subseteq Calls
      BY <1>0, <1>7, <2>1, CallIsOne DEF ReportOutcome, ApiTypes
    <2>5. run' \in [Leases -> {"absent", "preparing", "queued", "running", "paused"} \cup Terminal]
      BY <1>0, <1>7, <2>1 DEF ReportOutcome, ApiTypes, Terminal
    <2> QED  BY <1>0, <1>7, <2>2, <2>3, <2>4, <2>5 DEF ReportOutcome, ApiTypes, BoundTypes
  <1>8. ASSUME NEW h \in Hosts, CompleteLease(h)  PROVE Typed'
    <2>1. file[h] \in Leases  BY <1>8, WorkingHost DEF CompleteLease
    <2>2. LeaseTypes'  BY <1>0, <1>8, <2>1 DEF CompleteLease, LeaseTypes
    <2>3. ProcessTypes'
      <3>1. "remove" \in Steps  BY DEF Steps
      <3> QED  BY <1>0, <1>8, <3>1, GotoIsStep, FailIsStep DEF CompleteLease
    <2> QED  BY <1>0, <1>8, <2>2, <2>3 DEF CompleteLease, ApiTypes, BoundTypes
  <1>9. ASSUME NEW h \in Hosts, RemoveFile(h)  PROVE Typed'
    BY <1>0, <1>9 DEF RemoveFile, LeaseTypes, ProcessTypes, ApiTypes, BoundTypes, Goto, Steps
  <1>10. ASSUME NEW h \in Hosts, PauseAndExit(h)  PROVE Typed'
    <2>1. file[h] \in Leases  BY <1>10, WorkingHost DEF PauseAndExit
    <2>2. LeaseTypes' /\ calls' \subseteq Calls
      BY <1>0, <1>10, <2>1, PauseIsTyped DEF PauseAndExit, LeaseTypes, ApiTypes
    <2>3. ProcessTypes'  BY <1>0, <1>10, FailIsStep DEF PauseAndExit
    <2> QED  BY <1>0, <1>10, <2>2, <2>3 DEF PauseAndExit, ApiTypes, BoundTypes
  <1>11. ASSUME NEW h \in Hosts, Heartbeat(h)  PROVE Typed'
    <2>1. file[h] \in Leases  BY <1>11, WorkingHost DEF Heartbeat
    <2>2. LeaseTypes'  BY <1>0, <1>11, <2>1, RefreshIsTyped DEF Heartbeat
    <2> QED  BY <1>0, <1>11, <2>2 DEF Heartbeat, ProcessTypes, ApiTypes, BoundTypes
  <1>12. ASSUME NEW h \in Hosts, PauseForQuota(h)  PROVE Typed'
    <2>1. file[h] \in Leases  BY <1>12, WorkingHost DEF PauseForQuota
    <2>2. LeaseTypes' /\ calls' \subseteq Calls
      BY <1>0, <1>12, <2>1, PauseIsTyped DEF PauseForQuota, LeaseTypes, ApiTypes
    <2>3. ProcessTypes'
      <3>1. "pausing" \in Steps  BY DEF Steps
      <3> QED  BY <1>0, <1>12, <3>1, GotoIsStep, FailIsStep DEF PauseForQuota
    <2> QED  BY <1>0, <1>12, <2>2, <2>3 DEF PauseForQuota, ApiTypes, BoundTypes
  <1>13. ASSUME NEW h \in Hosts, CallFails(h) \/ CrashHost(h)  PROVE Typed'
    <2>1. ProcessTypes'  BY <1>0, <1>13, FailIsStep DEF CallFails, CrashHost
    <2> QED  BY <1>0, <1>13, <2>1 DEF CallFails, CrashHost, LeaseTypes, ApiTypes, BoundTypes
  <1>14. ASSUME NEW c \in calls, FinishCall(c)  PROVE Typed'
    <2>1. c.lease \in Leases /\ c.op \in {"mark", "pause", "fail", "prepared", "continue"}
      BY CallParts
    <2>2. ProcessTypes'
      <3>1. \A h \in Hosts : pc'[h] \in Steps
        BY <1>0, <1>14, <2>1, AnswersAreSteps DEF FinishCall, ProcessTypes
      <3> QED  BY <1>0, <1>14, <3>1 DEF FinishCall, ProcessTypes
    <2>3. LeaseTypes' /\ run' \in [Leases -> {"absent", "preparing", "queued", "running", "paused"} \cup Terminal]
      <3>1. CASE c.op = "continue"
        <4>1. ContinueChain(c.lease)  BY <1>14, <3>1 DEF FinishCall
        <4>2. StickyHost(c.lease) \in Hosts \cup {Nil}  BY <1>0, <2>1, StickyIsTyped
        <4>3. c.lease[2] < LastStage => Following(c.lease) \in Leases  BY <2>1, LeasePairs
        <4> QED  BY <1>0, <4>1, <4>2, <4>3 DEF ContinueChain, LeaseTypes, ApiTypes
      <3>2. CASE c.op # "continue"
        <4>1. run[c.lease] \in {"absent", "preparing", "queued", "running", "paused"} \cup Terminal
          BY <1>0, <2>1 DEF ApiTypes
        <4>2. RunAfter(c.op, run[c.lease]) \in {"absent", "preparing", "queued", "running", "paused"} \cup Terminal
          BY <4>1, RunAfterIsStatus
        <4> QED  BY <1>0, <1>14, <2>1, <3>2, <4>2 DEF FinishCall, LeaseTypes, ApiTypes
      <3> QED  BY <3>1, <3>2
    <2> QED  BY <1>0, <1>14, <2>2, <2>3 DEF FinishCall, ApiTypes, BoundTypes
  <1>15. CASE SelectExpired
    BY <1>0, <1>15 DEF SelectExpired, LeaseTypes, ProcessTypes, ApiTypes, BoundTypes
  <1>16. CASE PauseExpired
    <2>1. RunsToPause(listed) \subseteq Calls
      BY <1>0, CallIsOne DEF RunsToPause, ApiTypes
    <2> QED  BY <1>0, <1>16, <2>1 DEF PauseExpired, LeaseTypes, ProcessTypes, ApiTypes, BoundTypes
  <1>17. CASE RestartApi
    <2>1. ProcessTypes'  BY <1>0, <1>17 DEF RestartApi, ProcessTypes, Steps
    <2> QED  BY <1>0, <1>17, <2>1 DEF RestartApi, LeaseTypes, ApiTypes, BoundTypes
  <1>18. ASSUME NEW l \in Leases, Expire(l) \/ CancelRun(l) \/ AbandonLease(l)  PROVE Typed'
    BY <1>0, <1>18 DEF Expire, CancelRun, AbandonLease, LeaseTypes, ProcessTypes, ApiTypes, BoundTypes, Terminal
  <1>19. ASSUME NEW w \in Workspaces, StartBuilder(w)  PROVE Typed'
    BY <1>0, <1>19, FirstStages DEF StartBuilder, LeaseTypes, ProcessTypes, ApiTypes, BoundTypes
  <1>20. ASSUME NEW h \in Hosts, NEW to \in {"ready", "draining", "retired"}, DecideHost(h, to) \/ SetHost(h, to)
         PROVE Typed'
    BY <1>0, <1>20 DEF DecideHost, SetHost, LeaseTypes, ProcessTypes, ApiTypes, BoundTypes
  <1>21. CASE UNCHANGED vars
    BY <1>0, <1>21 DEF vars, LeaseTypes, ProcessTypes, ApiTypes, BoundTypes
  <1> QED  BY <1>1, <1>2, <1>3, <1>4, <1>5, <1>6, <1>7, <1>8, <1>9, <1>10, <1>11, <1>12, <1>13, <1>14,
              <1>15, <1>16, <1>17, <1>18, <1>19, <1>20, <1>21, NextSteps

-----------------------------------------------------------------------------
\* What a step may do to a lease that nobody claims in it.
Moved(l) ==
    \/ state'[l] = state[l]
    \/ state[l] = "absent" /\ state'[l] = "queued"
    \/ state[l] \in Active /\ state'[l] \in Active \cup {"closed", "abandoned"}

\* The lease gives its slot back.
Ends(l) == state[l] \in Active /\ state'[l] \notin Active

Quiet ==
    /\ owner' = owner
    /\ pin' = pin
    /\ \A l, m \in Leases : Ends(l) /\ Ends(m) => l = m
    /\ \A l \in Leases : Moved(l) /\ (state[l] = "absent" => state'[l] = "absent" \/ l = First(l))

\* Every step claims one lease, queues the next stage of a chain, or leaves owners
\* and pins alone.
LEMMA Moves ==
    ASSUME TypeOK, FilesAreOwned, [Next]_vars
    PROVE  \/ \E h \in Hosts, l \in Leases : Claims(h, l) /\ UNCHANGED <<host, run, calls, listed>>
           \/ Quiet
           \/ \E c \in calls : ContinueChain(c.lease) /\ UNCHANGED <<host, listed>>
  <1> USE DEF leases
  <1> DEFINE Goal == \/ \E h \in Hosts, l \in Leases : Claims(h, l) /\ UNCHANGED <<host, run, calls, listed>>
                     \/ Quiet
                     \/ \E c \in calls : ContinueChain(c.lease) /\ UNCHANGED <<host, listed>>
  <1>0. ASSUME UNCHANGED leases  PROVE Quiet
    BY <1>0 DEF Quiet, Ends, Moved
  <1>1. ASSUME NEW l \in Leases, state[l] \in Active, UNCHANGED <<owner, pin>>,
               NEW new \in Active \cup {"closed", "abandoned"}, state' = [state EXCEPT ![l] = new]
        PROVE  Quiet
    <2>1. state[l] # "absent"  BY <1>1 DEF Active, Live
    <2>2. \A m \in Leases : state'[m] = IF m = l THEN new ELSE state[m]  BY <1>1 DEF TypeOK
    <2> QED  BY <1>1, <2>1, <2>2 DEF Quiet, Ends, Moved
  <1>2. ASSUME NEW h \in Hosts, Start(h) \/ RemoveFile(h) \/ CallFails(h) \/ CrashHost(h)  PROVE Quiet
    BY <1>0, <1>2 DEF Start, RemoveFile, CallFails, CrashHost
  <1>3. ASSUME NEW h \in Hosts, Claim(h) \/ ClaimLost(h)  PROVE Goal
    BY <1>3 DEF Claim, ClaimLost
  <1>4. ASSUME NEW l \in Leases, NEW h \in Hosts, MayCall(h, l), Refresh(l)  PROVE Quiet
    <2>1. state[l] \in Active /\ "running" \in Active  BY <1>4 DEF MayCall, Active, Live
    <2> QED  BY <1>1, <1>4, <2>1 DEF Refresh
  <1>5. ASSUME NEW l \in Leases, NEW h \in Hosts, MayHeartbeat(h, l)  PROVE MayCall(h, l)
    BY <1>5 DEF MayHeartbeat, MayCall, Active
  <1>6. ASSUME NEW h \in Hosts, Context(h)  PROVE Quiet
    <2>1. file[h] \in Leases  BY <1>6, WorkingHost DEF Context
    <2> QED  BY <1>0, <1>4, <1>5, <1>6, <2>1 DEF Context
  <1>7. ASSUME NEW h \in Hosts, ReportPreparation(h)  PROVE Quiet
    <2>1. file[h] \in Leases  BY <1>7, WorkingHost DEF ReportPreparation
    <2> QED  BY <1>0, <1>4, <1>5, <1>7, <2>1 DEF ReportPreparation
  <1>8. ASSUME NEW h \in Hosts, MarkRunning(h)  PROVE Quiet
    <2>1. file[h] \in Leases  BY <1>8, WorkingHost DEF MarkRunning
    <2> QED  BY <1>0, <1>4, <1>8, <2>1 DEF MarkRunning
  <1>9. ASSUME NEW h \in Hosts, ReportOutcome(h)  PROVE Quiet
    <2>1. file[h] \in Leases  BY <1>9, WorkingHost DEF ReportOutcome
    <2> QED  BY <1>0, <1>4, <1>5, <1>9, <2>1 DEF ReportOutcome
  <1>10. ASSUME NEW h \in Hosts, Heartbeat(h)  PROVE Quiet
    <2>1. file[h] \in Leases  BY <1>10, WorkingHost DEF Heartbeat
    <2> QED  BY <1>4, <1>5, <1>10, <2>1 DEF Heartbeat
  <1>11. ASSUME NEW l \in Leases, NEW h \in Hosts, MayCall(h, l), PauseLease(l)  PROVE Quiet
    <2>1. state[l] \in Active /\ "paused" \in Active  BY <1>11 DEF MayCall, Active, Live
    <2> QED  BY <1>1, <1>11, <2>1 DEF PauseLease
  <1>12. ASSUME NEW h \in Hosts, PauseAndExit(h)  PROVE Quiet
    <2>1. file[h] \in Leases  BY <1>12, WorkingHost DEF PauseAndExit
    <2> QED  BY <1>0, <1>11, <1>12, <2>1 DEF PauseAndExit
  <1>13. ASSUME NEW h \in Hosts, PauseForQuota(h)  PROVE Quiet
    <2>1. file[h] \in Leases  BY <1>13, WorkingHost DEF PauseForQuota
    <2> QED  BY <1>0, <1>11, <1>13, <2>1 DEF PauseForQuota
  <1>14. ASSUME NEW h \in Hosts, CompleteLease(h)  PROVE Quiet
    <2>1. file[h] \in Leases  BY <1>14, WorkingHost DEF CompleteLease
    <2>2. CASE MayCall(h, file[h])
      BY <1>1, <1>14, <2>1, <2>2 DEF CompleteLease, MayCall
    <2>3. CASE ~MayCall(h, file[h])  BY <1>0, <1>14, <2>3 DEF CompleteLease
    <2> QED  BY <2>2, <2>3
  <1>15. ASSUME NEW c \in calls, FinishCall(c)  PROVE Goal
    BY <1>0, <1>15 DEF FinishCall
  <1>16. CASE SelectExpired \/ RestartApi
    BY <1>0, <1>16 DEF SelectExpired, RestartApi
  <1>17. CASE PauseExpired
    <2>1. \A l \in Leases : state'[l] = IF l \in listed /\ Expired(l) THEN "paused" ELSE state[l]
      BY <1>17 DEF PauseExpired
    <2>2. \A l \in Leases : Moved(l) /\ ~Ends(l) /\ (state[l] = "absent" => state'[l] = "absent")
      BY <2>1 DEF Moved, Ends, Expired, Active, Live
    <2> QED  BY <1>17, <2>2 DEF PauseExpired, Quiet
  <1>18. ASSUME NEW l \in Leases, Expire(l) \/ CancelRun(l)  PROVE Quiet
    BY <1>18 DEF Expire, CancelRun, Quiet, Ends, Moved
  <1>19. ASSUME NEW l \in Leases, AbandonLease(l)  PROVE Quiet
    <2>1. state[l] \in Active  BY <1>19 DEF AbandonLease, Active
    <2> QED  BY <1>1, <1>19, <2>1 DEF AbandonLease
  <1>20. ASSUME NEW w \in Workspaces, StartBuilder(w)  PROVE Quiet
    <2>1. \A m \in Leases : state'[m] = IF m = <<w, 1>> THEN "queued" ELSE state[m]
      BY <1>20, FirstStages DEF StartBuilder, TypeOK
    <2> QED  BY <1>20, <2>1, FirstStages DEF StartBuilder, Quiet, Ends, Moved
  <1>21. ASSUME NEW h \in Hosts, NEW to \in {"ready", "draining", "retired"}, DecideHost(h, to) \/ SetHost(h, to)
         PROVE Quiet
    BY <1>0, <1>21 DEF DecideHost, SetHost
  <1>22. CASE UNCHANGED vars
    BY <1>0, <1>22 DEF vars
  <1> QED  BY <1>2, <1>3, <1>6, <1>7, <1>8, <1>9, <1>10, <1>12, <1>13, <1>14, <1>15, <1>16, <1>17, <1>18,
              <1>19, <1>20, <1>21, <1>22, NextSteps

\* What queueing the next stage does, when it does anything.
LEMMA Queued ==
    ASSUME TypeOK, NEW l \in Leases, ContinueChain(l)
    PROVE  /\ owner' = owner
           /\ \A m \in Leases : Moved(m)
           /\ \A m \in Leases : state'[m] # state[m] =>
                /\ state[m] = "absent"
                /\ m # First(m)
                /\ First(m) = First(l)
                /\ pin'[m] = StickyHost(l)
           /\ \A m \in Leases : state'[m] = state[m] => pin'[m] = pin[m] /\ run'[m] = run[m]
  <1>1. CASE run[l] = "completed" /\ l[2] < LastStage /\ state[Following(l)] = "absent"
    <2>1. /\ Following(l) \in Leases
          /\ Following(l) # First(Following(l))
          /\ First(Following(l)) = First(l)
      BY <1>1, LeasePairs
    <2>2. \A m \in Leases : /\ state'[m] = IF m = Following(l) THEN "queued" ELSE state[m]
                            /\ pin'[m] = IF m = Following(l) THEN StickyHost(l) ELSE pin[m]
                            /\ run'[m] = IF m = Following(l) THEN "queued" ELSE run[m]
      BY <1>1 DEF ContinueChain, TypeOK
    <2> QED  BY <1>1, <2>1, <2>2 DEF ContinueChain, Moved
  <1>2. CASE ~(run[l] = "completed" /\ l[2] < LastStage /\ state[Following(l)] = "absent")
    BY <1>2 DEF ContinueChain, Moved
  <1> QED  BY <1>1, <1>2

\* One slot per host survives every step: only a host without an active lease
\* claims one.
LEMMA SlotStep ==
    ASSUME TypeOK, FilesAreOwned, OneLeasePerHost, [Next]_vars
    PROVE  OneLeasePerHost'
  <1>1. ASSUME NEW h \in Hosts, NEW l \in Leases, Claims(h, l)  PROVE OneLeasePerHost'
    <2>1. \A m \in Leases : /\ state'[m] = IF m = l THEN "claimed" ELSE state[m]
                            /\ owner'[m] = IF m = l THEN h ELSE owner[m]
      BY <1>1 DEF Claims, TypeOK
    <2>2. \A m \in Leases : owner[m] = h => state[m] \notin Active
      BY <1>1 DEF Claims, HasFreeSlot
    <2> QED  BY <2>1, <2>2 DEF OneLeasePerHost
  <1>2. ASSUME owner' = owner, \A l \in Leases : Moved(l)  PROVE OneLeasePerHost'
    <2>1. \A l \in Leases : state'[l] \in Active => state[l] \in Active
      BY <1>2 DEF Moved, Active, Live
    <2> QED  BY <1>2, <2>1 DEF OneLeasePerHost
  <1>3. ASSUME NEW c \in calls, ContinueChain(c.lease)  PROVE OneLeasePerHost'
    BY <1>2, <1>3, Queued, CallParts
  <1> QED  BY <1>1, <1>2, <1>3, Moves DEF Quiet

\* Pins are inherited: a chain goes on from a lease that has its owner.
LEMMA PinStep ==
    ASSUME IInv, [Next]_vars
    PROVE  PinsAreInherited'
  <1> USE DEF IInv
  <1>1. ASSUME NEW h \in Hosts, NEW l \in Leases, Claims(h, l)  PROVE PinsAreInherited'
    <2>1. \A m \in Leases : /\ state'[m] = IF m = l THEN "claimed" ELSE state[m]
                            /\ owner'[m] = IF m = l THEN h ELSE owner[m]
                            /\ pin'[m] = pin[m]
      BY <1>1 DEF Claims, TypeOK
    <2>2. state[l] = "queued" /\ owner[l] = Nil /\ pin[l] \in {Nil, h}
      BY <1>1 DEF Claims, FilesAreOwned, Owned
    <2>3. \A m \in Leases : First(m) \in Leases  BY LeasePairs
    <2> QED  BY <2>1, <2>2, <2>3 DEF PinsAreInherited
  <1>2. CASE Quiet
    <2>1. \A m \in Leases : m # First(m) /\ state'[m] # "absent" => state[m] # "absent"
      BY <1>2 DEF Quiet, Moved
    <2> QED  BY <1>2, <2>1 DEF Quiet, PinsAreInherited
  <1>3. ASSUME NEW c \in calls, ContinueChain(c.lease)  PROVE PinsAreInherited'
    <2>1. PICK l \in Leases : l = c.lease /\ owner[l] # Nil  BY CallParts DEF ResultsComeFirst
    <2>2. StickyHost(l) = owner[l]  BY <2>1 DEF StickyHost
    <2>3. owner[First(l)] = owner[l]
      <3>1. CASE l = First(l)  BY <3>1
      <3>2. CASE l # First(l)
        <4>1. state[l] # "absent"  BY <2>1 DEF FilesAreOwned, Owned
        <4>2. owner[First(l)] # Nil /\ pin[l] = owner[First(l)]  BY <2>1, <3>2, <4>1 DEF PinsAreInherited
        <4> QED  BY <2>1, <4>2 DEF PinsAreInherited
      <3> QED  BY <3>1, <3>2
    <2>4. \A m \in Leases : state[m] = "absent" => owner[m] = Nil  BY DEF FilesAreOwned, Owned
    <2>5. ContinueChain(l)  BY <1>3, <2>1
    <2>6. /\ owner' = owner
          /\ \A m \in Leases : state'[m] # state[m] =>
               state[m] = "absent" /\ First(m) = First(l) /\ pin'[m] = StickyHost(l)
          /\ \A m \in Leases : state'[m] = state[m] => pin'[m] = pin[m]
      BY <2>1, <2>5, Queued
    <2>7. ASSUME NEW m \in Leases
          PROVE  /\ owner'[m] # Nil /\ pin'[m] # Nil => owner'[m] = pin'[m]
                 /\ m # First(m) /\ state'[m] # "absent" =>
                      owner'[First(m)] # Nil /\ pin'[m] = owner'[First(m)]
      <3>1. CASE state'[m] = state[m]  BY <2>6, <3>1 DEF PinsAreInherited
      <3>2. CASE state'[m] # state[m]  BY <2>1, <2>2, <2>3, <2>4, <2>6, <3>2
      <3> QED  BY <3>1, <3>2
    <2> QED  BY <2>7 DEF PinsAreInherited
  <1> QED  BY <1>1, <1>2, <1>3, Moves

\* Only set_agent_host_lifecycle_state writes a host's lifecycle.
LEMMA HostMoves ==
    ASSUME [Next]_vars
    PROVE  host' = host \/ \E h \in Hosts, to \in {"ready", "draining", "retired"} : SetHost(h, to)
  BY NextSteps DEF Start, Claim, Context, ReportPreparation, MarkRunning, ReportOutcome, CompleteLease,
     RemoveFile, PauseAndExit, Heartbeat, PauseForQuota, ClaimLost, CallFails, CrashHost, FinishCall,
     SelectExpired, PauseExpired, RestartApi, Expire, CancelRun, AbandonLease, StartBuilder, DecideHost, vars

\* Retirement looks at the leases in the update itself, and a claim at the host.
LEMMA RetiredStep ==
    ASSUME IInv, [Next]_vars
    PROVE  RetiredOwnsNothing'
  <1> USE DEF IInv
  <1>1. ASSUME NEW h \in Hosts, NEW l \in Leases, Claims(h, l), host' = host  PROVE RetiredOwnsNothing'
    <2>1. \A m \in Leases : /\ state'[m] = IF m = l THEN "claimed" ELSE state[m]
                            /\ owner'[m] = IF m = l THEN h ELSE owner[m]
      BY <1>1 DEF Claims, TypeOK
    <2>2. host[h] = "ready"  BY <1>1 DEF Claims
    <2> QED  BY <1>1, <2>1, <2>2 DEF RetiredOwnsNothing, HasFreeSlot
  <1>2. ASSUME owner' = owner, \A l \in Leases : Moved(l), host' = host  PROVE RetiredOwnsNothing'
    <2>1. \A l \in Leases : state'[l] \in Active => state[l] \in Active
      BY <1>2 DEF Moved, Active, Live
    <2> QED  BY <1>2, <2>1 DEF RetiredOwnsNothing, HasFreeSlot
  <1>3. ASSUME NEW h \in Hosts, NEW to \in {"ready", "draining", "retired"}, SetHost(h, to)
        PROVE  RetiredOwnsNothing'
    <2>1. UNCHANGED <<owner, state>>  BY <1>3 DEF SetHost, leases
    <2>2. \A k \in Hosts : host'[k] = "retired" => host[k] = "retired" \/ HasFreeSlot(k)
      BY <1>3 DEF SetHost, MayRetire, TypeOK
    <2> QED  BY <2>1, <2>2 DEF RetiredOwnsNothing, HasFreeSlot
  <1>4. host' = host \/ \E h \in Hosts, to \in {"ready", "draining", "retired"} : SetHost(h, to)
    BY HostMoves
  <1>5. ASSUME NEW c \in calls, ContinueChain(c.lease), host' = host  PROVE RetiredOwnsNothing'
    BY <1>2, <1>5, Queued, CallParts
  <1> QED  BY <1>1, <1>2, <1>3, <1>4, <1>5, Moves DEF Quiet

\* An owner stays, and a lease has one from its claim on.
LEMMA OwnersStay ==
    ASSUME TypeOK, FilesAreOwned, [Next]_vars
    PROVE  /\ \A l \in Leases : owner[l] # Nil => owner'[l] = owner[l]
           /\ \A l \in Leases : (Owned(l))' <=> owner'[l] # Nil
  <1>1. ASSUME NEW h \in Hosts, NEW l \in Leases, Claims(h, l)
        PROVE  /\ \A m \in Leases : owner[m] # Nil => owner'[m] = owner[m]
               /\ \A m \in Leases : (Owned(m))' <=> owner'[m] # Nil
    <2>1. \A m \in Leases : /\ state'[m] = IF m = l THEN "claimed" ELSE state[m]
                            /\ owner'[m] = IF m = l THEN h ELSE owner[m]
      BY <1>1 DEF Claims, TypeOK
    <2>2. state[l] = "queued" /\ owner[l] = Nil /\ h # Nil
      BY <1>1, LeaseAssumption DEF Claims, FilesAreOwned, Owned
    <2> QED  BY <2>1, <2>2 DEF Owned, FilesAreOwned
  <1>2. ASSUME owner' = owner, \A l \in Leases : Moved(l)
        PROVE  /\ \A m \in Leases : owner[m] # Nil => owner'[m] = owner[m]
               /\ \A m \in Leases : (Owned(m))' <=> owner'[m] # Nil
    BY <1>2 DEF Moved, Owned, FilesAreOwned, Active, Live
  <1>3. ASSUME NEW c \in calls, ContinueChain(c.lease)
        PROVE  owner' = owner /\ \A l \in Leases : Moved(l)
    BY <1>3, Queued, CallParts
  <1> QED  BY <1>1, <1>2, <1>3, Moves DEF Quiet

\* What a step may do to a host's process and file.
HostMoved(h) ==
    \/ file'[h] = file[h] /\ pc'[h] \in {pc[h], "start"}
    \/ file'[h] = file[h] /\ pc'[h] # "polling" /\ file[h] # Nil
    \/ file'[h] = file[h] /\ pc'[h] = "polling" /\ file[h] = Nil
    \/ file'[h] = Nil /\ pc'[h] = "polling"
    \/ file'[h] \in Leases /\ owner'[file'[h]] = h /\ pc'[h] = "checkout"

LEMMA HostsMove ==
    ASSUME TypeOK, FilesAreOwned, [Next]_vars
    PROVE  \A h \in Hosts : HostMoved(h)
  <1> USE DEF process
  <1>0. ASSUME UNCHANGED <<pc, file>>  PROVE \A k \in Hosts : HostMoved(k)
    BY <1>0 DEF HostMoved
  <1>1. ASSUME NEW h \in Hosts, NEW step, Goto(h, step), file' = file, step # "polling", step = "start" \/ file[h] # Nil
        PROVE  \A k \in Hosts : HostMoved(k)
    <2>1. \A k \in Hosts : pc'[k] = IF k = h THEN step ELSE pc[k]  BY <1>1 DEF Goto, TypeOK
    <2> QED  BY <1>1, <2>1 DEF HostMoved
  <1>2. ASSUME NEW h \in Hosts, Exit(h) \/ (Fail(h) /\ file[h] # Nil)
        PROVE  \A k \in Hosts : HostMoved(k)
    BY <1>1, <1>2 DEF Exit, Fail
  <1>3. ASSUME NEW h \in Hosts, Start(h)  PROVE \A k \in Hosts : HostMoved(k)
    <2>1. \A k \in Hosts : pc'[k] = IF k = h THEN IF file[h] = Nil THEN "polling" ELSE "checkout" ELSE pc[k]
      BY <1>3 DEF Start, Goto, TypeOK
    <2> QED  BY <1>3, <2>1 DEF Start, HostMoved
  <1>4. ASSUME NEW h \in Hosts, Claim(h)  PROVE \A k \in Hosts : HostMoved(k)
    <2>1. PICK l \in Leases : Claims(h, l) /\ file' = [file EXCEPT ![h] = l]  BY <1>4 DEF Claim
    <2>2. owner'[l] = h  BY <2>1 DEF Claims, TypeOK
    <2>3. \A k \in Hosts : /\ pc'[k] = IF k = h THEN "checkout" ELSE pc[k]
                           /\ file'[k] = IF k = h THEN l ELSE file[k]
      BY <1>4, <2>1 DEF Claim, Goto, TypeOK
    <2> QED  BY <2>2, <2>3 DEF HostMoved
  <1>5. ASSUME NEW h \in Hosts, Context(h) \/ ReportPreparation(h) \/ MarkRunning(h) \/ ReportOutcome(h)
                 \/ CompleteLease(h) \/ PauseForQuota(h) \/ CallFails(h)
        PROVE  \A k \in Hosts : HostMoved(k)
    <2>1. file[h] # Nil
      BY <1>5 DEF Context, ReportPreparation, MarkRunning, ReportOutcome, CompleteLease, PauseForQuota, CallFails,
                  FilesAreOwned
    <2>2. Fail(h) \/ (file' = file /\ \E step : Goto(h, step) /\ step # "polling")
      BY <1>5 DEF Context, ReportPreparation, MarkRunning, ReportOutcome, CompleteLease, PauseForQuota, CallFails
    <2> QED  BY <1>1, <1>2, <2>1, <2>2
  <1>6. ASSUME NEW h \in Hosts, RemoveFile(h)  PROVE \A k \in Hosts : HostMoved(k)
    <2>1. \A k \in Hosts : /\ pc'[k] = IF k = h THEN "polling" ELSE pc[k]
                           /\ file'[k] = IF k = h THEN Nil ELSE file[k]
      BY <1>6 DEF RemoveFile, Goto, TypeOK
    <2> QED  BY <2>1 DEF HostMoved
  <1>7. ASSUME NEW h \in Hosts, PauseAndExit(h) \/ ClaimLost(h) \/ CrashHost(h)
        PROVE  \A k \in Hosts : HostMoved(k)
    BY <1>2, <1>7 DEF PauseAndExit, ClaimLost, CrashHost
  <1>8. ASSUME NEW c \in calls, FinishCall(c)  PROVE \A k \in Hosts : HostMoved(k)
    <2>1. c.lease \in Leases /\ c.op \in {"mark", "pause", "fail", "prepared", "continue"}  BY CallParts
    <2>2. Answered(c.op) # "polling"  BY <2>1 DEF Answered
    <2>3. c.lease # Nil  BY <2>1, LeaseAssumption DEF Leases
    <2>4. \A k \in Hosts : pc'[k] = IF file[k] = c.lease /\ pc[k] = Waiting(c.op) THEN Answered(c.op) ELSE pc[k]
      BY <1>8 DEF FinishCall
    <2>5. file' = file  BY <1>8 DEF FinishCall
    <2> QED  BY <2>2, <2>3, <2>4, <2>5 DEF HostMoved
  <1>9. CASE RestartApi
    <2>1. \A k \in Hosts : \/ pc'[k] \in {pc[k], "start"}
                           \/ pc[k] \in {"marking", "preparing", "reporting", "pausing"} /\ pc'[k] = "failing"
      BY <1>9 DEF RestartApi
    <2>2. \A k \in Hosts : pc[k] \in {"marking", "preparing", "reporting", "pausing"} => file[k] # Nil
      BY DEF FilesAreOwned
    <2>3. file' = file  BY <1>9 DEF RestartApi
    <2> QED  BY <2>1, <2>2, <2>3 DEF HostMoved
  <1>10. ASSUME \/ SelectExpired \/ PauseExpired \/ UNCHANGED vars
                \/ \E h \in Hosts : Heartbeat(h)
                \/ \E l \in Leases : Expire(l) \/ CancelRun(l) \/ AbandonLease(l)
                \/ \E w \in Workspaces : StartBuilder(w)
                \/ \E h \in Hosts, to \in {"ready", "draining", "retired"} : DecideHost(h, to) \/ SetHost(h, to)
         PROVE  UNCHANGED <<pc, file>>
    BY <1>10 DEF SelectExpired, PauseExpired, vars, Heartbeat, Expire, CancelRun, AbandonLease, StartBuilder,
                 DecideHost, SetHost
  <1> QED  BY <1>0, <1>3, <1>4, <1>5, <1>6, <1>7, <1>8, <1>9, <1>10, NextSteps

\* A host keeps the file of a lease it owns.
LEMMA FilesStep ==
    ASSUME TypeOK, FilesAreOwned, [Next]_vars
    PROVE  FilesAreOwned'
  <1>1. ASSUME NEW h \in Hosts
        PROVE  /\ file'[h] # Nil => owner'[file'[h]] = h
               /\ pc'[h] = "polling" => file'[h] = Nil
               /\ pc'[h] \notin {"start", "polling"} => file'[h] # Nil
    <2>1. HostMoved(h)  BY HostsMove
    <2>2. file[h] # Nil => file[h] \in Leases /\ owner[file[h]] = h /\ owner'[file[h]] = h
      <3>1. h # Nil  BY LeaseAssumption
      <3> QED  BY <3>1, OwnersStay DEF TypeOK, FilesAreOwned
    <2>3. \A l \in Leases : l # Nil  BY LeaseAssumption DEF Leases
    <2>4. /\ pc[h] = "polling" => file[h] = Nil
          /\ pc[h] \notin {"start", "polling"} => file[h] # Nil
      BY DEF FilesAreOwned
    <2> QED  BY <2>1, <2>2, <2>3, <2>4 DEF HostMoved
  <1> QED  BY <1>1, OwnersStay DEF FilesAreOwned

-----------------------------------------------------------------------------
\* A step creates a Run with its lease, or leaves one that exists in existence and
\* one that has a result with a result.
RunMoved(l) ==
    \/ run'[l] = run[l] /\ (state'[l] = "absent" <=> state[l] = "absent")
    \/ state[l] = "absent" /\ state'[l] = "queued" /\ run'[l] \in {"queued", "preparing"}
    \/ /\ state[l] # "absent" /\ state'[l] # "absent" /\ run'[l] # "absent"
       /\ run[l] \in Terminal => run'[l] \in Terminal

\* Existing leases go on existing.
LEMMA StatesStay ==
    ASSUME TypeOK, FilesAreOwned, [Next]_vars
    PROVE  \A l \in Leases : state[l] # "absent" => state'[l] # "absent"
  <1>1. ASSUME NEW h \in Hosts, NEW l \in Leases, Claims(h, l)
        PROVE  \A m \in Leases : state[m] # "absent" => state'[m] # "absent"
    BY <1>1 DEF Claims, TypeOK
  <1>2. ASSUME \A l \in Leases : Moved(l)
        PROVE  \A m \in Leases : state[m] # "absent" => state'[m] # "absent"
    BY <1>2 DEF Moved, Active, Live
  <1> QED  BY <1>1, <1>2, Moves, Queued, CallParts DEF Quiet

\* Only queueing brings a lease into being.
LEMMA RunsMove ==
    ASSUME IInv, [Next]_vars
    PROVE  \A l \in Leases : RunMoved(l)
  <1> USE DEF IInv
  <1>0. ASSUME UNCHANGED run, \A l \in Leases : state'[l] = "absent" <=> state[l] = "absent"
        PROVE  \A l \in Leases : RunMoved(l)
    BY <1>0 DEF RunMoved
  <1>1. ASSUME NEW w \in Workspaces, StartBuilder(w)  PROVE \A l \in Leases : RunMoved(l)
    <2>1. \A l \in Leases : /\ state'[l] = IF l = <<w, 1>> THEN "queued" ELSE state[l]
                            /\ l # <<w, 1>> => run'[l] = run[l]
      BY <1>1 DEF StartBuilder, TypeOK
    <2>2. state[<<w, 1>>] = "absent" /\ run'[<<w, 1>>] \in {"queued", "preparing"}
      BY <1>1, FirstStages DEF StartBuilder, TypeOK
    <2> QED  BY <2>1, <2>2 DEF RunMoved
  <1>2. ASSUME NEW c \in calls, FinishCall(c)  PROVE \A l \in Leases : RunMoved(l)
    <2>1. c.lease \in Leases /\ owner[c.lease] # Nil  BY CallParts DEF ResultsComeFirst
    <2>2. state[c.lease] # "absent" /\ run[c.lease] # "absent"
      BY <2>1 DEF FilesAreOwned, Owned, ResultsComeFirst
    <2>3. CASE c.op = "continue"
      <3>1. ContinueChain(c.lease)  BY <1>2, <2>3 DEF FinishCall
      <3>2. CASE run[c.lease] = "completed" /\ c.lease[2] < LastStage /\ state[Following(c.lease)] = "absent"
        <4>1. Following(c.lease) \in Leases  BY <2>1, <3>2, LeasePairs
        <4>2. \A m \in Leases : /\ state'[m] = IF m = Following(c.lease) THEN "queued" ELSE state[m]
                                /\ run'[m] = IF m = Following(c.lease) THEN "queued" ELSE run[m]
          BY <3>1, <3>2 DEF ContinueChain, TypeOK
        <4> QED  BY <3>2, <4>1, <4>2 DEF RunMoved
      <3>3. CASE ~(run[c.lease] = "completed" /\ c.lease[2] < LastStage /\ state[Following(c.lease)] = "absent")
        BY <1>0, <3>1, <3>3 DEF ContinueChain
      <3> QED  BY <3>2, <3>3
    <2>4. CASE c.op # "continue"
      <3>1. \A m \in Leases : /\ state'[m] = state[m]
                              /\ run'[m] = IF m = c.lease THEN RunAfter(c.op, run[m]) ELSE run[m]
        BY <1>2, <2>1, <2>4 DEF FinishCall, leases, TypeOK
      <3>2. /\ RunAfter(c.op, run[c.lease]) # "absent"
            /\ run[c.lease] \in Terminal => RunAfter(c.op, run[c.lease]) \in Terminal
        BY <2>2 DEF RunAfter, Terminal
      <3> QED  BY <2>2, <3>1, <3>2 DEF RunMoved
    <2> QED  BY <2>3, <2>4
  <1>3. ASSUME NEW h \in Hosts, ReportOutcome(h)  PROVE \A l \in Leases : RunMoved(l)
    <2>1. file[h] \in Leases /\ owner[file[h]] = h  BY <1>3, WorkingHost DEF ReportOutcome
    <2>2. state[file[h]] # "absent"  BY <2>1, LeaseAssumption DEF FilesAreOwned, Owned
    <2>3. \A m \in Leases : state'[m] = "absent" <=> state[m] = "absent"
      BY <1>3, <2>1, <2>2 DEF ReportOutcome, Refresh, leases, TypeOK
    <2>4. \A m \in Leases : run'[m] = run[m] \/ (m = file[h] /\ run'[m] \in {"completed", "failed"})
      BY <1>3, <2>1 DEF ReportOutcome, TypeOK
    <2> QED  BY <2>2, <2>3, <2>4 DEF RunMoved, Terminal
  <1>4. ASSUME NEW l \in Leases, CancelRun(l)  PROVE \A m \in Leases : RunMoved(m)
    <2>1. run[l] # "absent" /\ state[l] # "absent"  BY <1>4 DEF CancelRun, ResultsComeFirst
    <2>2. \A m \in Leases : /\ state'[m] = state[m]
                            /\ run'[m] = IF m = l THEN "cancelled" ELSE run[m]
      BY <1>4 DEF CancelRun, leases, TypeOK
    <2> QED  BY <2>1, <2>2 DEF RunMoved, Terminal
  <1>5. ASSUME \/ \E h \in Hosts : \/ Start(h) \/ Claim(h) \/ Context(h) \/ ReportPreparation(h)
                               \/ MarkRunning(h) \/ CompleteLease(h) \/ RemoveFile(h) \/ PauseAndExit(h)
                               \/ Heartbeat(h) \/ PauseForQuota(h) \/ ClaimLost(h) \/ CallFails(h) \/ CrashHost(h)
               \/ SelectExpired \/ PauseExpired \/ RestartApi
               \/ \E l \in Leases : Expire(l) \/ AbandonLease(l)
               \/ \E h \in Hosts, to \in {"ready", "draining", "retired"} : DecideHost(h, to) \/ SetHost(h, to)
               \/ UNCHANGED vars
        PROVE  \A l \in Leases : RunMoved(l)
    <2>1. UNCHANGED run
      BY <1>5 DEF Start, Claim, Context, ReportPreparation, MarkRunning, CompleteLease, RemoveFile, PauseAndExit,
         Heartbeat, PauseForQuota, ClaimLost, CallFails, CrashHost, SelectExpired, PauseExpired, RestartApi,
         Expire, AbandonLease, DecideHost, SetHost, vars
    <2>2. \A l \in Leases : state'[l] # "absent" => state[l] # "absent"
      <3>1. ASSUME NEW l \in Leases, state'[l] = "queued", state[l] = "absent"  PROVE FALSE
        <4>1. ASSUME NEW h \in Hosts, NEW m \in Leases, Refresh(m) \/ PauseLease(m) \/ Claims(h, m)  PROVE FALSE
          BY <3>1, <4>1 DEF Refresh, PauseLease, Claims, TypeOK
        <4>2. UNCHANGED state => FALSE  BY <3>1
        <4>3. ASSUME NEW m \in Leases, NEW new \in {"closed", "abandoned"}, state' = [state EXCEPT ![m] = new]
              PROVE  FALSE
          BY <3>1, <4>3 DEF TypeOK
        <4>4. ~PauseExpired  BY <3>1 DEF PauseExpired
        <4>5. ASSUME NEW h \in Hosts, \/ Context(h) \/ ReportPreparation(h) \/ MarkRunning(h) \/ CompleteLease(h)
                                      \/ PauseAndExit(h) \/ Heartbeat(h) \/ PauseForQuota(h)
              PROVE  FALSE
          <5>1. file[h] \in Leases
            BY <4>5, WorkingHost DEF Context, ReportPreparation, MarkRunning, CompleteLease, PauseAndExit, Heartbeat,
                                     PauseForQuota
          <5> QED  BY <4>1, <4>2, <4>3, <4>5, <5>1 DEF Context, ReportPreparation, MarkRunning, CompleteLease,
                      PauseAndExit, Heartbeat, PauseForQuota, leases
        <4>6. ASSUME NEW h \in Hosts, Claim(h) \/ ClaimLost(h)  PROVE FALSE
          BY <4>1, <4>6 DEF Claim, ClaimLost
        <4> QED  BY <1>5, <4>2, <4>3, <4>4, <4>5, <4>6 DEF Start, RemoveFile, CallFails, CrashHost, SelectExpired,
                    RestartApi, Expire, AbandonLease, DecideHost, SetHost, vars, leases
      <3>2. \A l \in Leases : state[l] = "absent" => state'[l] \in {"absent", "queued"}
        <4>1. ASSUME NEW h \in Hosts, NEW m \in Leases, Claims(h, m)
              PROVE  \A l \in Leases : state[l] = "absent" => state'[l] \in {"absent", "queued"}
          BY <4>1 DEF Claims, TypeOK
        <4>2. ASSUME \A l \in Leases : Moved(l)
              PROVE  \A l \in Leases : state[l] = "absent" => state'[l] \in {"absent", "queued"}
          BY <4>2 DEF Moved, Active, Live
        <4> QED  BY <4>1, <4>2, Moves, Queued, CallParts DEF Quiet
      <3> QED  BY <3>1, <3>2
    <2> QED  BY <1>0, <2>1, <2>2, StatesStay
  <1> QED  BY <1>1, <1>2, <1>3, <1>4, <1>5, NextSteps

\* A handler that still has to write its Run is about a claimed lease, and what it
\* continues is a Run with a result.
LEMMA CallsMove ==
    ASSUME IInv, [Next]_vars
    PROVE  \A c \in calls' : \/ c \in calls
                             \/ /\ c.lease \in Leases /\ owner[c.lease] # Nil
                                /\ c.op = "continue" => run'[c.lease] \in Terminal
  <1> USE DEF IInv
  <1> DEFINE New(c) == /\ c.lease \in Leases /\ owner[c.lease] # Nil
                       /\ c.op = "continue" => run'[c.lease] \in Terminal
  <1>1. ASSUME NEW h \in Hosts, pc[h] \notin {"start", "polling"}
        PROVE  file[h] \in Leases /\ owner[file[h]] # Nil
    <2>1. h # Nil  BY LeaseAssumption
    <2> QED  BY <1>1, <2>1, WorkingHost
  <1>2. ASSUME NEW l \in Leases, owner[l] # Nil, NEW op \in {"mark", "pause", "fail", "prepared"},
               calls' = calls \cup {Call(op, l)}
        PROVE  \A c \in calls' : c \in calls \/ New(c)
    BY <1>2, CallIsOne
  <1>3. ASSUME NEW h \in Hosts, ReportPreparation(h)  PROVE \A c \in calls' : c \in calls \/ New(c)
    <2>1. pc[h] \notin {"start", "polling"}  BY <1>3 DEF ReportPreparation
    <2>2. calls' = calls \/ \E op \in {"prepared", "fail"} : calls' = calls \cup {Call(op, file[h])}
      BY <1>3 DEF ReportPreparation
    <2> QED  BY <1>1, <1>2, <2>1, <2>2
  <1>4. ASSUME NEW h \in Hosts, MarkRunning(h)  PROVE \A c \in calls' : c \in calls \/ New(c)
    <2>1. pc[h] \notin {"start", "polling"}  BY <1>4 DEF MarkRunning
    <2>2. calls' = calls \/ calls' = calls \cup {Call("mark", file[h])}  BY <1>4 DEF MarkRunning
    <2> QED  BY <1>1, <1>2, <2>1, <2>2
  <1>5. ASSUME NEW h \in Hosts, PauseAndExit(h) \/ PauseForQuota(h)  PROVE \A c \in calls' : c \in calls \/ New(c)
    <2>1. pc[h] \notin {"start", "polling"}  BY <1>5 DEF PauseAndExit, PauseForQuota
    <2>2. calls' = calls \/ calls' = calls \cup {Call("pause", file[h])}
      BY <1>5 DEF PauseAndExit, PauseForQuota, PauseLease
    <2> QED  BY <1>1, <1>2, <2>1, <2>2
  <1>6. ASSUME NEW h \in Hosts, ReportOutcome(h)  PROVE \A c \in calls' : c \in calls \/ New(c)
    <2>1. pc[h] \notin {"start", "polling"}  BY <1>6 DEF ReportOutcome
    <2>2. file[h] \in Leases /\ owner[file[h]] # Nil  BY <1>1, <2>1
    <2>3. calls' = calls \/ (calls' = calls \cup {Call("continue", file[h])} /\ run'[file[h]] \in Terminal)
      BY <1>6, <2>2 DEF ReportOutcome, Terminal, TypeOK
    <2> QED  BY <2>2, <2>3, CallIsOne
  <1>7. CASE PauseExpired
    <2>1. calls' = calls \cup {Call("pause", l) : l \in listed}  BY <1>7 DEF PauseExpired, RunsToPause
    <2>2. \A l \in listed : l \in Leases /\ owner[l] # Nil  BY DEF TypeOK, ResultsComeFirst
    <2> QED  BY <2>1, <2>2, CallIsOne
  <1>8. ASSUME \/ \E h \in Hosts : \/ Start(h) \/ Claim(h) \/ Context(h) \/ CompleteLease(h) \/ RemoveFile(h)
                                   \/ Heartbeat(h) \/ ClaimLost(h) \/ CallFails(h) \/ CrashHost(h)
               \/ \E c \in calls : FinishCall(c)
               \/ SelectExpired \/ RestartApi
               \/ \E l \in Leases : Expire(l) \/ CancelRun(l) \/ AbandonLease(l)
               \/ \E w \in Workspaces : StartBuilder(w)
               \/ \E h \in Hosts, to \in {"ready", "draining", "retired"} : DecideHost(h, to) \/ SetHost(h, to)
               \/ UNCHANGED vars
        PROVE  calls' \subseteq calls
    BY <1>8 DEF Start, Claim, Context, CompleteLease, RemoveFile, Heartbeat, ClaimLost, CallFails, CrashHost,
       FinishCall, SelectExpired, RestartApi, Expire, CancelRun, AbandonLease, StartBuilder, DecideHost, SetHost, vars
  <1> QED  BY <1>3, <1>4, <1>5, <1>6, <1>7, <1>8, NextSteps

\* The monitor selects claimed leases.
LEMMA ListedMove ==
    ASSUME IInv, [Next]_vars
    PROVE  \A l \in listed' : owner[l] # Nil
  <1> USE DEF IInv
  <1>1. CASE SelectExpired
    <2>1. \A l \in listed' : l \in Leases /\ Expired(l)  BY <1>1 DEF SelectExpired
    <2> QED  BY <2>1 DEF Expired, Live, FilesAreOwned, Owned
  <1>2. ASSUME ~SelectExpired  PROVE listed' \subseteq listed
    BY <1>2, NextSteps DEF Start, Claim, Context, ReportPreparation, MarkRunning, ReportOutcome, CompleteLease,
       RemoveFile, PauseAndExit, Heartbeat, PauseForQuota, ClaimLost, CallFails, CrashHost, FinishCall,
       PauseExpired, RestartApi, Expire, CancelRun, AbandonLease, StartBuilder, DecideHost, SetHost, vars
  <1> QED  BY <1>1, <1>2 DEF ResultsComeFirst

\* A lease is closed by a host whose Run has its result, and a host comes to the
\* completion of its lease, or waits for the continuation, with the result written.
LEMMA ResultsMove ==
    ASSUME IInv, [Next]_vars
    PROVE  /\ \A l \in Leases : state'[l] = "closed" => state[l] = "closed" \/ run[l] \in Terminal
           /\ \A h \in Hosts : pc'[h] \in {"complete", "reporting"} =>
                \/ pc[h] \in {"complete", "reporting"} /\ file'[h] = file[h]
                \/ run'[file'[h]] \in Terminal
  <1> USE DEF IInv, leases, process
  <1> DEFINE C == \A l \in Leases : state'[l] = "closed" => state[l] = "closed" \/ run[l] \in Terminal
             D == \A h \in Hosts : pc'[h] \in {"complete", "reporting"} =>
                    \/ pc[h] \in {"complete", "reporting"} /\ file'[h] = file[h]
                    \/ run'[file'[h]] \in Terminal
  <1>1. ASSUME NEW h \in Hosts, NEW step, Goto(h, step), step \notin {"complete", "reporting"},
               \A k \in Hosts : k # h => file'[k] = file[k]
        PROVE  D
    BY <1>1 DEF Goto, TypeOK
  <1>2. ASSUME UNCHANGED <<pc, file>>  PROVE D
    BY <1>2
  <1>3. ASSUME NEW h \in Hosts, Fail(h) \/ Exit(h)  PROVE D
    BY <1>1, <1>3 DEF Fail, Exit
  <1>4. ASSUME NEW h \in Hosts, Start(h) \/ RemoveFile(h) \/ CallFails(h) \/ CrashHost(h)  PROVE C /\ D
    <2>1. C  BY <1>4 DEF Start, RemoveFile, CallFails, CrashHost
    <2>2. D  BY <1>1, <1>3, <1>4 DEF Start, RemoveFile, CallFails, CrashHost, TypeOK
    <2> QED  BY <2>1, <2>2
  <1>5. ASSUME NEW h \in Hosts, NEW l \in Leases, Refresh(l) \/ Claims(h, l) \/ PauseLease(l)  PROVE C
    BY <1>5 DEF Refresh, Claims, PauseLease, TypeOK
  <1>6. ASSUME NEW h \in Hosts, Claim(h) \/ ClaimLost(h)  PROVE C /\ D
    <2>1. C  BY <1>5, <1>6 DEF Claim, ClaimLost
    <2>2. D  BY <1>1, <1>3, <1>6 DEF Claim, ClaimLost, TypeOK
    <2> QED  BY <2>1, <2>2
  <1>7. ASSUME NEW h \in Hosts, \/ Context(h) \/ ReportPreparation(h) \/ MarkRunning(h) \/ PauseForQuota(h)
                                 \/ PauseAndExit(h) \/ Heartbeat(h)
        PROVE  C /\ D
    <2>1. file[h] \in Leases
      BY <1>7, WorkingHost DEF Context, ReportPreparation, MarkRunning, PauseForQuota, PauseAndExit, Heartbeat
    <2>2. C
      BY <1>5, <1>7, <2>1 DEF Context, ReportPreparation, MarkRunning, PauseForQuota, PauseAndExit, Heartbeat
    <2>3. \/ Fail(h) \/ Exit(h) \/ UNCHANGED <<pc, file>>
          \/ file' = file /\ \E step : Goto(h, step) /\ step \notin {"complete", "reporting"}
      BY <1>7 DEF Context, ReportPreparation, MarkRunning, PauseForQuota, PauseAndExit, Heartbeat
    <2>4. D  BY <1>1, <1>2, <1>3, <2>3
    <2> QED  BY <2>2, <2>4
  <1>8. ASSUME NEW h \in Hosts, ReportOutcome(h)  PROVE C /\ D
    <2>1. file[h] \in Leases  BY <1>8, WorkingHost DEF ReportOutcome
    <2>2. C  BY <1>5, <1>8, <2>1 DEF ReportOutcome
    <2>3. CASE Fail(h)  BY <1>3, <2>2, <2>3
    <2>4. CASE ~Fail(h)
      <3>1. Goto(h, "reporting") /\ file' = file /\ run'[file[h]] \in Terminal
        BY <1>8, <2>1, <2>4 DEF ReportOutcome, Terminal, TypeOK
      <3>2. D  BY <3>1 DEF Goto, TypeOK
      <3> QED  BY <2>2, <3>2
    <2> QED  BY <2>3, <2>4
  <1>9. ASSUME NEW h \in Hosts, CompleteLease(h)  PROVE C /\ D
    <2>1. file[h] \in Leases /\ pc[h] = "complete"  BY <1>9, WorkingHost DEF CompleteLease
    <2>2. run[file[h]] \in Terminal  BY <2>1 DEF ResultsComeFirst
    <2>3. \A l \in Leases : state'[l] = "closed" => state[l] = "closed" \/ l = file[h]
      BY <1>9, <2>1 DEF CompleteLease, TypeOK
    <2>4. D  BY <1>1, <1>3, <1>9 DEF CompleteLease
    <2> QED  BY <2>2, <2>3, <2>4
  <1>10. ASSUME NEW c \in calls, FinishCall(c)  PROVE C /\ D
    <2>1. c.lease \in Leases /\ c.op \in {"mark", "pause", "fail", "prepared", "continue"}  BY CallParts
    <2>2. C
      <3>1. CASE c.op = "continue"
        <4>1. \A l \in Leases : Moved(l)  BY <1>10, <2>1, <3>1, Queued DEF FinishCall
        <4>2. \A l \in Leases : state'[l] # state[l] => state[l] = "absent"
          BY <1>10, <2>1, <3>1, Queued DEF FinishCall
        <4> QED  BY <4>1, <4>2 DEF Moved, Active, Live
      <3>2. CASE c.op # "continue"  BY <1>10, <3>2 DEF FinishCall
      <3> QED  BY <3>1, <3>2
    <2>3. D
      <3>1. file' = file  BY <1>10 DEF FinishCall
      <3>2. \A h \in Hosts : pc'[h] = IF file[h] = c.lease /\ pc[h] = Waiting(c.op) THEN Answered(c.op) ELSE pc[h]
        BY <1>10 DEF FinishCall
      <3>3. Answered(c.op) \in {"complete", "reporting"} => c.op \in {"fail", "continue"}
        BY <2>1 DEF Answered
      <3>4. c.op = "fail" => run'[c.lease] = "failed"
        BY <1>10, <2>1 DEF FinishCall, RunAfter, TypeOK
      <3>5. c.op = "continue" => run'[c.lease] \in Terminal
        <4>1. ASSUME c.op = "continue"  PROVE run'[c.lease] \in Terminal
          <5>1. run[c.lease] \in Terminal /\ owner[c.lease] # Nil  BY <4>1 DEF ResultsComeFirst
          <5>2. RunMoved(c.lease)  BY <2>1, RunsMove
          <5>3. state[c.lease] # "absent"  BY <2>1, <5>1 DEF FilesAreOwned, Owned
          <5> QED  BY <5>1, <5>2, <5>3 DEF RunMoved
        <4> QED  BY <4>1
      <3> QED  BY <3>1, <3>2, <3>3, <3>4, <3>5 DEF Terminal
    <2> QED  BY <2>2, <2>3
  <1>11. CASE RestartApi
    BY <1>11 DEF RestartApi
  <1>12. CASE PauseExpired
    BY <1>12 DEF PauseExpired
  <1>13. ASSUME \/ SelectExpired \/ UNCHANGED vars
                \/ \E l \in Leases : Expire(l) \/ CancelRun(l) \/ AbandonLease(l)
                \/ \E w \in Workspaces : StartBuilder(w)
                \/ \E h \in Hosts, to \in {"ready", "draining", "retired"} : DecideHost(h, to) \/ SetHost(h, to)
         PROVE  C /\ D
    <2>1. UNCHANGED <<pc, file>>
      BY <1>13 DEF SelectExpired, vars, Expire, CancelRun, AbandonLease, StartBuilder, DecideHost, SetHost
    <2>2. ASSUME NEW l \in Leases, NEW new \in {"queued", "abandoned"}, state' = [state EXCEPT ![l] = new]  PROVE C
      BY <2>2 DEF TypeOK
    <2>3. C
      BY <1>13, <2>2, FirstStages
         DEF SelectExpired, vars, Expire, CancelRun, AbandonLease, StartBuilder, DecideHost, SetHost
    <2> QED  BY <1>2, <2>1, <2>3
  <1> QED  BY <1>4, <1>6, <1>7, <1>8, <1>9, <1>10, <1>11, <1>12, <1>13, NextSteps

LEMMA ResultsStep ==
    ASSUME IInv, [Next]_vars
    PROVE  ResultsComeFirst'
  <1> USE DEF IInv
  <1>1. ASSUME NEW l \in Leases, run[l] \in Terminal  PROVE run'[l] \in Terminal
    <2>1. state[l] # "absent"  BY <1>1 DEF ResultsComeFirst, Terminal
    <2> QED  BY <1>1, <2>1, RunsMove DEF RunMoved
  <1>2. ASSUME NEW l \in Leases
        PROVE  /\ state'[l] = "absent" <=> run'[l] = "absent"
               /\ state'[l] = "closed" => run'[l] \in Terminal
    <2>1. RunMoved(l)  BY RunsMove
    <2>2. state'[l] = "absent" <=> run'[l] = "absent"
      BY <2>1 DEF RunMoved, ResultsComeFirst
    <2>3. state'[l] = "closed" => run[l] \in Terminal
      BY ResultsMove DEF ResultsComeFirst
    <2> QED  BY <1>1, <2>2, <2>3
  <1>3. ASSUME NEW c \in calls'
        PROVE  owner'[c.lease] # Nil /\ (c.op = "continue" => run'[c.lease] \in Terminal)
    <2>1. CASE c \in calls
      <3>1. c.lease \in Leases /\ owner[c.lease] # Nil /\ (c.op = "continue" => run[c.lease] \in Terminal)
        BY <2>1, CallParts DEF ResultsComeFirst
      <3> QED  BY <1>1, <3>1, OwnersStay
    <2>2. CASE c \notin calls  BY <2>2, CallsMove, OwnersStay
    <2> QED  BY <2>1, <2>2
  <1>4. \A l \in listed' : owner'[l] # Nil
    <2>1. listed' \subseteq Leases  BY TypeStep DEF TypeOK
    <2> QED  BY <2>1, ListedMove, OwnersStay
  <1>5. ASSUME NEW h \in Hosts, pc'[h] \in {"complete", "reporting"}  PROVE run'[file'[h]] \in Terminal
    <2>1. CASE pc[h] \in {"complete", "reporting"} /\ file'[h] = file[h]
      <3>1. file[h] \in Leases /\ run[file[h]] \in Terminal
        BY <2>1, WorkingHost DEF ResultsComeFirst
      <3> QED  BY <1>1, <2>1, <3>1
    <2> QED  BY <1>5, <2>1, ResultsMove
  <1> QED  BY <1>2, <1>3, <1>4, <1>5 DEF ResultsComeFirst

-----------------------------------------------------------------------------
\* Initially there is no lease and no host has a file.
LEMMA InitInv == Init => IInv
  BY LeaseAssumption DEF Init, IInv, TypeOK, Steps, FilesAreOwned, Owned, PinsAreInherited, OneLeasePerHost,
     ResultsComeFirst, RetiredOwnsNothing, HasFreeSlot, First, Active, Live

\* Invariance: the invariant of leases, Runs, lease files and processes holds for
\* any number of hosts, workspaces, stages and faults.
THEOREM Invariance == Spec => []IInv
  <1>1. IInv /\ [Next]_vars => IInv'
    <2> SUFFICES ASSUME IInv, [Next]_vars  PROVE IInv'
      OBVIOUS
    <2>1. TypeOK /\ FilesAreOwned /\ OneLeasePerHost  BY DEF IInv
    <2>2. TypeOK'  BY <2>1, TypeStep
    <2>3. FilesAreOwned'  BY <2>1, FilesStep
    <2>4. OneLeasePerHost'  BY <2>1, SlotStep
    <2>5. PinsAreInherited' /\ ResultsComeFirst' /\ RetiredOwnsNothing'  BY PinStep, ResultsStep, RetiredStep
    <2> QED  BY <2>2, <2>3, <2>4, <2>5 DEF IInv
  <1> QED  BY <1>1, InitInv, PTL DEF Spec

\* RetiredHostsAreFree: a retired host owns no active or resumable lease, whenever
\* its retirement was decided.
THEOREM RetiredHostsAreFree == Spec => []RetiredOwnsNothing
  <1>1. IInv => RetiredOwnsNothing  BY DEF IInv
  <1> QED  BY <1>1, Invariance, PTL

\* ResultsBeforeRelease: a host gives its slot back only when the Run has a result.
THEOREM ResultsBeforeRelease == Spec => []ClosedHasItsResult
  <1>1. IInv => ClosedHasItsResult  BY DEF IInv, ResultsComeFirst, ClosedHasItsResult
  <1> QED  BY <1>1, Invariance, PTL

\* OneHostPerWorkspace: the stages of a workspace run on one host and one after the
\* other, for any number of stages and hosts.
THEOREM OneHostPerWorkspace == Spec => []StagesDoNotOverlap
  <1>1. IInv => StagesDoNotOverlap
    <2> SUFFICES ASSUME IInv, NEW w \in Workspaces, NEW s \in 1..LastStage, NEW t \in 1..LastStage,
                        s # t, owner[<<w, s>>] # Nil, owner[<<w, t>>] # Nil
                 PROVE  /\ owner[<<w, s>>] = owner[<<w, t>>]
                        /\ ~(state[<<w, s>>] \in Active /\ state[<<w, t>>] \in Active)
      BY DEF StagesDoNotOverlap
    <2>1. ASSUME NEW k \in 1..LastStage, owner[<<w, k>>] # Nil  PROVE owner[<<w, k>>] = owner[<<w, 1>>]
      <3>1. <<w, k>> \in Leases /\ First(<<w, k>>) = <<w, 1>>  BY DEF Leases, First
      <3>2. CASE <<w, k>> = <<w, 1>>  BY <3>2
      <3>3. CASE <<w, k>> # <<w, 1>>
        <4>1. state[<<w, k>>] # "absent"  BY <2>1, <3>1 DEF IInv, FilesAreOwned, Owned
        <4>2. owner[<<w, 1>>] # Nil /\ pin[<<w, k>>] = owner[<<w, 1>>]
          BY <3>1, <3>3, <4>1 DEF IInv, PinsAreInherited
        <4> QED  BY <2>1, <3>1, <4>2 DEF IInv, PinsAreInherited
      <3> QED  BY <3>2, <3>3
    <2>2. owner[<<w, s>>] = owner[<<w, t>>]  BY <2>1
    <2>3. <<w, s>> \in Leases /\ <<w, t>> \in Leases /\ <<w, s>> # <<w, t>>  BY DEF Leases
    <2> QED  BY <2>2, <2>3 DEF IInv, OneLeasePerHost
  <1> QED  BY <1>1, Invariance, PTL

\* Only the failed preparation that is under way replaces a result.
LEMMA ResultStays ==
    ASSUME IInv, [Next]_vars, NEW l \in Leases, run[l] \in Terminal, Call("fail", l) \notin calls
    PROVE  run'[l] = run[l]
  <1> USE DEF IInv
  <1>0. run[l] # "absent" /\ state[l] # "absent"  BY DEF Terminal, ResultsComeFirst
  <1>1. ASSUME NEW w \in Workspaces, StartBuilder(w)  PROVE run'[l] = run[l]
    <2>1. l # <<w, 1>>  BY <1>0, <1>1 DEF StartBuilder
    <2> QED  BY <1>1, <2>1 DEF StartBuilder, TypeOK
  <1>2. ASSUME NEW c \in calls, FinishCall(c)  PROVE run'[l] = run[l]
    <2>1. c.lease \in Leases  BY CallParts
    <2>2. CASE c.op = "continue"
      BY <1>0, <1>2, <2>2 DEF FinishCall, ContinueChain, TypeOK
    <2>3. CASE c.op # "continue"
      <3>1. CASE c.lease # l  BY <1>2, <2>1, <2>3, <3>1 DEF FinishCall, TypeOK
      <3>2. CASE c.lease = l
        <4>1. c.op # "fail"  BY <3>2, CallParts DEF Call
        <4>2. RunAfter(c.op, run[l]) = run[l]  BY <4>1 DEF RunAfter, Terminal
        <4> QED  BY <1>2, <2>1, <2>3, <3>2, <4>2 DEF FinishCall, TypeOK
      <3> QED  BY <3>1, <3>2
    <2> QED  BY <2>2, <2>3
  <1>3. ASSUME NEW h \in Hosts, ReportOutcome(h)  PROVE run'[l] = run[l]
    BY <1>3 DEF ReportOutcome, AcceptsOutcome, TypeOK
  <1>4. ASSUME NEW m \in Leases, CancelRun(m)  PROVE run'[l] = run[l]
    BY <1>4 DEF CancelRun, TypeOK
  <1>5. ASSUME \/ \E h \in Hosts : \/ Start(h) \/ Claim(h) \/ Context(h) \/ ReportPreparation(h)
                               \/ MarkRunning(h) \/ CompleteLease(h) \/ RemoveFile(h) \/ PauseAndExit(h)
                               \/ Heartbeat(h) \/ PauseForQuota(h) \/ ClaimLost(h) \/ CallFails(h) \/ CrashHost(h)
               \/ SelectExpired \/ PauseExpired \/ RestartApi
               \/ \E m \in Leases : Expire(m) \/ AbandonLease(m)
               \/ \E h \in Hosts, to \in {"ready", "draining", "retired"} : DecideHost(h, to) \/ SetHost(h, to)
               \/ UNCHANGED vars
        PROVE  UNCHANGED run
    BY <1>5 DEF Start, Claim, Context, ReportPreparation, MarkRunning, CompleteLease, RemoveFile, PauseAndExit,
       Heartbeat, PauseForQuota, ClaimLost, CallFails, CrashHost, SelectExpired, PauseExpired, RestartApi,
       Expire, AbandonLease, DecideHost, SetHost, vars
  <1> QED  BY <1>1, <1>2, <1>3, <1>4, <1>5, NextSteps

\* ResultsAreFinal: a Run's result is never replaced but by a failed preparation
\* under way, whatever is executed twice, late or after a cancellation.
THEOREM ResultsAreFinal == Spec => TerminalRunIsFinal
  <1>1. IInv /\ [Next]_vars
          => [\A l \in Leases :
                run[l] \in Terminal /\ run'[l] # run[l] => Call("fail", l) \in calls]_vars
    BY ResultStays
  <1> QED  BY <1>1, Invariance, PTL DEF Spec, TerminalRunIsFinal

\* A step of a host that starts with the file of a paused lease, or of anybody
\* else, leaves it there.
LEMMA StuckStep ==
    ASSUME IInv, [Next]_vars, NEW h \in Hosts, NEW l \in Leases, Stuck(h, l)
    PROVE  Stuck(h, l)'
  <1> USE DEF IInv
  <1>0. /\ owner[l] = h /\ l # Nil
        /\ ~ MayHeartbeat(h, l)
        /\ state[l] \in {"paused", "abandoned"}
        /\ pc[h] \in {"start", "checkout"}
    BY LeaseAssumption DEF Stuck, FilesAreOwned, MayHeartbeat, Live, Leases
  <1>1. file'[h] = l /\ (pc'[h] = "start" \/ (pc'[h] = "checkout" /\ resumed'[h]))
    <2>1. ASSUME NEW k \in Hosts, k # h,
                 \/ Start(k) \/ Claim(k) \/ Context(k) \/ ReportPreparation(k)
                 \/ MarkRunning(k) \/ ReportOutcome(k) \/ CompleteLease(k) \/ RemoveFile(k)
                 \/ PauseAndExit(k) \/ Heartbeat(k) \/ PauseForQuota(k) \/ ClaimLost(k)
                 \/ CallFails(k) \/ CrashHost(k)
          PROVE  file'[h] = file[h] /\ pc'[h] = pc[h] /\ resumed'[h] = resumed[h]
      BY <2>1 DEF Start, Claim, Context, ReportPreparation, MarkRunning, ReportOutcome,
         CompleteLease, RemoveFile, PauseAndExit, Heartbeat, PauseForQuota, ClaimLost, CallFails,
         CrashHost, Fail, Exit, Goto, process, TypeOK
    <2>2. CASE Start(h)
      BY <2>2, <1>0 DEF Start, Goto, Stuck, TypeOK
    <2>3. CASE Context(h)
      BY <2>3, <1>0 DEF Context, Fail, Goto, Stuck, TypeOK
    <2>4. CASE CallFails(h) \/ CrashHost(h)
      BY <2>4, <1>0 DEF CallFails, CrashHost, Exit, Fail, Goto, Stuck, TypeOK
    <2>5. ~ \/ Claim(h) \/ ReportPreparation(h) \/ MarkRunning(h) \/ ReportOutcome(h)
            \/ CompleteLease(h) \/ RemoveFile(h) \/ PauseAndExit(h) \/ Heartbeat(h)
            \/ PauseForQuota(h) \/ ClaimLost(h)
      BY <1>0 DEF Claim, ReportPreparation, MarkRunning, ReportOutcome, CompleteLease, RemoveFile,
         PauseAndExit, Heartbeat, PauseForQuota, ClaimLost
    <2>6. ASSUME NEW c \in calls, FinishCall(c)
          PROVE  file'[h] = file[h] /\ pc'[h] = pc[h] /\ resumed'[h] = resumed[h]
      <3>1. Waiting(c.op) \notin {"start", "checkout"}  BY CallParts DEF Waiting
      <3> QED  BY <2>6, <3>1, <1>0 DEF FinishCall, TypeOK
    <2>7. CASE RestartApi
      BY <2>7, <1>0 DEF RestartApi, Stuck, TypeOK
    <2>8. ASSUME \/ SelectExpired \/ PauseExpired \/ UNCHANGED vars
                 \/ \E m \in Leases : Expire(m) \/ CancelRun(m) \/ AbandonLease(m)
                 \/ \E w \in Workspaces : StartBuilder(w)
                 \/ \E k \in Hosts, to \in {"ready", "draining", "retired"} : DecideHost(k, to) \/ SetHost(k, to)
          PROVE  UNCHANGED <<file, pc, resumed>>
      BY <2>8 DEF SelectExpired, PauseExpired, vars, Expire, CancelRun, AbandonLease, StartBuilder,
         DecideHost, SetHost, process
    <2> QED  BY <2>1, <2>2, <2>3, <2>4, <2>5, <2>6, <2>7, <2>8, NextSteps DEF Stuck
  <1>2. state'[l] \in {"paused", "abandoned"}
    <2>1. ASSUME NEW k \in Hosts, Claim(k) \/ ClaimLost(k)  PROVE state'[l] = state[l]
      <3>1. PICK m \in Leases : Claims(k, m)  BY <2>1 DEF Claim, ClaimLost
      <3>2. m # l  BY <3>1, <1>0 DEF Claims
      <3> QED  BY <3>1, <3>2 DEF Claims, TypeOK
    <2>2. ASSUME NEW k \in Hosts, k # h, pc[k] \notin {"start", "polling"}  PROVE file[k] # l
      BY <2>2, <1>0 DEF FilesAreOwned
    <2>3. ASSUME NEW k \in Hosts,
                 \/ Context(k) \/ ReportPreparation(k) \/ MarkRunning(k) \/ ReportOutcome(k)
                 \/ CompleteLease(k) \/ PauseAndExit(k) \/ Heartbeat(k) \/ PauseForQuota(k)
          PROVE  state'[l] = state[l]
      <3>1. k # h \/ Context(h)
        BY <2>3, <1>0 DEF ReportPreparation, MarkRunning, ReportOutcome, CompleteLease, PauseAndExit,
           Heartbeat, PauseForQuota
      <3>2. CASE k # h
        <4>1. pc[k] \notin {"start", "polling"}
          BY <2>3 DEF Context, ReportPreparation, MarkRunning, ReportOutcome, CompleteLease,
             PauseAndExit, Heartbeat, PauseForQuota
        <4>2. file[k] # l  BY <2>2, <3>2, <4>1
        <4> QED
          BY <2>3, <4>2 DEF Context, ReportPreparation, MarkRunning, ReportOutcome, CompleteLease,
             PauseAndExit, Heartbeat, PauseForQuota, PauseLease, Refresh, leases, TypeOK
      <3>3. CASE k = h /\ Context(h)
        BY <3>3, <1>0 DEF Context, Stuck, leases
      <3> QED  BY <3>1, <3>2, <3>3
    <2>4. ASSUME NEW c \in calls, FinishCall(c)  PROVE state'[l] = state[l]
      BY <2>4, <1>0 DEF FinishCall, ContinueChain, leases, TypeOK
    <2>5. CASE PauseExpired
      BY <2>5, <1>0 DEF PauseExpired, Expired, Live
    <2>6. ASSUME NEW m \in Leases, AbandonLease(m)  PROVE state'[l] \in {"paused", "abandoned"}
      BY <2>6, <1>0 DEF AbandonLease, TypeOK
    <2>7. ASSUME NEW w \in Workspaces, StartBuilder(w)  PROVE state'[l] = state[l]
      BY <2>7, <1>0 DEF StartBuilder, TypeOK
    <2>8. ASSUME \/ \E k \in Hosts : Start(k) \/ RemoveFile(k) \/ CallFails(k) \/ CrashHost(k)
                 \/ SelectExpired \/ RestartApi \/ UNCHANGED vars
                 \/ \E m \in Leases : Expire(m) \/ CancelRun(m)
                 \/ \E k \in Hosts, to \in {"ready", "draining", "retired"} : DecideHost(k, to) \/ SetHost(k, to)
          PROVE  UNCHANGED state
      BY <2>8 DEF Start, RemoveFile, CallFails, CrashHost, SelectExpired, RestartApi, vars, Expire,
         CancelRun, DecideHost, SetHost, leases
    <2> QED  BY <2>1, <2>3, <2>4, <2>5, <2>6, <2>7, <2>8, <1>0, NextSteps
  <1> QED  BY <1>0, <1>1, <1>2 DEF Stuck

\* PausedStaysPaused: no host that starts again with the file of a paused lease ever
\* resumes it, for any hosts, leases and faults.
THEOREM PausedStaysPaused == Spec => PausedIsNeverResumed
  <1>1. IInv /\ [Next]_vars
          => [\A h \in Hosts, l \in Leases : Stuck(h, l) => Stuck(h, l)']_vars
    BY StuckStep
  <1> QED  BY <1>1, Invariance, PTL DEF Spec, PausedIsNeverResumed

-----------------------------------------------------------------------------
\* The refinement: every step is one step of HostSlots, or none.
SlotsStep == [Slots!Next]_(Slots!vars)

\* A stage is queued only when the one before it was claimed.
Preceded ==
    \A l \in Leases : l[2] # 1 /\ state[l] # "absent" => owner[<<l[1], l[2] - 1>>] # Nil

LEMMA Predecessor ==
    ASSUME NEW l \in Leases
    PROVE  /\ l[1] \in Workspaces /\ l[2] \in 1..LastStage /\ l = <<l[1], l[2]>>
           /\ l[2] # 1 <=> l # First(l)
           /\ l[2] # 1 => <<l[1], l[2] - 1>> \in Leases
           /\ \A m \in Leases : l = Following(m) => <<l[1], l[2] - 1>> = m
  BY LeaseAssumption DEF Leases, First, Following

LEMMA PrecededStep ==
    ASSUME IInv, Preceded, [Next]_vars
    PROVE  Preceded'
  <1> USE DEF IInv
  <1>1. \A l \in Leases : owner[l] # Nil => owner'[l] = owner[l]  BY OwnersStay
  <1> SUFFICES ASSUME NEW l \in Leases, l[2] # 1, state'[l] # "absent"
               PROVE  owner'[<<l[1], l[2] - 1>>] # Nil
    BY DEF Preceded
  <1>2. CASE state[l] # "absent"
    BY <1>1, <1>2, Predecessor DEF Preceded
  <1>3. CASE state[l] = "absent"
    <2>1. ASSUME NEW h \in Hosts, NEW m \in Leases, Claims(h, m)  PROVE FALSE
      BY <1>3, <2>1 DEF Claims, TypeOK
    <2>2. CASE Quiet
      BY <1>3, <2>2, Predecessor DEF Quiet
    <2>3. ASSUME NEW c \in calls, ContinueChain(c.lease)  PROVE owner'[<<l[1], l[2] - 1>>] # Nil
      <3>1. c.lease \in Leases /\ owner[c.lease] # Nil  BY CallParts DEF ResultsComeFirst
      <3>2. l = Following(c.lease)
        BY <1>3, <2>3, <3>1 DEF ContinueChain, TypeOK
      <3> QED  BY <1>1, <3>1, <3>2, Predecessor
    <2> QED  BY <2>1, <2>2, <2>3, Moves
  <1> QED  BY <1>2, <1>3

\* The owner of a lease is the host of its workspace.
LEMMA OwnerIsHome ==
    ASSUME IInv, NEW l \in Leases, owner[l] # Nil
    PROVE  owner[l] = Home[l[1]] /\ Home[l[1]] # Nil
  <1>1. Home[l[1]] = owner[First(l)]  BY Predecessor DEF Home, First
  <1>2. CASE l = First(l)  BY <1>1, <1>2
  <1>3. CASE l # First(l)
    <2>1. state[l] # "absent"  BY DEF IInv, FilesAreOwned, Owned
    <2> QED  BY <1>1, <1>3, <2>1 DEF IInv, PinsAreInherited
  <1> QED  BY <1>2, <1>3

LEMMA FreeMeans ==
    ASSUME IInv, NEW h \in Hosts
    PROVE  HasFreeSlot(h) <=> Slots!Free(h)
  <1>1. \A l \in Served : l \in Leases /\ owner[l] = Home[l[1]]
    BY OwnerIsHome DEF Served, IInv, FilesAreOwned, Owned, Active, Live
  <1>2. \A l \in Leases : state[l] \in Active => l \in Served /\ owner[l] = Home[l[1]]
    BY <1>1 DEF Served
  <1> QED  BY <1>1, <1>2 DEF HasFreeSlot, Slots!Free, Served

\* A claim serves the next stage of a workspace on its host.
LEMMA ClaimServes ==
    ASSUME IInv, Preceded, NEW h \in Hosts, NEW l \in Leases, Claims(h, l), host' = host
    PROVE  Slots!Serve(l, h)
  <1>1. /\ host[h] = "ready" /\ HasFreeSlot(h) /\ state[l] = "queued" /\ pin[l] \in {Nil, h}
        /\ state' = [state EXCEPT ![l] = "claimed"] /\ owner' = [owner EXCEPT ![l] = h]
    BY DEF Claims
  <1>2. owner[l] = Nil /\ h # Nil
    BY <1>1, LeaseAssumption DEF IInv, FilesAreOwned, Owned
  <1>3. /\ Served' = Served \cup {l} /\ Over' = Over /\ Retired' = Retired
        /\ l \notin Served \cup Over /\ h \notin Retired
    BY <1>1 DEF Served, Over, Retired, Active, Live, IInv, TypeOK
  <1>4. CASE l[2] = 1
    <2>1. l = <<l[1], 1>> /\ l[1] \in Workspaces  BY <1>4, Predecessor
    <2>2. Home' = [Home EXCEPT ![l[1]] = h] /\ Home[l[1]] = Nil
      <3>1. Home[l[1]] = Nil  BY <1>2, <2>1 DEF Home
      <3>2. ASSUME NEW w \in Workspaces
            PROVE  owner'[<<w, 1>>] = IF w = l[1] THEN h ELSE owner[<<w, 1>>]
        BY <1>1, <2>1, FirstStages DEF IInv, TypeOK
      <3> QED  BY <3>1, <3>2 DEF Home
    <2> QED  BY <1>1, <1>3, <1>4, <2>2, FreeMeans DEF Slots!Serve
  <1>5. CASE l[2] # 1
    <2> DEFINE m == <<l[1], l[2] - 1>>
    <2>1. m \in Leases /\ l # First(l) /\ First(l) = <<l[1], 1>> /\ l[1] \in Workspaces
      BY <1>5, Predecessor DEF First
    <2>2. owner[m] # Nil  BY <1>1, <1>5 DEF Preceded
    <2>3. Home[l[1]] = h
      BY <1>1, <2>1 DEF IInv, PinsAreInherited, Home
    <2>4. owner[m] = h  BY <2>1, <2>2, <2>3, OwnerIsHome
    <2>5. m \in Over
      BY <1>1, <2>1, <2>2, <2>4 DEF HasFreeSlot, Over, IInv, FilesAreOwned, Owned, TypeOK, Active, Live
    <2>6. Home' = [Home EXCEPT ![l[1]] = h]
      <3>1. ASSUME NEW w \in Workspaces  PROVE owner'[<<w, 1>>] = owner[<<w, 1>>]
        BY <1>1, <1>5, FirstStages DEF IInv, TypeOK
      <3>2. Home' = Home  BY <3>1 DEF Home
      <3> QED  BY <2>1, <2>3, <3>2 DEF Home
    <2> QED  BY <1>1, <1>3, <1>5, <2>3, <2>5, <2>6, FreeMeans DEF Slots!Serve
  <1> QED  BY <1>4, <1>5

\* Between claims slots are only given back, one at a time.
LEMMA QuietEnds ==
    ASSUME TypeOK, TypeOK', owner' = owner, host' = host, \A l \in Leases : Moved(l),
           \A l, m \in Leases : Ends(l) /\ Ends(m) => l = m
    PROVE  SlotsStep
  <1>1. Home' = Home /\ Retired' = Retired  BY DEF Home, Retired
  <1>2. CASE \A l \in Leases : ~Ends(l)
    <2>1. Served' = Served /\ Over' = Over
      BY <1>2 DEF Served, Over, Ends, Moved, Active, Live
    <2> QED  BY <1>1, <2>1 DEF SlotsStep, Slots!vars
  <1>3. CASE \E l \in Leases : Ends(l)
    <2>1. PICK l \in Leases : Ends(l)  BY <1>3
    <2>2. \A m \in Leases : m # l => ~Ends(m)  BY <2>1
    <2>3. state[l] \in Active /\ state'[l] \in {"closed", "abandoned"}
      BY <2>1 DEF Ends, Moved, Active, Live
    <2>4. l \in Served /\ Served' = Served \ {l}
      BY <2>1, <2>2, <2>3 DEF Served, Ends, Moved, Active, Live
    <2>5. Over' = Over \cup {l}
      BY <2>2, <2>3 DEF Over, Ends, Moved, Active, Live
    <2>6. Slots!End(l)  BY <1>1, <2>4, <2>5 DEF Slots!End
    <2> QED  BY <2>6 DEF SlotsStep, Slots!Next, Slots!Stages, Leases
  <1> QED  BY <1>2, <1>3

\* A host goes out of service with no stage on it, or comes back.
LEMMA HostServes ==
    ASSUME IInv, NEW h \in Hosts, NEW to \in {"ready", "draining", "retired"}, SetHost(h, to)
    PROVE  SlotsStep
  <1>1. Home' = Home /\ Served' = Served /\ Over' = Over
    BY DEF SetHost, leases, Home, Served, Over
  <1>2. CASE host' = host
    BY <1>1, <1>2 DEF SlotsStep, Slots!vars, Retired
  <1>3. CASE host' = [host EXCEPT ![h] = to] /\ to = "retired" /\ MayRetire(h)
    <2>1. Retired' = Retired \cup {h}  BY <1>3 DEF Retired, IInv, TypeOK
    <2>2. Slots!Retire(h)  BY <1>1, <1>3, <2>1, FreeMeans DEF Slots!Retire, MayRetire
    <2> QED  BY <2>2 DEF SlotsStep, Slots!Next
  <1>4. CASE host' = [host EXCEPT ![h] = to] /\ to # "retired"
    <2>1. Retired' = Retired \ {h}  BY <1>4 DEF Retired, IInv, TypeOK
    <2>2. Slots!Return(h)  BY <1>1, <2>1 DEF Slots!Return
    <2> QED  BY <2>2 DEF SlotsStep, Slots!Next
  <1> QED  BY <1>2, <1>3, <1>4 DEF SetHost

\* HostSlotsImplemented: hosts, API, monitor and operators implement exclusive host
\* slots and ordered stages, for any number of hosts, workspaces, stages and faults.
THEOREM HostSlotsImplemented == Spec => ImplementsHostSlots
  <1>1. Init => Slots!Init /\ Preceded
    <2> SUFFICES ASSUME Init  PROVE Slots!Init /\ Preceded
      OBVIOUS
    <2>1. Home = [w \in Workspaces |-> Nil]  BY FirstStages DEF Init, Home
    <2>2. Served = {} /\ Over = {} /\ Retired = {}
      BY DEF Init, Served, Over, Retired, Active, Live
    <2> QED  BY <2>1, <2>2 DEF Init, Preceded, Slots!Init
  <1>2. IInv /\ Preceded /\ [Next]_vars => Preceded'  BY PrecededStep
  <1>3. Spec => []Preceded  BY <1>1, <1>2, Invariance, PTL DEF Spec
  <1>4. IInv /\ IInv' /\ Preceded /\ [Next]_vars => SlotsStep
    <2> SUFFICES ASSUME IInv, IInv', Preceded, [Next]_vars  PROVE SlotsStep
      OBVIOUS
    <2>1. ASSUME NEW h \in Hosts, NEW l \in Leases, Claims(h, l), host' = host  PROVE SlotsStep
      BY <2>1, ClaimServes DEF SlotsStep, Slots!Next, Slots!Stages, Leases
    <2>2. CASE Quiet /\ host' = host
      BY <2>2, QuietEnds DEF IInv, Quiet
    <2>3. ASSUME NEW c \in calls, ContinueChain(c.lease), host' = host  PROVE SlotsStep
      <3>1. owner' = owner /\ \A m \in Leases : Moved(m) /\ ~Ends(m)
        BY <2>3, Queued, CallParts DEF IInv, Ends, Moved, Active, Live
      <3> QED  BY <2>3, <3>1, QuietEnds DEF IInv
    <2> QED  BY <2>1, <2>2, <2>3, HostMoves, Moves, HostServes DEF IInv
  <1> QED  BY <1>1, <1>3, <1>4, Invariance, PTL DEF Spec, ImplementsHostSlots, Slots!Spec, SlotsStep
=============================================================================
