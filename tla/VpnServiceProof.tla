-------------------------- MODULE VpnServiceProof --------------------------
(***************************************************************************)
(* Proofs about the VPN service, for every set of runs and callers, every  *)
(* retry limit, every runner and every timing.                             *)
(***************************************************************************)
EXTENDS VpnService, TLAPS

-----------------------------------------------------------------------------
(* Types.                                                                  *)

\* A service that was just made (NewService) is well typed.
LEMMA InitType == Init => TypeOK
  BY ServiceAssumption DEF Init, TunnelInit, TypeOK, States, RunPcs, CallerPcs

\* Every step of a run loop preserves the types of the variables.
LEMMA RunType ==
  ASSUME TypeOK, NEW r \in Runs, RunStep(r) \/ RunLock(r)
  PROVE  TypeOK'
<1> USE DEF TypeOK, tunnelVars, svcVars, sessVars, callerVars
<1>1. ASSUME NEW st \in States, NEW from, NEW emit \in RunPcs, NEW next \in RunPcs,
             Transition(r, st, from, emit, next)
      PROVE  TypeOK'
  BY <1>1 DEF Transition, IfActive, Goto
<1>2. ASSUME NEW st \in States, NEW from, NEW next \in RunPcs, Emit(r, st, from, next)
      PROVE  TypeOK'
  BY <1>2 DEF Emit, Goto
<1>3. ASSUME NEW cmd, NEW from, NEW next \in RunPcs, Receive(r, cmd, from, next)
      PROVE  TypeOK'
  BY <1>3 DEF Receive, Goto
<1>4. ASSUME NEW from, Cancelled(r, from)
      PROVE  TypeOK'
  BY <1>4 DEF Cancelled, Goto, RunPcs
<1>5. ASSUME NEW from, NEW in \in RunPcs, StopCallBegin(r, from, in)
      PROVE  TypeOK'
  BY <1>5 DEF StopCallBegin, Goto, Lock
<1>6. ASSUME NEW in, NEW next \in RunPcs, StopCallEnd(r, in, next),
             attempt' \in [Runs -> Nat]
      PROVE  TypeOK'
  BY <1>6 DEF StopCallEnd, Goto, Stop
<1>7. CASE StartBegin(r)
  BY <1>7 DEF StartBegin, Goto, Lock, RunPcs
<1>8. CASE StartEnd(r)
  BY <1>8, TunnelAssumption
     DEF StartEnd, Goto, Start, StartResult, AlreadyRunning, Dialled, RunPcs
<1>9. CASE Started(r)
  BY <1>9 DEF Started, IfActive, Goto, RunPcs
<1>10. CASE Up(r) \/ ToRetry(r) \/ ToError(r) \/ Reconn(r)
  <2>1. /\ {"connected", "reconnecting", "error"} \subseteq States
        /\ {"emitUp", "lostRead", "emitRetry", "wait", "emitError", "finish",
            "emitReconn", "restop"} \subseteq RunPcs
    BY DEF States, RunPcs
  <2>2. CASE Up(r)
    BY <2>1, <2>2, <1>1 DEF Up
  <2>3. CASE ToRetry(r)
    BY <2>1, <2>3, <1>1 DEF ToRetry
  <2>4. CASE ToError(r)
    BY <2>1, <2>4, <1>1 DEF ToError
  <2>5. CASE Reconn(r)
    BY <2>1, <2>5, <1>1 DEF Reconn
  <2> QED
    BY <1>10, <2>2, <2>3, <2>4, <2>5
<1>11. CASE EmitUp(r) \/ EmitRetry(r) \/ EmitError(r) \/ EmitReconn(r) \/ EmitDown(r)
  BY <1>11, <1>2 DEF EmitUp, EmitRetry, EmitError, EmitReconn, EmitDown, States, RunPcs
<1>12. CASE LostRead(r)
  BY <1>12 DEF LostRead, Goto, RunPcs
<1>13. CASE SelectDisconnect(r) \/ SelectReconnect(r) \/ WaitDisconnect(r) \/ WaitReconnect(r)
  BY <1>13, <1>3 DEF SelectDisconnect, SelectReconnect, WaitDisconnect, WaitReconnect, RunPcs
<1>14. CASE SelectCancelled(r) \/ WaitCancelled(r)
  BY <1>14, <1>4 DEF SelectCancelled, WaitCancelled
<1>15. CASE SelectLost(r) \/ LostCheck(r) \/ StopCheck(r) \/ WaitTimer(r)
  BY <1>15 DEF SelectLost, LostCheck, StopCheck, WaitTimer, IfActive, Goto, RunPcs
<1>16. CASE StopBegin(r) \/ RestopBegin(r) \/ TeardownBegin(r)
  BY <1>16, <1>5 DEF StopBegin, RestopBegin, TeardownBegin, RunPcs
<1>17. CASE StopEnd(r) \/ RestopEnd(r) \/ TeardownEnd(r)
  BY <1>17, <1>6 DEF StopEnd, RestopEnd, TeardownEnd, RunPcs
<1>18. CASE Retry(r)
  BY <1>18 DEF Retry, Goto, RunPcs
<1>19. CASE Teardown(r)
  BY <1>19 DEF Teardown, IfActive, Goto, RunPcs, States
<1>20. CASE Finish(r)
  BY <1>20 DEF Finish, Goto, RunPcs
<1> QED
  BY <1>7, <1>8, <1>9, <1>10, <1>11, <1>12, <1>13, <1>14, <1>15, <1>16, <1>17,
     <1>18, <1>19, <1>20 DEF RunStep, RunLock

\* Every step of a caller preserves the types of the variables.
LEMMA CallerType ==
  ASSUME TypeOK, CallersHoldRuns, NEW c \in Callers,
         Call(c) \/ CallerStep(c) \/ CallerLock(c)
  PROVE  TypeOK'
<1> USE DEF TypeOK, tunnelVars, svcVars, sessVars, callerVars, CGoto, CallerPcs
<1>1. CASE ConnectCheck(c)
  BY <1>1 DEF ConnectCheck
<1>2. CASE DisconnectRead(c) \/ ReconnectRead(c)
  BY <1>2 DEF DisconnectRead, ReconnectRead
<1>3. CASE SetAutoReconnect(c)
  BY <1>3 DEF SetAutoReconnect
<1>4. CASE Reap(c)
  BY <1>4 DEF Reap, CallersHoldRuns
<1>5. CASE ReapStopBegin(c) \/ ForceStopBegin(c)
  BY <1>5 DEF ReapStopBegin, ForceStopBegin, CStopBegin, Lock
<1>6. CASE ReapStopEnd(c) \/ ForceStopEnd(c)
  BY <1>6 DEF ReapStopEnd, ForceStopEnd, CStopEnd, Stop
<1>7. CASE ReapWait(c) \/ DisconnectDone(c) \/ DisconnectTimeout(c) \/ DisconnectReply(c)
  BY <1>7 DEF ReapWait, DisconnectDone, DisconnectTimeout, DisconnectReply
<1>8. CASE Create(c)
  <2>1. CASE state \in Busy /\ UNCHANGED <<svcVars, pc, sessVars, crun>>
    BY <1>8, <2>1 DEF Create
  <2>2. CASE state \notin Busy
    <3>1. PICK r \in Runs : /\ Goto(r, "unused", "new")
                            /\ active' = r
                            /\ session' = r
                            /\ crun' = [crun EXCEPT ![c] = r]
                            /\ last' = [last EXCEPT ![r] = "connecting"]
      BY <1>8, <2>2 DEF Create
    <3>2. /\ cpc' \in [Callers -> CallerPcs]
          /\ state' = "connecting"
          /\ UNCHANGED <<tunnelVars, auto, ui, attempt, cmds, cancelled, ended, res, chan>>
      BY <1>8, <2>2 DEF Create
    <3>3. /\ pc' \in [Runs -> RunPcs]
          /\ last' \in [Runs -> States]
          /\ crun' \in [Callers -> Runs \cup {None}]
      BY <3>1 DEF Goto, RunPcs, States
    <3> QED
      BY <3>1, <3>2, <3>3 DEF States
  <2> QED
    BY <1>8, <2>1, <2>2 DEF Create
<1>9. CASE Launch(c)
  BY <1>9 DEF Launch, RunPcs, States
<1>10. CASE DisconnectReset(c)
  BY <1>10 DEF DisconnectReset, States
<1>11. CASE DisconnectSend(c) \/ ReconnectSend(c)
  BY <1>11 DEF DisconnectSend, ReconnectSend, SendCmd
<1>12. CASE ForceDisconnect(c)
  BY <1>12 DEF ForceDisconnect, States
<1>13. CASE DisconnectEmit(c)
  BY <1>13 DEF DisconnectEmit, States
<1> QED
  BY <1>1, <1>2, <1>3, <1>4, <1>5, <1>6, <1>7, <1>8, <1>9, <1>10, <1>11, <1>12, <1>13
     DEF Call, CallerStep, CallerLock

-----------------------------------------------------------------------------
(* The inductive step.                                                     *)

\* A loop that only moves on, touching neither the service's state nor the
\* sessions, keeps the invariant, provided that it starts on its way out only
\* when it is replaced or idle, and does not come back from there.
LEMMA LoopMoves ==
  ASSUME IInv, TypeOK', NEW r \in Runs, NEW q,
         pc[r] \notin {"unused", "new"},
         q # "unused",
         pc' = [pc EXCEPT ![r] = q],
         UNCHANGED <<state, active, session, sessVars, callerVars>>,
         q \in ExitPcs => active # r \/ state \notin Busy,
         pc[r] \in EndedPcs => q \in EndedPcs
  PROVE  IInv'
<1> USE DEF IInv, TypeOK, sessVars, callerVars
<1>1. LiveRunIsCurrent' /\ BusyHasLiveLoop'
  BY DEF LiveRunIsCurrent, BusyHasLiveLoop
<1>2. ExitingRunIsIdle'
  BY DEF ExitingRunIsIdle
<1>3. EndedRunIsOut'
  BY DEF EndedRunIsOut
<1>4. LaunchesAreOwn'
  BY DEF LaunchesAreOwn
<1>5. CallersHoldRuns'
  BY DEF CallersHoldRuns
<1> QED
  BY <1>1, <1>2, <1>3, <1>4, <1>5

\* transition keeps the invariant: only the live run changes the state, and it
\* records the change in its own session.
LEMMA TransitionKeeps ==
  ASSUME IInv, TypeOK', NEW r \in Runs, NEW st \in States, NEW from, NEW emit, NEW next,
         Transition(r, st, from, emit, next),
         from \notin ExitPcs \cup {"unused", "new"},
         emit \notin EndedPcs \cup {"unused"},
         emit \in ExitPcs => st \notin Busy,
         next # "unused"
  PROVE  IInv'
<1> USE DEF IInv, TypeOK, svcVars, sessVars, callerVars
<1>1. CASE active # r
  <2>1. /\ pc' = [pc EXCEPT ![r] = next]
        /\ pc[r] = from
        /\ UNCHANGED <<state, active, session, last, ended, cpc, crun>>
    BY <1>1 DEF Transition, IfActive, Goto
  <2>2. pc[r] \notin EndedPcs
    BY <2>1 DEF EndedPcs, ExitPcs
  <2> QED
    BY <1>1, <2>1, <2>2, LoopMoves
<1>2. CASE active = r
  <2>1. /\ pc' = [pc EXCEPT ![r] = emit]
        /\ pc[r] = from
        /\ state' = st
        /\ last' = [last EXCEPT ![r] = st]
        /\ UNCHANGED <<active, session, ended, cpc, crun>>
    BY <1>2 DEF Transition, IfActive, Goto
  <2>2. active # None /\ session = active
    BY <1>2, ServiceAssumption DEF LiveRunIsCurrent
  <2>3. r \notin ended
    BY <1>2, <2>1 DEF EndedRunIsOut, EndedPcs, ExitPcs
  <2>4. LiveRunIsCurrent' /\ BusyHasLiveLoop'
    BY <1>2, <2>1, <2>2 DEF LiveRunIsCurrent, BusyHasLiveLoop
  <2>5. ExitingRunIsIdle'
    BY <1>2, <2>1 DEF ExitingRunIsIdle
  <2>6. EndedRunIsOut'
    BY <1>2, <2>1, <2>3 DEF EndedRunIsOut
  <2>7. LaunchesAreOwn' /\ CallersHoldRuns'
    BY <2>1 DEF LaunchesAreOwn, CallersHoldRuns
  <2> QED
    BY <2>4, <2>5, <2>6, <2>7
<1> QED
  BY <1>1, <1>2

\* Every step of a run loop keeps the invariant.
LEMMA RunKeeps ==
  ASSUME IInv, NEW r \in Runs, RunStep(r) \/ RunLock(r)
  PROVE  IInv'
<1>1. TypeOK'
  BY RunType DEF IInv
<1>2. ASSUME NEW from, NEW q,
             Goto(r, from, q),
             UNCHANGED <<svcVars, sessVars, callerVars>>,
             from \notin {"unused", "new"}, q # "unused",
             q \in ExitPcs => active # r \/ from \in ExitPcs,
             from \in EndedPcs => q \in EndedPcs
      PROVE  IInv'
  <2>1. pc[r] = from /\ pc' = [pc EXCEPT ![r] = q]
    BY <1>2 DEF Goto
  <2>2. q \in ExitPcs => active # r \/ state \notin Busy
    BY <1>2, <2>1 DEF IInv, ExitingRunIsIdle
  <2> QED
    BY <1>1, <1>2, <2>1, <2>2, LoopMoves DEF svcVars
<1> USE DEF ExitPcs, EndedPcs
<1>3. CASE StartBegin(r) \/ StartEnd(r) \/ LostRead(r) \/ SelectLost(r) \/ Retry(r)
  BY <1>3, <1>2 DEF StartBegin, StartEnd, LostRead, SelectLost, Retry, Goto
<1>4. CASE Started(r) \/ LostCheck(r) \/ StopCheck(r) \/ WaitTimer(r)
  BY <1>4, <1>2 DEF Started, LostCheck, StopCheck, WaitTimer, IfActive
<1>5. CASE Up(r) \/ ToRetry(r) \/ ToError(r) \/ Reconn(r)
  <2>1. CASE Up(r)
    BY <1>1, <2>1, TransitionKeeps DEF Up, States, Busy
  <2>2. CASE ToRetry(r)
    BY <1>1, <2>2, TransitionKeeps DEF ToRetry, States, Busy
  <2>3. CASE ToError(r)
    BY <1>1, <2>3, TransitionKeeps DEF ToError, States, Busy
  <2>4. CASE Reconn(r)
    BY <1>1, <2>4, TransitionKeeps DEF Reconn, States, Busy
  <2> QED
    BY <1>5, <2>1, <2>2, <2>3, <2>4
<1>6. CASE EmitUp(r) \/ EmitRetry(r) \/ EmitError(r) \/ EmitReconn(r) \/ EmitDown(r)
  BY <1>6, <1>2 DEF EmitUp, EmitRetry, EmitError, EmitReconn, EmitDown, Emit
<1>7. CASE SelectDisconnect(r) \/ SelectReconnect(r) \/ WaitDisconnect(r) \/ WaitReconnect(r)
  BY <1>7, <1>2 DEF SelectDisconnect, SelectReconnect, WaitDisconnect, WaitReconnect, Receive
<1>8. CASE SelectCancelled(r) \/ WaitCancelled(r)
  BY <1>8, <1>2 DEF SelectCancelled, WaitCancelled, Cancelled
<1>9. CASE StopBegin(r) \/ RestopBegin(r) \/ TeardownBegin(r)
  BY <1>9, <1>2 DEF StopBegin, RestopBegin, TeardownBegin, StopCallBegin
<1>10. CASE StopEnd(r) \/ RestopEnd(r) \/ TeardownEnd(r)
  BY <1>10, <1>2 DEF StopEnd, RestopEnd, TeardownEnd, StopCallEnd
<1>11. CASE Teardown(r)
  <2> USE DEF IInv, TypeOK, svcVars, sessVars, callerVars
  <2>1. CASE active # r
    BY <1>11, <1>2, <2>1 DEF Teardown, IfActive
  <2>2. CASE active = r
    <3>1. /\ pc[r] = "teardown"
          /\ pc' = [pc EXCEPT ![r] = "tdstop"]
          /\ state' = "disconnected"
          /\ ended' = ended \cup {r}
          /\ UNCHANGED <<active, session, cpc, crun>>
      BY <1>11, <2>2 DEF Teardown, IfActive, Goto
    <3>2. LiveRunIsCurrent' /\ BusyHasLiveLoop' /\ ExitingRunIsIdle'
      BY <3>1 DEF LiveRunIsCurrent, BusyHasLiveLoop, ExitingRunIsIdle, Busy
    <3>3. EndedRunIsOut'
      BY <3>1 DEF EndedRunIsOut
    <3>4. LaunchesAreOwn' /\ CallersHoldRuns'
      BY <3>1 DEF LaunchesAreOwn, CallersHoldRuns
    <3> QED
      BY <1>1, <3>2, <3>3, <3>4
  <2> QED
    BY <2>1, <2>2
<1>12. CASE Finish(r)
  <2> USE DEF IInv, TypeOK, svcVars, sessVars, callerVars
  <2>1. /\ pc[r] = "finish"
        /\ pc' = [pc EXCEPT ![r] = "done"]
        /\ active' = IF active = r THEN None ELSE active
        /\ ended' = ended \cup {r}
        /\ UNCHANGED <<state, session, last, cpc, crun>>
    BY <1>12 DEF Finish, Goto
  <2>2. active = r => state \notin Busy
    BY <2>1 DEF ExitingRunIsIdle
  <2>3. LiveRunIsCurrent' /\ BusyHasLiveLoop'
    BY <2>1, <2>2 DEF LiveRunIsCurrent, BusyHasLiveLoop
  <2>4. ExitingRunIsIdle'
    BY <2>1, ServiceAssumption DEF ExitingRunIsIdle
  <2>5. EndedRunIsOut'
    BY <2>1, ServiceAssumption DEF EndedRunIsOut
  <2>6. LaunchesAreOwn' /\ CallersHoldRuns'
    BY <2>1 DEF LaunchesAreOwn, CallersHoldRuns
  <2> QED
    BY <1>1, <2>3, <2>4, <2>5, <2>6
<1> QED
  BY <1>3, <1>4, <1>5, <1>6, <1>7, <1>8, <1>9, <1>10, <1>11, <1>12 DEF RunStep, RunLock

\* Every step of a caller keeps the invariant.
LEMMA CallerKeeps ==
  ASSUME IInv, NEW c \in Callers, Call(c) \/ CallerStep(c) \/ CallerLock(c)
  PROVE  IInv'
<1> USE DEF IInv, TypeOK, svcVars, sessVars, callerVars
<1>1. TypeOK'
  BY CallerType
<1>2. ASSUME NEW q, cpc' = [cpc EXCEPT ![c] = q], q # "launch",
             UNCHANGED <<state, active, session, pc, sessVars>>,
             \A d \in Callers : d # c => crun'[d] = crun[d],
             q \in {"reap", "reapstop", "reapstopping", "reapwait", "dsend", "dwait", "rsend"}
                => crun'[c] \in Runs
      PROVE  IInv'
  <2>1. LiveRunIsCurrent' /\ BusyHasLiveLoop' /\ ExitingRunIsIdle' /\ EndedRunIsOut'
    BY <1>2 DEF LiveRunIsCurrent, BusyHasLiveLoop, ExitingRunIsIdle, EndedRunIsOut
  <2>2. LaunchesAreOwn'
    BY <1>2 DEF LaunchesAreOwn
  <2>3. CallersHoldRuns'
    BY <1>2 DEF CallersHoldRuns
  <2> QED
    BY <1>1, <2>1, <2>2, <2>3
<1>3. CASE ConnectCheck(c) \/ DisconnectRead(c) \/ ReconnectRead(c)
  BY <1>3, <1>2 DEF ConnectCheck, DisconnectRead, ReconnectRead, CGoto
<1>4. CASE SetAutoReconnect(c)
  <2>1. UNCHANGED <<state, active, session, pc, last, ended, cpc, crun>>
    BY <1>4 DEF SetAutoReconnect
  <2> QED
    BY <1>1, <2>1 DEF LiveRunIsCurrent, BusyHasLiveLoop, ExitingRunIsIdle, EndedRunIsOut,
                      LaunchesAreOwn, CallersHoldRuns
<1>5. CASE Reap(c) \/ ReapWait(c) \/ DisconnectDone(c) \/ DisconnectTimeout(c) \/ DisconnectReply(c)
           \/ DisconnectSend(c) \/ ReconnectSend(c) \/ DisconnectEmit(c)
  BY <1>5, <1>2 DEF Reap, ReapWait, DisconnectDone, DisconnectTimeout, DisconnectReply,
     DisconnectSend, ReconnectSend, DisconnectEmit, CGoto, CallersHoldRuns
<1>6. CASE ReapStopBegin(c) \/ ForceStopBegin(c) \/ ReapStopEnd(c) \/ ForceStopEnd(c)
  BY <1>6, <1>2 DEF ReapStopBegin, ForceStopBegin, ReapStopEnd, ForceStopEnd,
     CStopBegin, CStopEnd, CGoto, CallersHoldRuns
<1>7. CASE Create(c)
  <2>1. CASE state \in Busy /\ UNCHANGED <<svcVars, pc, sessVars, crun>>
    BY <1>7, <2>1, <1>2 DEF Create, CGoto
  <2>2. CASE state \notin Busy
    <3>1. PICK r \in Runs : /\ Goto(r, "unused", "new")
                            /\ active' = r
                            /\ session' = r
                            /\ crun' = [crun EXCEPT ![c] = r]
                            /\ last' = [last EXCEPT ![r] = "connecting"]
      BY <1>7, <2>2 DEF Create
    <3>2. /\ cpc[c] = "create"
          /\ cpc' = [cpc EXCEPT ![c] = "launch"]
          /\ pc[r] = "unused"
          /\ pc' = [pc EXCEPT ![r] = "new"]
          /\ state' = "connecting"
          /\ ended' = ended
      BY <1>7, <2>2, <3>1 DEF Create, CGoto, Goto
    <3>3. LiveRunIsCurrent' /\ BusyHasLiveLoop'
      <4>1. pc'[r] = "new" /\ last'[r] = "connecting"
        BY <3>1, <3>2
      <4> QED
        BY <3>1, <3>2, <4>1, ServiceAssumption DEF LiveRunIsCurrent, BusyHasLiveLoop
    <3>4. ExitingRunIsIdle'
      BY <3>1, <3>2 DEF ExitingRunIsIdle, ExitPcs
    <3>5. EndedRunIsOut'
      BY <3>1, <3>2 DEF EndedRunIsOut
    <3>6. \A d \in Callers : cpc[d] = "launch" => crun[d] # r /\ d # c
      BY <3>2 DEF LaunchesAreOwn
    <3>7. LaunchesAreOwn'
      BY <3>1, <3>2, <3>6 DEF LaunchesAreOwn
    <3>8. CallersHoldRuns'
      BY <3>1, <3>2 DEF CallersHoldRuns
    <3> QED
      BY <1>1, <3>3, <3>4, <3>5, <3>7, <3>8
  <2> QED
    BY <1>7, <2>1, <2>2 DEF Create
<1>8. CASE Launch(c)
  <2>1. /\ cpc[c] = "launch"
        /\ cpc' = [cpc EXCEPT ![c] = "idle"]
        /\ pc' = [pc EXCEPT ![crun[c]] = "start"]
        /\ UNCHANGED <<state, active, session, last, ended, crun>>
    BY <1>8 DEF Launch, CGoto
  <2>2. crun[c] \in Runs /\ pc[crun[c]] = "new"
    BY <2>1 DEF LaunchesAreOwn
  <2>3. LiveRunIsCurrent' /\ BusyHasLiveLoop' /\ ExitingRunIsIdle'
    BY <2>1, <2>2 DEF LiveRunIsCurrent, BusyHasLiveLoop, ExitingRunIsIdle, ExitPcs
  <2>4. EndedRunIsOut'
    BY <2>1, <2>2 DEF EndedRunIsOut, EndedPcs
  <2>5. LaunchesAreOwn'
    BY <2>1, <2>2 DEF LaunchesAreOwn
  <2>6. CallersHoldRuns'
    BY <2>1 DEF CallersHoldRuns
  <2> QED
    BY <1>1, <2>3, <2>4, <2>5, <2>6
<1>9. CASE DisconnectReset(c)
  <2>1. /\ cpc' = [cpc EXCEPT ![c] = "emitOff"]
        /\ state' = "disconnected"
        /\ UNCHANGED <<active, session, pc, last, ended, crun>>
    BY <1>9 DEF DisconnectReset, CGoto
  <2>2. LiveRunIsCurrent' /\ BusyHasLiveLoop' /\ ExitingRunIsIdle' /\ EndedRunIsOut'
    BY <2>1 DEF LiveRunIsCurrent, BusyHasLiveLoop, ExitingRunIsIdle, EndedRunIsOut, Busy
  <2>3. LaunchesAreOwn' /\ CallersHoldRuns'
    BY <2>1 DEF LaunchesAreOwn, CallersHoldRuns
  <2> QED
    BY <1>1, <2>2, <2>3
<1>10. CASE ForceDisconnect(c)
  <2>1. CASE active = None
    BY <1>10, <1>2, <2>1 DEF ForceDisconnect, CGoto
  <2>2. CASE active # None
    <3>1. /\ cpc' = [cpc EXCEPT ![c] = "fstop"]
          /\ state' = "disconnected"
          /\ active' = None
          /\ ended' = ended \cup {active}
          /\ UNCHANGED <<session, pc, crun>>
      BY <1>10, <2>2 DEF ForceDisconnect, CGoto
    <3>2. LiveRunIsCurrent' /\ BusyHasLiveLoop' /\ ExitingRunIsIdle'
      BY <3>1 DEF LiveRunIsCurrent, BusyHasLiveLoop, ExitingRunIsIdle, Busy
    <3>3. EndedRunIsOut'
      BY <2>2, <3>1, ServiceAssumption DEF EndedRunIsOut, LiveRunIsCurrent
    <3>4. LaunchesAreOwn' /\ CallersHoldRuns'
      BY <3>1 DEF LaunchesAreOwn, CallersHoldRuns
    <3> QED
      BY <1>1, <3>2, <3>3, <3>4
  <2> QED
    BY <2>1, <2>2
<1> QED
  BY <1>3, <1>4, <1>5, <1>6, <1>7, <1>8, <1>9, <1>10 DEF Call, CallerStep, CallerLock

-----------------------------------------------------------------------------
(* The theorems.                                                           *)

\* The invariant is inductive.
LEMMA Inductive == IInv /\ [Next]_vars => IInv'
<1> SUFFICES ASSUME IInv, [Next]_vars PROVE IInv'
  OBVIOUS
<1>1. ASSUME NEW r \in Runs, RunStep(r) \/ RunLock(r)
      PROVE  IInv'
  BY <1>1, RunKeeps
<1>2. ASSUME NEW c \in Callers, Call(c) \/ CallerStep(c) \/ CallerLock(c)
      PROVE  IInv'
  BY <1>2, CallerKeeps
<1>3. CASE LoseTunnel
  <2>1. TypeOK'
    BY <1>3 DEF LoseTunnel, Lose, IInv, TypeOK, svcVars, sessVars, callerVars
  <2>2. UNCHANGED <<state, active, session, pc, last, ended, cpc, crun>>
    BY <1>3 DEF LoseTunnel, svcVars, sessVars, callerVars
  <2> QED
    BY <2>1, <2>2 DEF IInv, LiveRunIsCurrent, BusyHasLiveLoop, ExitingRunIsIdle,
                      EndedRunIsOut, LaunchesAreOwn, CallersHoldRuns
<1>4. CASE UNCHANGED vars
  BY <1>4 DEF vars, tunnelVars, svcVars, sessVars, callerVars, IInv, TypeOK,
              LiveRunIsCurrent, BusyHasLiveLoop, ExitingRunIsIdle, EndedRunIsOut,
              LaunchesAreOwn, CallersHoldRuns
<1> QED
  BY <1>1, <1>2, <1>3, <1>4 DEF Next

\* The initial state satisfies the invariant.
LEMMA InitInv == Init => IInv
<1> SUFFICES ASSUME Init PROVE IInv
  OBVIOUS
<1>1. TypeOK
  BY InitType
<1>2. LiveRunIsCurrent /\ BusyHasLiveLoop /\ ExitingRunIsIdle /\ EndedRunIsOut
  BY DEF Init, LiveRunIsCurrent, BusyHasLiveLoop, ExitingRunIsIdle, EndedRunIsOut,
         Busy, ExitPcs
<1>3. LaunchesAreOwn /\ CallersHoldRuns
  BY DEF Init, LaunchesAreOwn, CallersHoldRuns
<1> QED
  BY <1>1, <1>2, <1>3 DEF IInv

\* The inductive invariant holds in every reachable state, for any number of
\* connects, of concurrent callers and of attempts, whatever the tunnel does
\* and however long anything takes.
THEOREM Invariance == Spec => []IInv
  BY InitInv, Inductive, PTL DEF Spec

\* Every variable of the service always has its type.
THEOREM TypeCorrect == Spec => []TypeOK
<1>1. IInv => TypeOK
  BY DEF IInv
<1> QED
  BY <1>1, Invariance, PTL

\* A busy service always has a live run loop, whose session it reports and
\* whose history agrees with the state: it is never stuck in a busy state that
\* no loop will ever leave.
THEOREM NeverStuckBusy == Spec => []BusyHasLiveLoop
<1>1. IInv => BusyHasLiveLoop
  BY DEF IInv
<1> QED
  BY <1>1, Invariance, PTL

\* A step leaves alone the history and the end of every session that has
\* ended: only the live run's session is written to, and the live run's
\* session has not ended while its loop can still write.
LEMMA EndedStays ==
  ASSUME IInv, Next
  PROVE  \A s \in Runs : s \in ended => s \in ended' /\ last'[s] = last[s]
<1> USE DEF IInv, TypeOK, svcVars, sessVars, callerVars
<1>1. CASE UNCHANGED sessVars
  BY <1>1
<1>2. ASSUME NEW r \in Runs, Up(r) \/ ToRetry(r) \/ ToError(r) \/ Reconn(r)
      PROVE  \A s \in Runs : s \in ended => s \in ended' /\ last'[s] = last[s]
  <2>1. /\ pc[r] \in {"up", "toRetry", "toError", "reconn"}
        /\ ended' = ended
        /\ active # r => last' = last
        /\ \A s \in Runs : s # r => last'[s] = last[s]
    BY <1>2 DEF Up, ToRetry, ToError, Reconn, Transition, IfActive, Goto
  <2>2. active = r => r \notin ended
    BY <2>1 DEF EndedRunIsOut, EndedPcs
  <2> QED
    BY <2>1, <2>2
<1>3. ASSUME NEW r \in Runs, Teardown(r) \/ Finish(r)
      PROVE  \A s \in Runs : s \in ended => s \in ended' /\ last'[s] = last[s]
  BY <1>3 DEF Teardown, Finish
<1>4. ASSUME NEW c \in Callers, Create(c)
      PROVE  \A s \in Runs : s \in ended => s \in ended' /\ last'[s] = last[s]
  BY <1>4 DEF Create, Goto, EndedRunIsOut
<1>5. ASSUME NEW c \in Callers, ForceDisconnect(c)
      PROVE  \A s \in Runs : s \in ended => s \in ended' /\ last'[s] = last[s]
  BY <1>5 DEF ForceDisconnect
<1>6. ASSUME NEW r \in Runs, RunStep(r) \/ RunLock(r)
      PROVE  \/ UNCHANGED sessVars
             \/ Up(r) \/ ToRetry(r) \/ ToError(r) \/ Reconn(r)
             \/ Teardown(r) \/ Finish(r)
  BY <1>6 DEF RunStep, RunLock, StartBegin, StartEnd, Started, Emit, EmitUp, EmitRetry,
     EmitError, EmitReconn, EmitDown, LostRead, Receive, Cancelled, SelectDisconnect,
     SelectReconnect, SelectCancelled, SelectLost, LostCheck, StopCheck, StopCallBegin,
     StopCallEnd, StopBegin, StopEnd, RestopBegin, RestopEnd, TeardownBegin, TeardownEnd,
     Retry, WaitDisconnect, WaitReconnect, WaitCancelled, WaitTimer
<1>7. ASSUME NEW c \in Callers, Call(c) \/ CallerStep(c) \/ CallerLock(c)
      PROVE  UNCHANGED sessVars \/ Create(c) \/ ForceDisconnect(c)
  BY <1>7 DEF Call, CallerStep, CallerLock, ConnectCheck, Reap, CStopBegin, CStopEnd,
     ReapStopBegin, ReapStopEnd, ReapWait, Launch, DisconnectRead, DisconnectReset,
     DisconnectSend, DisconnectDone, DisconnectTimeout, ForceStopBegin, ForceStopEnd,
     DisconnectEmit, DisconnectReply, ReconnectRead, ReconnectSend, SetAutoReconnect
<1> QED
  BY <1>1, <1>2, <1>3, <1>4, <1>5, <1>6, <1>7 DEF Next, LoseTunnel

\* The history of a session that has ended never changes again, whatever the
\* loop it belonged to still does.
THEOREM EndedSessionsAreFrozen == Spec => SessionFrozen
<1>1. IInv /\ [Next]_vars =>
        [\A r \in Runs : r \in ended => r \in ended' /\ last'[r] = last[r]]_vars
  BY EndedStays
<1> QED
  BY <1>1, Invariance, PTL DEF Spec, SessionFrozen
=============================================================================
