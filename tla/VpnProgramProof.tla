-------------------------- MODULE VpnProgramProof --------------------------
(***************************************************************************)
(* Proofs about the VPN service as the program uses it: one caller at a    *)
(* time (the bridges serialise requests), but any number of connects, any  *)
(* retry limit and any runner.                                             *)
(*                                                                         *)
(* Under any timing the service implements the state machine ConnectionFsm *)
(* and RunningTo answers exactly (first part).  Two concurrent callers     *)
(* break both: a Disconnect that found a stale error resets the state in a *)
(* second critical section, over the Connect that came in between.         *)
(*                                                                         *)
(* Without Reconnect, which is not a method of the API, and unless a       *)
(* runner call returns at the very moment at which a caller gives up on    *)
(* it, service and tunnel agree (second part).  With such a return they    *)
(* do not: the run VpnLateStart.                                           *)
(***************************************************************************)
EXTENDS VpnServiceProof

\* The public methods are called one at a time.
OneCaller == \A c, d \in Callers : c = d

\* Where a loop is before Start has succeeded, or after it decided to retry.
DialPcs == {"new", "start", "starting", "started", "up", "emitRetry", "wait",
            "emitReconn", "restop", "restopping"}

\* A session whose history says running is the live one, in the same state.
HistoryIsHonest == \A r \in Runs : last[r] \in Busy => active = r /\ state = last[r]

\* A live loop that is not on its way out works for a busy service.
WorkingRunIsBusy == \A r \in Runs : active = r /\ pc[r] \notin ExitPcs => state \in Busy

\* A live loop that is dialling is not connected yet.
DiallingIsPending == \A r \in Runs : active = r /\ pc[r] \in DialPcs => state # "connected"

\* The error a Disconnect is about to reset is still the service's.
ResetIsDue == \A c \in Callers : cpc[c] = "dreset" => active = None /\ state = "error"

\* The inductive invariant of the service with one caller.
SInv ==
    /\ IInv
    /\ HistoryIsHonest
    /\ WorkingRunIsBusy
    /\ DiallingIsPending
    /\ ResetIsDue
-----------------------------------------------------------------------------
(* Steps of the loops.                                                     *)

\* A loop that only moves on keeps the invariant, provided that a live one
\* neither comes back from its way out nor starts to dial without a transition.
LEMMA MovesKeep ==
  ASSUME SInv, IInv', NEW r \in Runs, NEW q,
         pc' = [pc EXCEPT ![r] = q],
         UNCHANGED <<state, active, last, cpc>>,
         active = r /\ pc[r] \in ExitPcs => q \in ExitPcs,
         active = r /\ q \in DialPcs => pc[r] \in DialPcs
  PROVE  SInv'
<1> USE DEF SInv, IInv, TypeOK
<1>1. HistoryIsHonest' /\ ResetIsDue'
  BY DEF HistoryIsHonest, ResetIsDue
<1>2. WorkingRunIsBusy'
  BY DEF WorkingRunIsBusy
<1>3. DiallingIsPending'
  BY DEF DiallingIsPending
<1> QED
  BY <1>1, <1>2, <1>3

\* transition keeps the invariant, provided that a state that is not busy is
\* for a loop on its way out, and that a loop about to dial is not connected.
LEMMA TransitionKeepsSInv ==
  ASSUME SInv, IInv', NEW r \in Runs, NEW st \in States, NEW from, NEW emit, NEW next,
         Transition(r, st, from, emit, next),
         emit \notin ExitPcs => st \in Busy,
         emit \in DialPcs => st # "connected"
  PROVE  SInv'
<1> USE DEF SInv, IInv, TypeOK, svcVars, sessVars, callerVars
<1>1. CASE active # r
  BY <1>1, MovesKeep DEF Transition, IfActive, Goto
<1>2. CASE active = r
  <2>1. /\ pc' = [pc EXCEPT ![r] = emit]
        /\ state' = st
        /\ last' = [last EXCEPT ![r] = st]
        /\ UNCHANGED <<active, cpc>>
    BY <1>2 DEF Transition, IfActive, Goto
  <2>2. HistoryIsHonest'
    BY <1>2, <2>1 DEF HistoryIsHonest
  <2>3. WorkingRunIsBusy' /\ DiallingIsPending'
    BY <1>2, <2>1 DEF WorkingRunIsBusy, DiallingIsPending
  <2>4. ResetIsDue'
    BY <1>2, <2>1, ServiceAssumption DEF ResetIsDue
  <2> QED
    BY <2>2, <2>3, <2>4
<1> QED
  BY <1>1, <1>2

\* Every step of a run loop keeps the invariant, with any number of callers.
LEMMA RunKeepsSInv ==
  ASSUME SInv, NEW r \in Runs, RunStep(r) \/ RunLock(r)
  PROVE  SInv'
<1>1. IInv'
  BY RunKeeps DEF SInv
<1>2. ASSUME NEW from, NEW q,
             Goto(r, from, q),
             UNCHANGED <<svcVars, sessVars, callerVars>>,
             active = r /\ from \in ExitPcs => q \in ExitPcs,
             active = r /\ q \in DialPcs => from \in DialPcs
      PROVE  SInv'
  BY <1>1, <1>2, MovesKeep DEF Goto, svcVars, sessVars, callerVars
<1> USE DEF ExitPcs, DialPcs
<1>3. CASE StartBegin(r) \/ StartEnd(r) \/ LostRead(r) \/ SelectLost(r) \/ Retry(r)
  BY <1>3, <1>2 DEF StartBegin, StartEnd, LostRead, SelectLost, Retry
<1>4. CASE Started(r) \/ LostCheck(r) \/ StopCheck(r) \/ WaitTimer(r)
  BY <1>4, <1>2 DEF Started, LostCheck, StopCheck, WaitTimer, IfActive
<1>5. CASE Up(r)
  BY <1>1, <1>5, TransitionKeepsSInv DEF Up, States, Busy
<1>6. CASE ToRetry(r)
  BY <1>1, <1>6, TransitionKeepsSInv DEF ToRetry, States, Busy
<1>7. CASE ToError(r)
  BY <1>1, <1>7, TransitionKeepsSInv DEF ToError, States, Busy
<1>8. CASE Reconn(r)
  BY <1>1, <1>8, TransitionKeepsSInv DEF Reconn, States, Busy
<1>9. CASE EmitUp(r) \/ EmitRetry(r) \/ EmitError(r) \/ EmitReconn(r) \/ EmitDown(r)
  BY <1>9, <1>2 DEF EmitUp, EmitRetry, EmitError, EmitReconn, EmitDown, Emit
<1>10. CASE SelectDisconnect(r) \/ SelectReconnect(r) \/ WaitDisconnect(r) \/ WaitReconnect(r)
  BY <1>10, <1>2 DEF SelectDisconnect, SelectReconnect, WaitDisconnect, WaitReconnect, Receive
<1>11. CASE SelectCancelled(r) \/ WaitCancelled(r)
  BY <1>11, <1>2 DEF SelectCancelled, WaitCancelled, Cancelled
<1>12. CASE StopBegin(r) \/ RestopBegin(r) \/ TeardownBegin(r)
  BY <1>12, <1>2 DEF StopBegin, RestopBegin, TeardownBegin, StopCallBegin
<1>13. CASE StopEnd(r) \/ RestopEnd(r) \/ TeardownEnd(r)
  BY <1>13, <1>2 DEF StopEnd, RestopEnd, TeardownEnd, StopCallEnd
<1>14. CASE Teardown(r)
  <2> USE DEF SInv, IInv, TypeOK, svcVars, sessVars, callerVars
  <2>1. CASE active # r
    BY <1>14, <1>2, <2>1 DEF Teardown, IfActive
  <2>2. CASE active = r
    <3>1. /\ pc[r] = "teardown"
          /\ pc' = [pc EXCEPT ![r] = "tdstop"]
          /\ state' = "disconnected"
          /\ last' = [last EXCEPT ![r] = "disconnected"]
          /\ UNCHANGED <<active, cpc>>
      BY <1>14, <2>2 DEF Teardown, IfActive, Goto, EndedRunIsOut, EndedPcs
    <3>2. HistoryIsHonest'
      BY <2>2, <3>1 DEF HistoryIsHonest, Busy
    <3>3. WorkingRunIsBusy' /\ DiallingIsPending'
      BY <2>2, <3>1 DEF WorkingRunIsBusy, DiallingIsPending
    <3>4. ResetIsDue'
      BY <2>2, <3>1, ServiceAssumption DEF ResetIsDue
    <3> QED
      BY <1>1, <3>2, <3>3, <3>4
  <2> QED
    BY <2>1, <2>2
<1>15. CASE Finish(r)
  <2> USE DEF SInv, IInv, TypeOK, svcVars, sessVars, callerVars
  <2>1. /\ pc[r] = "finish"
        /\ pc' = [pc EXCEPT ![r] = "done"]
        /\ active' = IF active = r THEN None ELSE active
        /\ UNCHANGED <<state, last, cpc>>
    BY <1>15 DEF Finish, Goto
  <2>2. active = r => state \notin Busy
    BY <2>1 DEF ExitingRunIsIdle
  <2>3. HistoryIsHonest'
    BY <2>1, <2>2 DEF HistoryIsHonest
  <2>4. WorkingRunIsBusy' /\ DiallingIsPending'
    BY <2>1, ServiceAssumption DEF WorkingRunIsBusy, DiallingIsPending
  <2>5. ResetIsDue'
    BY <2>1, ServiceAssumption DEF ResetIsDue
  <2> QED
    BY <1>1, <2>3, <2>4, <2>5
<1> QED
  BY <1>3, <1>4, <1>5, <1>6, <1>7, <1>8, <1>9, <1>10, <1>11, <1>12, <1>13, <1>14, <1>15
     DEF RunStep, RunLock

-----------------------------------------------------------------------------
(* Steps of the caller.                                                    *)

\* Every step of the only caller keeps the invariant.
LEMMA CallerKeepsSInv ==
  ASSUME OneCaller, SInv, NEW c \in Callers, Call(c) \/ CallerStep(c) \/ CallerLock(c)
  PROVE  SInv'
<1> USE DEF SInv, IInv, TypeOK, svcVars, sessVars, callerVars
<1>1. IInv'
  BY CallerKeeps
<1>2. ASSUME NEW q, cpc' = [cpc EXCEPT ![c] = q],
             q = "dreset" => active = None /\ state = "error",
             UNCHANGED <<state, active, last, pc>>
      PROVE  SInv'
  BY <1>1, <1>2 DEF HistoryIsHonest, WorkingRunIsBusy, DiallingIsPending, ResetIsDue
<1>3. CASE ConnectCheck(c) \/ ReconnectRead(c)
  BY <1>3, <1>2 DEF ConnectCheck, ReconnectRead, CGoto
<1>4. CASE DisconnectRead(c)
  <2>1. active = None /\ state # "disconnected" => state = "error"
    BY DEF BusyHasLiveLoop, States, Busy
  <2> QED
    BY <1>4, <1>2, <2>1 DEF DisconnectRead, CGoto
<1>5. CASE SetAutoReconnect(c)
  BY <1>1, <1>5 DEF SetAutoReconnect, HistoryIsHonest, WorkingRunIsBusy, DiallingIsPending,
     ResetIsDue
<1>6. CASE Reap(c) \/ ReapWait(c) \/ DisconnectDone(c) \/ DisconnectTimeout(c) \/ DisconnectReply(c)
           \/ DisconnectSend(c) \/ ReconnectSend(c) \/ DisconnectEmit(c)
  BY <1>6, <1>2 DEF Reap, ReapWait, DisconnectDone, DisconnectTimeout, DisconnectReply,
     DisconnectSend, ReconnectSend, DisconnectEmit, CGoto
<1>7. CASE ReapStopBegin(c) \/ ForceStopBegin(c) \/ ReapStopEnd(c) \/ ForceStopEnd(c)
  BY <1>7, <1>2 DEF ReapStopBegin, ForceStopBegin, ReapStopEnd, ForceStopEnd,
     CStopBegin, CStopEnd, CGoto
<1>8. CASE Create(c)
  <2>1. CASE state \in Busy /\ UNCHANGED <<svcVars, pc, sessVars, crun>>
    BY <1>8, <2>1, <1>2 DEF Create, CGoto
  <2>2. CASE state \notin Busy
    <3>1. PICK r \in Runs : /\ Goto(r, "unused", "new")
                            /\ active' = r
                            /\ last' = [last EXCEPT ![r] = "connecting"]
      BY <1>8, <2>2 DEF Create
    <3>2. /\ cpc' = [cpc EXCEPT ![c] = "launch"]
          /\ pc' = [pc EXCEPT ![r] = "new"]
          /\ state' = "connecting"
      BY <1>8, <2>2, <3>1 DEF Create, CGoto, Goto
    <3>3. \A s \in Runs : last[s] \notin Busy
      BY <2>2 DEF HistoryIsHonest
    <3>4. HistoryIsHonest'
      BY <3>1, <3>2, <3>3 DEF HistoryIsHonest
    <3>5. WorkingRunIsBusy' /\ DiallingIsPending'
      BY <3>1, <3>2 DEF WorkingRunIsBusy, DiallingIsPending, Busy
    <3>6. ResetIsDue'
      BY <3>2 DEF ResetIsDue, OneCaller
    <3> QED
      BY <1>1, <3>4, <3>5, <3>6
  <2> QED
    BY <1>8, <2>1, <2>2 DEF Create
<1>9. CASE Launch(c)
  <2>1. /\ cpc[c] = "launch"
        /\ cpc' = [cpc EXCEPT ![c] = "idle"]
        /\ pc' = [pc EXCEPT ![crun[c]] = "start"]
        /\ UNCHANGED <<state, active, last>>
    BY <1>9 DEF Launch, CGoto
  <2>2. crun[c] \in Runs /\ pc[crun[c]] = "new"
    BY <2>1 DEF LaunchesAreOwn
  <2>3. HistoryIsHonest' /\ ResetIsDue'
    BY <2>1 DEF HistoryIsHonest, ResetIsDue
  <2>4. WorkingRunIsBusy' /\ DiallingIsPending'
    BY <2>1, <2>2 DEF WorkingRunIsBusy, DiallingIsPending, ExitPcs, DialPcs
  <2> QED
    BY <1>1, <2>3, <2>4
<1>10. CASE DisconnectReset(c)
  <2>1. /\ cpc[c] = "dreset"
        /\ cpc' = [cpc EXCEPT ![c] = "emitOff"]
        /\ state' = "disconnected"
        /\ UNCHANGED <<active, last, pc>>
    BY <1>10 DEF DisconnectReset, CGoto
  <2>2. active = None
    BY <2>1 DEF ResetIsDue
  <2>3. HistoryIsHonest' /\ WorkingRunIsBusy' /\ DiallingIsPending'
    BY <2>1, <2>2, ServiceAssumption DEF HistoryIsHonest, WorkingRunIsBusy, DiallingIsPending
  <2>4. ResetIsDue'
    BY <2>1 DEF ResetIsDue, OneCaller
  <2> QED
    BY <1>1, <2>3, <2>4
<1>11. CASE ForceDisconnect(c)
  <2>1. CASE active = None
    BY <1>11, <1>2, <2>1 DEF ForceDisconnect, CGoto
  <2>2. CASE active # None
    <3>1. /\ cpc' = [cpc EXCEPT ![c] = "fstop"]
          /\ state' = "disconnected"
          /\ active' = None
          /\ last' = IF active \in ended THEN last ELSE [last EXCEPT ![active] = "disconnected"]
          /\ pc' = pc
      BY <1>11, <2>2 DEF ForceDisconnect, CGoto
    <3>2. active \in ended => state \notin Busy
      BY DEF EndedRunIsOut, ExitingRunIsIdle, EndedPcs, ExitPcs
    <3>3. \A s \in Runs : last'[s] \notin Busy
      BY <2>2, <3>1, <3>2 DEF HistoryIsHonest, Busy
    <3>4. HistoryIsHonest' /\ WorkingRunIsBusy' /\ DiallingIsPending'
      BY <3>1, <3>3, ServiceAssumption DEF HistoryIsHonest, WorkingRunIsBusy, DiallingIsPending
    <3>5. ResetIsDue'
      BY <3>1 DEF ResetIsDue, OneCaller
    <3> QED
      BY <1>1, <3>4, <3>5
  <2> QED
    BY <2>1, <2>2
<1> QED
  BY <1>3, <1>4, <1>5, <1>6, <1>7, <1>8, <1>9, <1>10, <1>11 DEF Call, CallerStep, CallerLock
-----------------------------------------------------------------------------
(* The theorems.                                                           *)

\* With one caller the invariant is inductive.
LEMMA SInvInductive ==
  ASSUME OneCaller
  PROVE  SInv /\ [Next]_vars => SInv'
<1> SUFFICES ASSUME SInv, [Next]_vars PROVE SInv'
  OBVIOUS
<1>1. ASSUME NEW r \in Runs, RunStep(r) \/ RunLock(r)
      PROVE  SInv'
  BY <1>1, RunKeepsSInv
<1>2. ASSUME NEW c \in Callers, Call(c) \/ CallerStep(c) \/ CallerLock(c)
      PROVE  SInv'
  BY <1>2, CallerKeepsSInv
<1>3. CASE LoseTunnel \/ UNCHANGED vars
  <2>1. IInv'
    BY Inductive DEF SInv
  <2>2. UNCHANGED <<state, active, pc, last, cpc>>
    BY <1>3 DEF LoseTunnel, vars, svcVars, sessVars, callerVars
  <2> QED
    BY <2>1, <2>2 DEF SInv, HistoryIsHonest, WorkingRunIsBusy, DiallingIsPending, ResetIsDue
<1> QED
  BY <1>1, <1>2, <1>3 DEF Next

\* The initial state satisfies the invariant.
LEMMA SInvInit == Init => SInv
<1> SUFFICES ASSUME Init PROVE SInv
  OBVIOUS
<1>1. HistoryIsHonest /\ WorkingRunIsBusy /\ DiallingIsPending /\ ResetIsDue
  BY ServiceAssumption DEF Init, HistoryIsHonest, WorkingRunIsBusy, DiallingIsPending,
     ResetIsDue, Busy
<1> QED
  BY <1>1, InitInv DEF SInv

\* What RunningTo reads out of the session's history, "running" or not, is the
\* truth at every moment: a server in use is never edited or deleted, and one
\* that is not in use never refused, for as long as calls are serialised.
THEOREM RunningToExact ==
  ASSUME OneCaller
  PROVE  Spec => []RunningToIsExact
<1>1. SInv => RunningToIsExact
  BY DEF SInv, IInv, TypeOK, BusyHasLiveLoop, HistoryIsHonest, RunningToIsExact
<1> QED
  BY <1>1, SInvInit, SInvInductive, PTL DEF Spec

\* A step of the service is a step of the abstract state machine, or leaves
\* the state alone.
LEMMA StepIsFsmStep ==
  ASSUME SInv, Next
  PROVE  Fsm!Next \/ state' = state
<1> USE DEF SInv, IInv, TypeOK, svcVars, Busy, States
<1> USE DEF Fsm!Next, Fsm!Move, Fsm!Busy, Fsm!Connect, Fsm!Established, Fsm!Retry, Fsm!GiveUp,
            Fsm!LostForGood, Fsm!Disconnect
<1>1. ASSUME NEW r \in Runs, Up(r)
      PROVE  Fsm!Next \/ state' = state
  BY <1>1 DEF Up, Transition, IfActive, Goto, WorkingRunIsBusy, DiallingIsPending, ExitPcs, DialPcs
<1>2. ASSUME NEW r \in Runs, ToRetry(r) \/ Reconn(r)
      PROVE  Fsm!Next \/ state' = state
  BY <1>2 DEF ToRetry, Reconn, Transition, IfActive, Goto, WorkingRunIsBusy, ExitPcs
<1>3. ASSUME NEW r \in Runs, ToError(r)
      PROVE  Fsm!Next \/ state' = state
  BY <1>3 DEF ToError, Transition, IfActive, Goto, WorkingRunIsBusy, ExitPcs
<1>4. ASSUME NEW r \in Runs, Teardown(r)
      PROVE  Fsm!Next \/ state' = state
  BY <1>4 DEF Teardown, IfActive, Goto, WorkingRunIsBusy, ExitPcs
<1>5. ASSUME NEW c \in Callers, Create(c)
      PROVE  Fsm!Next \/ state' = state
  BY <1>5 DEF Create
<1>6. ASSUME NEW c \in Callers, DisconnectReset(c)
      PROVE  Fsm!Next \/ state' = state
  BY <1>6 DEF DisconnectReset, CGoto, ResetIsDue
<1>7. ASSUME NEW c \in Callers, ForceDisconnect(c)
      PROVE  Fsm!Next \/ state' = state
  BY <1>7 DEF ForceDisconnect
<1>8. ASSUME NEW r \in Runs, RunStep(r) \/ RunLock(r)
      PROVE  \/ state' = state
             \/ Up(r) \/ ToRetry(r) \/ ToError(r) \/ Reconn(r) \/ Teardown(r)
  BY <1>8 DEF RunStep, RunLock, StartBegin, StartEnd, Started, Emit, EmitUp, EmitRetry,
     EmitError, EmitReconn, EmitDown, LostRead, Receive, Cancelled, SelectDisconnect,
     SelectReconnect, SelectCancelled, SelectLost, LostCheck, StopCheck, StopCallBegin,
     StopCallEnd, StopBegin, StopEnd, RestopBegin, RestopEnd, TeardownBegin, TeardownEnd,
     Retry, WaitDisconnect, WaitReconnect, WaitCancelled, WaitTimer, Finish
<1>9. ASSUME NEW c \in Callers, Call(c) \/ CallerStep(c) \/ CallerLock(c)
      PROVE  state' = state \/ Create(c) \/ DisconnectReset(c) \/ ForceDisconnect(c)
  BY <1>9 DEF Call, CallerStep, CallerLock, ConnectCheck, Reap, CStopBegin, CStopEnd,
     ReapStopBegin, ReapStopEnd, ReapWait, Launch, DisconnectRead,
     DisconnectSend, DisconnectDone, DisconnectTimeout, ForceStopBegin, ForceStopEnd,
     DisconnectEmit, DisconnectReply, ReconnectRead, ReconnectSend, SetAutoReconnect
<1> QED
  BY <1>1, <1>2, <1>3, <1>4, <1>5, <1>6, <1>7, <1>8, <1>9 DEF Next, LoseTunnel

\* The service implements the documented state machine, however many times it
\* is connected and however late its loops and timeouts are.
THEOREM ImplementsFsm ==
  ASSUME OneCaller
  PROVE  Spec => FollowsFsm
<1>1. Init => Fsm!Init
  BY DEF Init, Fsm!Init
<1>2. SInv /\ [Next]_vars => [Fsm!Next]_state
  BY StepIsFsmStep DEF vars, svcVars
<1> QED
  BY <1>1, <1>2, SInvInit, SInvInductive, PTL DEF Spec, FollowsFsm, Fsm!Spec
-----------------------------------------------------------------------------
(* The service and its tunnel: definitions of the second part.             *)
\* The steps of a loop that holds m.mu, and of a caller that does.
HoldPcs  == {"starting", "stopping", "tdstopping"}
CHoldPcs == {"reapstopping", "fstopping"}

\* The steps of a loop in a tunnel call or about to make one.
TunnelPcs == HoldPcs \cup {"start", "stop", "tdstop"}

\* The steps of a live loop with a tunnel that may be up.
LitPcs == {"started", "up", "emitUp", "lostRead", "select", "lostCheck",
           "stopCheck", "stop", "stopping", "teardown", "tdstop", "tdstopping"}

\* The steps of a loop that was told to end.
DownPcs == {"teardown", "tdstop", "tdstopping", "emitDown"}

\* ... and that is not going to wait for anything else any more.
ObeyPcs == DownPcs \cup {"finish", "done"}

\* The steps of a loop that goes from a lost tunnel to the next attempt.
LossPcs == {"lostCheck", "stopCheck", "stop", "stopping", "retry", "toRetry", "toError"}

\* The steps of a loop whose state has not been published yet.
EmitPcs == {"new", "emitUp", "emitRetry", "emitError", "tdstop", "tdstopping", "emitDown"}

\* Reconnect is not called.
NothingReconnects ==
    /\ \A r \in Runs : cmds[r] # "reconnect"
    /\ \A r \in Runs : pc[r] \notin {"reconn", "emitReconn", "restop", "restopping"}
    /\ \A c \in Callers : cpc[c] \notin {"connect", "rsend"}

\* m.mu is held by the goroutine that is inside a tunnel call.
LockIsHeld ==
    /\ \A r \in Runs : mlock = r <=> pc[r] \in HoldPcs
    /\ \A c \in Callers : mlock = c <=> cpc[c] \in CHoldPcs

\* A loop that is not the live one is in no tunnel call, unless it was given up
\* on inside one and the Stop of forceDisconnect is waiting behind it.
StaleRunIsWaitedFor ==
    \A r \in Runs : active # r /\ pc[r] \in TunnelPcs =>
        mlock = r /\ \E c \in Callers : cpc[c] = "fstop"

\* The live loop has not finished; a run never used was told nothing.
LiveRunIsAlive ==
    /\ \A r \in Runs : active = r => pc[r] # "done"
    /\ \A r \in Runs : pc[r] = "unused" => cmds[r] = None /\ r \notin cancelled
    /\ \A c \in Callers : crun[c] # None => pc[crun[c]] # "unused"

\* What a call in progress knows of the live run.
CallerKnows ==
    \A c \in Callers :
        /\ cpc[c] \in {"dsend", "dwait"} => active \in {crun[c], None}
        /\ cpc[c] = "dwait" => cmds[crun[c]] = "disconnect" \/ pc[crun[c]] \in ObeyPcs
        /\ cpc[c] = "force" =>
              Timing = "slow" /\ crun[c] \in Runs /\ active = crun[c] /\ mlock = crun[c]
        /\ cpc[c] = "launch" => active = crun[c]
        /\ cpc[c] \in {"fstop", "fstopping", "emitOff", "dreply"} => active = None
        /\ cpc[c] \in {"fstop", "fstopping", "emitOff"} => state = "disconnected"
        /\ cpc[c] \in {"reap", "reapstop", "reapstopping", "reapwait"} => active \in {crun[c], None}
        /\ cpc[c] = "reap" => active = None \/ pc[active] \in {"emitError", "finish"}
        /\ cpc[c] \in {"reapstop", "reapstopping", "reapwait", "create"} =>
              active = None \/ active \in cancelled

\* The live loop is ended by the caller that waits for it, and cancelled only
\* when it is on its way out anyway.
EndIsAskedFor ==
    \A r \in Runs : active = r =>
        /\ cmds[r] = "disconnect" \/ pc[r] \in DownPcs =>
              \E c \in Callers : cpc[c] \in {"dwait", "force"} /\ crun[c] = r
        /\ r \in cancelled => pc[r] \in {"emitError", "finish"}

\* The tunnel is down and forgotten, unless the live loop is at a step where it
\* may be up or a forced Stop is due.
DarkOtherwise ==
    \/ engine = "down" /\ profile = None
    \/ active # None /\ pc[active] \in LitPcs
    \/ \E c \in Callers : cpc[c] \in {"fstop", "fstopping"}

\* A started tunnel is up or lost, the loop selects on its loss, and leaves
\* the connected state behind only once it is lost.
StartedIsUpOrLost ==
    \A r \in Runs : active = r =>
        /\ pc[r] = "up" \/ (pc[r] = "started" /\ res[r] = "ok") =>
              (profile = r /\ engine = "up") \/ conn \in closed
        /\ pc[r] = "select" => chan[r] = conn
        /\ state = "connected" /\ pc[r] \in LossPcs => conn \in closed

\* The event a live loop is about to publish is the service's state.
EventsAreTrue ==
    \A r \in Runs : active = r =>
        /\ pc[r] = "new" => state = "connecting"
        /\ pc[r] = "emitUp" => state = "connected"
        /\ pc[r] = "emitRetry" => state = "reconnecting"
        /\ pc[r] = "emitError" => state = "error"
        /\ pc[r] \in {"tdstop", "tdstopping", "emitDown"} => state = "disconnected"

\* As long as no loop was cancelled only the live one runs, and the last event
\* is current or the next one is due.
EventIsDue ==
    cancelled = {} =>
        /\ \A r \in Runs : active # r => pc[r] \in {"unused", "done"}
        /\ \/ ui = state
           \/ active # None /\ pc[active] \in EmitPcs
           \/ \E c \in Callers : cpc[c] = "emitOff"

\* The inductive invariant of the service and its tunnel.
TInv ==
    /\ SInv
    /\ NothingReconnects
    /\ LockIsHeld
    /\ StaleRunIsWaitedFor
    /\ LiveRunIsAlive
    /\ CallerKnows
    /\ EndIsAskedFor
    /\ DarkOtherwise
    /\ ConnectedIsUp
    /\ StartedIsUpOrLost
    /\ EventsAreTrue
    /\ EventIsDue
-----------------------------------------------------------------------------
(* Steps of the loops, and the tunnel.                                     *)

\* A loop that moves on outside of tunnel calls and transitions keeps the
\* invariant.
LEMMA MoveKeepsT ==
  ASSUME TInv, SInv', NEW r \in Runs, NEW q,
         pc' = [pc EXCEPT ![r] = q],
         UNCHANGED <<tunnelVars, state, active, cancelled, cpc, crun>>,
         cmds' = cmds \/ (q \in ObeyPcs /\ cmds' = [cmds EXCEPT ![r] = None]),
         pc[r] \in ObeyPcs => q \in ObeyPcs,
         \A s \in Runs : s # r => res'[s] = res[s] /\ chan'[s] = chan[s],
         pc[r] \notin HoldPcs \cup {"unused", "done"},
         q \notin HoldPcs \cup {"unused", "done", "new", "reconn", "emitReconn", "restop",
                             "restopping"},
         ui' = ui \/ ui' = state \/ active # r,
         active # r => q \notin TunnelPcs,
         active = r =>
           /\ q \in DownPcs => pc[r] \in DownPcs \/ cmds[r] = "disconnect"
           /\ pc[r] \in {"emitError", "finish"} => q = "finish"
           /\ pc[r] \in LitPcs => q \in LitPcs
           /\ q \notin EmitPcs \cup {"started"}
           /\ q = "up" => pc[r] = "started" /\ res[r] = "ok"
           /\ q = "select" => chan'[r] = conn
           /\ q \in LossPcs => pc[r] \in LossPcs \cup {"started"} \/ conn \in closed
           /\ pc[r] \in EmitPcs => ui' = state
  PROVE  TInv'
<1>0. /\ pc \in [Runs -> RunPcs]
      /\ cmds \in [Runs -> {None, "disconnect", "reconnect"}]
      /\ cpc \in [Callers -> CallerPcs]
      /\ crun \in [Callers -> Runs \cup {None}]
      /\ active \in Runs \cup {None}
      /\ None \notin Runs \cup {"disconnect", "reconnect"}
  BY ServiceAssumption DEF TInv, SInv, IInv, TypeOK
<1>1. NothingReconnects'
  BY <1>0 DEF TInv, NothingReconnects
<1>2. LockIsHeld'
  BY <1>0 DEF TInv, LockIsHeld, tunnelVars
<1>3. StaleRunIsWaitedFor'
  BY <1>0 DEF TInv, StaleRunIsWaitedFor, tunnelVars, TunnelPcs
<1>4. LiveRunIsAlive'
  BY <1>0 DEF TInv, LiveRunIsAlive
<1>5. CallerKnows'
  <2>1. \A c \in Callers : cpc[c] = "dwait" => crun[c] \in Runs
    BY DEF TInv, SInv, IInv, CallersHoldRuns
  <2> QED
    BY <1>0, <2>1 DEF TInv, CallerKnows, tunnelVars
<1>6. EndIsAskedFor'
  BY <1>0 DEF TInv, EndIsAskedFor
<1>7. DarkOtherwise'
  BY <1>0 DEF TInv, DarkOtherwise, tunnelVars
<1>8. ConnectedIsUp'
  BY <1>0 DEF TInv, ConnectedIsUp, tunnelVars
<1>9. StartedIsUpOrLost'
  <2>1. state = "connected" /\ active = r => pc[r] # "started"
    BY DEF TInv, SInv, DiallingIsPending, DialPcs
  <2> QED
    BY <1>0, <2>1 DEF TInv, StartedIsUpOrLost, tunnelVars, EmitPcs
<1>10. EventsAreTrue'
  BY <1>0 DEF TInv, EventsAreTrue, EmitPcs
<1>11. EventIsDue'
  BY <1>0 DEF TInv, EventIsDue
<1> QED
  BY <1>1, <1>2, <1>3, <1>4, <1>5, <1>6, <1>7, <1>8, <1>9, <1>10, <1>11 DEF TInv

\* A tunnel call begins: only the live loop gets there.
LEMMA BeginKeepsT ==
  ASSUME TInv, SInv', NEW r \in Runs, NEW from, NEW in,
         \/ from = "start" /\ in = "starting"
         \/ from = "stop" /\ in = "stopping"
         \/ from = "tdstop" /\ in = "tdstopping",
         Goto(r, from, in), Lock(r),
         UNCHANGED <<state, active, cancelled, cpc, crun, cmds, res, chan, ui>>
  PROVE  TInv'
<1>0. /\ pc \in [Runs -> RunPcs]
      /\ cpc \in [Callers -> CallerPcs]
      /\ crun \in [Callers -> Runs \cup {None}]
      /\ active \in Runs \cup {None}
      /\ None \notin Runs
      /\ Free \notin Runs \cup Callers
      /\ Runs \cap Callers = {}
  BY ServiceAssumption DEF TInv, SInv, IInv, TypeOK
<1>1. /\ pc[r] = from
      /\ pc' = [pc EXCEPT ![r] = in]
      /\ mlock = Free
      /\ mlock' = r
      /\ UNCHANGED <<profile, engine, conn, closed>>
  BY DEF Goto, Lock
<1>2. active = r
  BY <1>0, <1>1 DEF TInv, StaleRunIsWaitedFor, TunnelPcs, HoldPcs
<1> USE DEF TInv
<1>3. NothingReconnects'
  BY <1>0, <1>1 DEF NothingReconnects
<1>4. LockIsHeld'
  <2>1. \A s \in Runs : mlock' = s <=> pc'[s] \in HoldPcs
    BY <1>0, <1>1 DEF LockIsHeld, HoldPcs
  <2>2. \A c \in Callers : mlock' = c <=> cpc'[c] \in CHoldPcs
    BY <1>0, <1>1 DEF LockIsHeld
  <2> QED
    BY <2>1, <2>2 DEF LockIsHeld
<1>5. StaleRunIsWaitedFor'
  BY <1>0, <1>1, <1>2 DEF StaleRunIsWaitedFor
<1>6. LiveRunIsAlive'
  BY <1>0, <1>1 DEF LiveRunIsAlive
<1>7. CallerKnows'
  BY <1>0, <1>1, <1>2 DEF CallerKnows, ObeyPcs, DownPcs
<1>8. EndIsAskedFor'
  BY <1>0, <1>1, <1>2 DEF EndIsAskedFor, DownPcs
<1>9. DarkOtherwise'
  BY <1>0, <1>1, <1>2 DEF DarkOtherwise, LitPcs
<1>10. ConnectedIsUp' /\ StartedIsUpOrLost'
  <2>1. state = "connected" => pc[r] # "start"
    BY <1>2 DEF SInv, DiallingIsPending, DialPcs
  <2>2. ConnectedIsUp'
    BY <1>0, <1>1, <1>2 DEF ConnectedIsUp
  <2>3. StartedIsUpOrLost'
    BY <1>0, <1>1, <1>2, <2>1 DEF StartedIsUpOrLost, LossPcs
  <2> QED
    BY <2>2, <2>3
<1>11. EventsAreTrue' /\ EventIsDue'
  BY <1>0, <1>1, <1>2 DEF EventsAreTrue, EventIsDue, EmitPcs
<1> QED
  BY <1>3, <1>4, <1>5, <1>6, <1>7, <1>8, <1>9, <1>10, <1>11

\* A Start returns: to the live loop, which found the tunnel down, or to one
\* that the Stop of forceDisconnect is waiting for.
LEMMA StartEndKeepsT ==
  ASSUME TInv, SInv', NEW r \in Runs, Timing \in {"fast", "slow"}, StartEnd(r)
  PROVE  TInv'
<1> USE DEF TInv
<1>0. /\ pc \in [Runs -> RunPcs]
      /\ cpc \in [Callers -> CallerPcs]
      /\ crun \in [Callers -> Runs \cup {None}]
      /\ res \in [Runs -> {"ok", "fail", "already", "lost"}]
      /\ active \in Runs \cup {None}
      /\ None \notin Runs
      /\ Free \notin Runs \cup Callers
      /\ Runs \cap Callers = {}
  BY ServiceAssumption DEF SInv, IInv, TypeOK
<1>1. PICK o \in StartOutcomes : Start(r, o) /\ res' = [res EXCEPT ![r] = StartResult(o)]
  BY DEF StartEnd
<1>2. /\ pc[r] = "starting"
      /\ pc' = [pc EXCEPT ![r] = "started"]
      /\ mlock = r
      /\ mlock' = Free
      /\ closed' = closed
      /\ UNCHANGED <<state, active, cancelled, cpc, crun, cmds, chan, ui>>
  BY <1>1 DEF StartEnd, Goto, Start, svcVars, callerVars
<1>3. \A c \in Callers : cpc[c] # "force"
  BY DEF StartEnd, CanReturn, CallerKnows
<1>4. active # r => active = None /\ \E c \in Callers : cpc[c] = "fstop"
  BY <1>2 DEF StaleRunIsWaitedFor, TunnelPcs, HoldPcs, CallerKnows
<1>5. active = r => /\ state # "connected"
                    /\ res'[r] = "ok" => profile' = r /\ engine' = "up"
  <2> SUFFICES ASSUME active = r
               PROVE  /\ state # "connected"
                      /\ res'[r] = "ok" => profile' = r /\ engine' = "up"
    OBVIOUS
  <2>1. engine = "down" /\ profile = None
    BY <1>0, <1>2 DEF DarkOtherwise, LitPcs, CallerKnows
  <2>2. res'[r] = "ok" => o = "ok"
    BY <1>0, <1>1, <2>1 DEF StartResult, AlreadyRunning
  <2>3. o = "ok" => profile' = r /\ engine' = "up"
    BY <1>1, <2>1 DEF Start, AlreadyRunning
  <2>4. state # "connected"
    BY <1>2 DEF SInv, DiallingIsPending, DialPcs
  <2> QED
    BY <2>2, <2>3, <2>4
<1>6. NothingReconnects'
  BY <1>0, <1>2 DEF NothingReconnects
<1>7. LockIsHeld'
  <2>1. \A s \in Runs : mlock' = s <=> pc'[s] \in HoldPcs
    BY <1>0, <1>2 DEF LockIsHeld, HoldPcs
  <2>2. \A c \in Callers : mlock' = c <=> cpc'[c] \in CHoldPcs
    BY <1>0, <1>2 DEF LockIsHeld
  <2> QED
    BY <2>1, <2>2 DEF LockIsHeld
<1>8. StaleRunIsWaitedFor'
  BY <1>0, <1>2 DEF StaleRunIsWaitedFor, TunnelPcs, HoldPcs
<1>9. LiveRunIsAlive'
  BY <1>0, <1>2 DEF LiveRunIsAlive
<1>10. CallerKnows'
  <2>1. \A c \in Callers : cpc[c] = "dwait" => crun[c] \in Runs
    BY DEF SInv, IInv, CallersHoldRuns
  <2> QED
    BY <1>0, <1>2, <1>3, <2>1 DEF CallerKnows, ObeyPcs, DownPcs
<1>11. EndIsAskedFor'
  BY <1>0, <1>2 DEF EndIsAskedFor, DownPcs
<1>12. DarkOtherwise'
  BY <1>0, <1>2, <1>4 DEF DarkOtherwise, LitPcs
<1>13. ConnectedIsUp'
  BY <1>0, <1>2, <1>4, <1>5 DEF ConnectedIsUp, SInv, IInv, BusyHasLiveLoop, Busy
<1>14. StartedIsUpOrLost'
  BY <1>0, <1>2, <1>4, <1>5 DEF StartedIsUpOrLost
<1>15. EventsAreTrue' /\ EventIsDue'
  BY <1>0, <1>2 DEF EventsAreTrue, EventIsDue, EmitPcs
<1> QED
  BY <1>6, <1>7, <1>8, <1>9, <1>10, <1>11, <1>12, <1>13, <1>14, <1>15

\* The Stop before a retry or of a teardown returns.
LEMMA StopEndKeepsT ==
  ASSUME TInv, SInv', NEW r \in Runs, Timing \in {"fast", "slow"}, StopEnd(r) \/ TeardownEnd(r)
  PROVE  TInv'
<1> USE DEF TInv
<1>0. /\ pc \in [Runs -> RunPcs]
      /\ cpc \in [Callers -> CallerPcs]
      /\ crun \in [Callers -> Runs \cup {None}]
      /\ active \in Runs \cup {None}
      /\ None \notin Runs
      /\ Free \notin Runs \cup Callers
      /\ Runs \cap Callers = {}
  BY ServiceAssumption DEF SInv, IInv, TypeOK
<1>1. PICK q : /\ \/ pc[r] = "stopping" /\ q = "retry"
                  \/ pc[r] = "tdstopping" /\ q = "emitDown"
               /\ pc' = [pc EXCEPT ![r] = q]
  BY DEF StopEnd, TeardownEnd, StopCallEnd, Goto
<1>2. /\ mlock = r
      /\ mlock' = Free
      /\ engine' = "down"
      /\ profile' = None
      /\ UNCHANGED <<conn, closed, state, active, cancelled, cpc, crun, cmds, res, chan, ui>>
  BY DEF StopEnd, TeardownEnd, StopCallEnd, Stop, svcVars, callerVars
<1>3. \A c \in Callers : cpc[c] # "force"
  BY DEF StopEnd, TeardownEnd, StopCallEnd, CanReturn, CallerKnows
<1>4. active # r => active = None
  BY <1>1, <1>2 DEF StaleRunIsWaitedFor, TunnelPcs, HoldPcs, CallerKnows
<1>6. NothingReconnects'
  BY <1>0, <1>1, <1>2 DEF NothingReconnects
<1>7. LockIsHeld'
  <2>1. \A s \in Runs : mlock' = s <=> pc'[s] \in HoldPcs
    BY <1>0, <1>1, <1>2 DEF LockIsHeld, HoldPcs
  <2>2. \A c \in Callers : mlock' = c <=> cpc'[c] \in CHoldPcs
    BY <1>0, <1>2 DEF LockIsHeld
  <2> QED
    BY <2>1, <2>2 DEF LockIsHeld
<1>8. StaleRunIsWaitedFor'
  BY <1>0, <1>1, <1>2 DEF StaleRunIsWaitedFor, TunnelPcs, HoldPcs
<1>9. LiveRunIsAlive'
  BY <1>0, <1>1, <1>2 DEF LiveRunIsAlive
<1>10. CallerKnows'
  <2>1. \A c \in Callers : cpc[c] = "dwait" => crun[c] \in Runs
    BY DEF SInv, IInv, CallersHoldRuns
  <2> QED
    BY <1>0, <1>1, <1>2, <1>3, <2>1 DEF CallerKnows, ObeyPcs, DownPcs
<1>11. EndIsAskedFor'
  BY <1>0, <1>1, <1>2 DEF EndIsAskedFor, DownPcs
<1>12. DarkOtherwise'
  BY <1>2 DEF DarkOtherwise
<1>13. ConnectedIsUp'
  <2>1. state = "connected" => active = r /\ pc[r] = "stopping"
    BY <1>1, <1>4 DEF SInv, IInv, BusyHasLiveLoop, Busy, EventsAreTrue
  <2>2. state = "connected" => conn \in closed
    BY <2>1 DEF StartedIsUpOrLost, LossPcs
  <2> QED
    BY <1>2, <2>2 DEF ConnectedIsUp
<1>14. StartedIsUpOrLost'
  BY <1>0, <1>1, <1>2, <1>4 DEF StartedIsUpOrLost, LossPcs
<1>15. EventsAreTrue' /\ EventIsDue'
  BY <1>0, <1>1, <1>2 DEF EventsAreTrue, EventIsDue, EmitPcs
<1> QED
  BY <1>6, <1>7, <1>8, <1>9, <1>10, <1>11, <1>12, <1>13, <1>14, <1>15

\* The live loop sets the state, in transition or in teardown.
LEMMA StateKeepsT ==
  ASSUME TInv, SInv', NEW r \in Runs, NEW q, NEW st,
         active = r,
         \/ pc[r] = "up" /\ q = "emitUp" /\ st = "connected"
         \/ pc[r] = "toRetry" /\ q = "emitRetry" /\ st = "reconnecting"
         \/ pc[r] = "toError" /\ q = "emitError" /\ st = "error"
         \/ pc[r] = "teardown" /\ q = "tdstop" /\ st = "disconnected",
         pc' = [pc EXCEPT ![r] = q],
         state' = st,
         UNCHANGED <<tunnelVars, active, cancelled, cpc, crun, cmds, res, chan, ui>>
  PROVE  TInv'
<1> USE DEF TInv
<1>0. /\ pc \in [Runs -> RunPcs]
      /\ cpc \in [Callers -> CallerPcs]
      /\ crun \in [Callers -> Runs \cup {None}]
      /\ active \in Runs \cup {None}
      /\ None \notin Runs
  BY ServiceAssumption DEF SInv, IInv, TypeOK
<1>1. UNCHANGED <<mlock, profile, engine, conn, closed>>
  BY DEF tunnelVars
<1>2. NothingReconnects'
  BY <1>0 DEF NothingReconnects
<1>3. LockIsHeld'
  BY <1>0, <1>1 DEF LockIsHeld, HoldPcs
<1>4. StaleRunIsWaitedFor'
  BY <1>0, <1>1 DEF StaleRunIsWaitedFor
<1>5. LiveRunIsAlive'
  BY <1>0 DEF LiveRunIsAlive
<1>6. CallerKnows'
  <2>1. \A c \in Callers : cpc[c] = "dwait" => crun[c] \in Runs
    BY DEF SInv, IInv, CallersHoldRuns
  <2>2. r \notin cancelled
    BY DEF EndIsAskedFor
  <2> QED
    BY <1>0, <1>1, <2>1, <2>2 DEF CallerKnows, ObeyPcs, DownPcs
<1>7. EndIsAskedFor'
  BY <1>0 DEF EndIsAskedFor, DownPcs
<1>8. DarkOtherwise'
  BY <1>0, <1>1 DEF DarkOtherwise, LitPcs
<1>9. ConnectedIsUp' /\ StartedIsUpOrLost'
  <2>1. CASE pc[r] = "up"
    BY <1>0, <1>1, <2>1 DEF ConnectedIsUp, StartedIsUpOrLost, LossPcs
  <2>2. CASE pc[r] # "up"
    BY <1>0, <1>1, <2>2 DEF ConnectedIsUp, StartedIsUpOrLost, LossPcs
  <2> QED
    BY <2>1, <2>2
<1>10. EventsAreTrue' /\ EventIsDue'
  BY <1>0, <1>1 DEF EventsAreTrue, EventIsDue, EmitPcs
<1> QED
  BY <1>2, <1>3, <1>4, <1>5, <1>6, <1>7, <1>8, <1>9, <1>10

\* A loop ends; the live one leaves the tunnel down.
LEMMA FinishKeepsT ==
  ASSUME TInv, SInv', NEW r \in Runs, Finish(r)
  PROVE  TInv'
<1> USE DEF TInv
<1>0. /\ pc \in [Runs -> RunPcs]
      /\ cpc \in [Callers -> CallerPcs]
      /\ crun \in [Callers -> Runs \cup {None}]
      /\ active \in Runs \cup {None}
      /\ state \in States
      /\ None \notin Runs
  BY ServiceAssumption DEF SInv, IInv, TypeOK
<1>1. /\ pc[r] = "finish"
      /\ pc' = [pc EXCEPT ![r] = "done"]
      /\ active' = IF active = r THEN None ELSE active
      /\ UNCHANGED <<mlock, profile, engine, conn, closed, state, cancelled, cpc, crun, cmds,
                     res, chan, ui>>
  BY DEF Finish, Goto, tunnelVars, callerVars
<1>2. active = r => state # "connected"
  BY <1>1 DEF SInv, IInv, ExitingRunIsIdle, ExitPcs, Busy
<1>3. NothingReconnects'
  BY <1>0, <1>1 DEF NothingReconnects
<1>4. LockIsHeld'
  BY <1>0, <1>1 DEF LockIsHeld, HoldPcs
<1>5. StaleRunIsWaitedFor'
  BY <1>0, <1>1 DEF StaleRunIsWaitedFor, TunnelPcs, HoldPcs
<1>6. LiveRunIsAlive'
  BY <1>0, <1>1 DEF LiveRunIsAlive
<1>7. CallerKnows'
  <2>1. \A c \in Callers : cpc[c] = "dwait" => crun[c] \in Runs
    BY DEF SInv, IInv, CallersHoldRuns
  <2>2. \A c \in Callers : cpc[c] = "launch" => crun[c] # r
    BY <1>1 DEF SInv, IInv, LaunchesAreOwn
  <2>3. \A c \in Callers : cpc[c] = "force" => crun[c] # r
    BY <1>1 DEF CallerKnows, LockIsHeld, HoldPcs
  <2> QED
    BY <1>0, <1>1, <2>1, <2>2, <2>3 DEF CallerKnows, ObeyPcs, DownPcs
<1>8. EndIsAskedFor'
  BY <1>0, <1>1 DEF EndIsAskedFor
<1>9. DarkOtherwise'
  BY <1>0, <1>1 DEF DarkOtherwise, LitPcs
<1>10. ConnectedIsUp' /\ StartedIsUpOrLost'
  BY <1>0, <1>1, <1>2 DEF ConnectedIsUp, StartedIsUpOrLost
<1>11. EventsAreTrue' /\ EventIsDue'
  BY <1>0, <1>1 DEF EventsAreTrue, EventIsDue, EmitPcs
<1> QED
  BY <1>3, <1>4, <1>5, <1>6, <1>7, <1>8, <1>9, <1>10, <1>11

\* Every step of a run loop keeps the invariant.
LEMMA RunKeepsT ==
  ASSUME TInv, NEW r \in Runs, Timing \in {"fast", "slow"}, RunStep(r) \/ RunLock(r)
  PROVE  TInv'
<1>1. SInv'
  BY RunKeepsSInv DEF TInv
<1> USE DEF TInv, svcVars, sessVars, callerVars
<1>2. /\ res \in [Runs -> {"ok", "fail", "already", "lost"}]
      /\ chan \in [Runs -> Nat]
  BY DEF SInv, IInv, TypeOK
<1>3. /\ cmds[r] # "reconnect"
      /\ pc[r] \notin {"reconn", "emitReconn", "restop", "restopping"}
  BY DEF NothingReconnects
<1>4. active = r => r \notin cancelled \/ pc[r] \in {"emitError", "finish"}
  BY DEF EndIsAskedFor
<1>5. CASE StartBegin(r)
  BY <1>1, <1>5, BeginKeepsT DEF StartBegin
<1>6. CASE StopBegin(r) \/ TeardownBegin(r)
  BY <1>1, <1>6, BeginKeepsT DEF StopBegin, TeardownBegin, StopCallBegin
<1>7. CASE StartEnd(r)
  BY <1>1, <1>7, StartEndKeepsT
<1>8. CASE StopEnd(r) \/ TeardownEnd(r)
  BY <1>1, <1>8, StopEndKeepsT
<1>9. CASE Finish(r)
  BY <1>1, <1>9, FinishKeepsT
<1>10. CASE active = r /\ (Up(r) \/ ToRetry(r) \/ ToError(r))
  BY <1>1, <1>10, StateKeepsT DEF Up, ToRetry, ToError, Transition, IfActive, Goto
<1>11. CASE active = r /\ Teardown(r)
  BY <1>1, <1>11, StateKeepsT DEF Teardown, IfActive, Goto
<1>12. CASE active # r /\ (Up(r) \/ ToRetry(r) \/ ToError(r) \/ Teardown(r))
  BY <1>1, <1>12, MoveKeepsT DEF Up, ToRetry, ToError, Transition, Teardown, IfActive, Goto,
     HoldPcs, TunnelPcs, LitPcs, DownPcs, ObeyPcs, LossPcs, EmitPcs
<1>13. CASE Started(r)
  <2>1. PICK q : /\ pc[r] = "started"
                 /\ pc' = [pc EXCEPT ![r] = q]
                 /\ q = IF active = r THEN IF res[r] = "ok" THEN "up" ELSE "stopCheck" ELSE "finish"
    BY <1>13 DEF Started, IfActive, Goto
  <2>2. UNCHANGED <<tunnelVars, state, active, cancelled, cpc, crun, cmds, res, chan, ui>>
    BY <1>13 DEF Started
  <2>3. CASE active = r /\ res[r] = "ok"
    BY <1>1, <2>1, <2>2, <2>3, MoveKeepsT
       DEF HoldPcs, TunnelPcs, LitPcs, DownPcs, ObeyPcs, LossPcs, EmitPcs
  <2>4. CASE active = r /\ res[r] # "ok"
    BY <1>1, <2>1, <2>2, <2>4, MoveKeepsT
       DEF HoldPcs, TunnelPcs, LitPcs, DownPcs, ObeyPcs, LossPcs, EmitPcs
  <2>5. CASE active # r
    BY <1>1, <2>1, <2>2, <2>5, MoveKeepsT
       DEF HoldPcs, TunnelPcs, LitPcs, DownPcs, ObeyPcs, LossPcs, EmitPcs
  <2> QED
    BY <2>3, <2>4, <2>5
<1>14. CASE EmitUp(r) \/ EmitRetry(r) \/ EmitError(r) \/ EmitDown(r)
  BY <1>1, <1>14, MoveKeepsT DEF EmitUp, EmitRetry, EmitError, EmitDown, Emit, Goto, EventsAreTrue,
     HoldPcs, TunnelPcs, LitPcs, DownPcs, ObeyPcs, LossPcs, EmitPcs
<1>15. CASE LostRead(r)
  BY <1>1, <1>2, <1>15, MoveKeepsT DEF LostRead, Goto,
     HoldPcs, TunnelPcs, LitPcs, DownPcs, ObeyPcs, LossPcs, EmitPcs
<1>16. CASE SelectLost(r)
  BY <1>1, <1>16, MoveKeepsT DEF SelectLost, Goto, StartedIsUpOrLost,
     HoldPcs, TunnelPcs, LitPcs, DownPcs, ObeyPcs, LossPcs, EmitPcs
<1>17. CASE LostCheck(r)
  BY <1>1, <1>2, <1>17, MoveKeepsT DEF LostCheck, IfActive, Goto,
     HoldPcs, TunnelPcs, LitPcs, DownPcs, ObeyPcs, LossPcs, EmitPcs
<1>18. CASE StopCheck(r) \/ WaitTimer(r)
  BY <1>1, <1>18, MoveKeepsT DEF StopCheck, WaitTimer, IfActive, Goto,
     HoldPcs, TunnelPcs, LitPcs, DownPcs, ObeyPcs, LossPcs, EmitPcs
<1>19. CASE Retry(r)
  BY <1>1, <1>19, MoveKeepsT DEF Retry, Goto,
     HoldPcs, TunnelPcs, LitPcs, DownPcs, ObeyPcs, LossPcs, EmitPcs
<1>20. CASE SelectDisconnect(r) \/ WaitDisconnect(r)
  BY <1>1, <1>20, MoveKeepsT DEF SelectDisconnect, WaitDisconnect, Receive, Goto,
     HoldPcs, TunnelPcs, LitPcs, DownPcs, ObeyPcs, LossPcs, EmitPcs
<1>21. CASE SelectCancelled(r) \/ WaitCancelled(r)
  BY <1>1, <1>4, <1>21, MoveKeepsT DEF SelectCancelled, WaitCancelled, Cancelled, Goto,
     HoldPcs, TunnelPcs, LitPcs, DownPcs, ObeyPcs, LossPcs, EmitPcs
<1>22. CASE SelectReconnect(r) \/ WaitReconnect(r) \/ Reconn(r) \/ EmitReconn(r) \/ RestopBegin(r)
            \/ RestopEnd(r)
  BY <1>3, <1>22 DEF SelectReconnect, WaitReconnect, Reconn, EmitReconn, RestopBegin, RestopEnd,
     Receive, Transition, IfActive, Emit, StopCallBegin, StopCallEnd, Goto
<1> QED
  BY <1>5, <1>6, <1>7, <1>8, <1>9, <1>10, <1>11, <1>12, <1>13, <1>14, <1>15, <1>16, <1>17, <1>18,
     <1>19, <1>20, <1>21, <1>22 DEF RunStep, RunLock
-----------------------------------------------------------------------------
(* Steps of the caller, and the tunnel.                                    *)

\* The only caller moves on, and nothing else changes.
LEMMA CallKeepsT ==
  ASSUME OneCaller, TInv, SInv', NEW c \in Callers, NEW q,
         cpc' = [cpc EXCEPT ![c] = q],
         crun' = crun \/ crun' = [crun EXCEPT ![c] = active],
         UNCHANGED <<tunnelVars, state, active, cancelled, pc, cmds, res, chan, ui>>,
         cpc[c] \notin CHoldPcs \cup {"fstop", "emitOff"},
         q \notin CHoldPcs \cup {"connect", "rsend", "launch", "fstop", "emitOff", "reapstop"},
         q = "dsend" => crun'[c] = active,
         q = "dwait" => cpc[c] = "dwait" /\ crun' = crun,
         q = "force" => /\ Timing = "slow" /\ crun[c] \in Runs /\ active = crun[c] /\ mlock = crun[c]
                        /\ cpc[c] = "dwait" /\ crun' = crun,
         q = "dreply" => active = None,
         q = "reap" => /\ crun'[c] = active
                       /\ active = None \/ pc[active] \in {"emitError", "finish"},
         q = "reapwait" => cpc[c] = "reapwait" /\ crun' = crun,
         q = "create" => active = None \/ active \in cancelled,
         cpc[c] \in {"dwait", "force"} => q \in {"dwait", "force"} \/ active = None
  PROVE  TInv'
<1> USE DEF TInv
<1>0. /\ cpc \in [Callers -> CallerPcs]
      /\ crun \in [Callers -> Runs \cup {None}]
      /\ active \in Runs \cup {None}
      /\ None \notin Runs
      /\ Runs \cap Callers = {}
      /\ \A d \in Callers : d = c
  BY ServiceAssumption DEF SInv, IInv, TypeOK, OneCaller
<1>1. UNCHANGED <<mlock, profile, engine, conn, closed>>
  BY DEF tunnelVars
<1>2. NothingReconnects'
  BY <1>0 DEF NothingReconnects
<1>3. LockIsHeld'
  BY <1>0, <1>1 DEF LockIsHeld
<1>4. StaleRunIsWaitedFor'
  BY <1>0, <1>1 DEF StaleRunIsWaitedFor
<1>5. LiveRunIsAlive'
  BY <1>0 DEF LiveRunIsAlive, SInv, IInv, LiveRunIsCurrent
<1>6. CallerKnows'
  BY <1>0, <1>1 DEF CallerKnows, CHoldPcs
<1>7. EndIsAskedFor'
  BY <1>0 DEF EndIsAskedFor
<1>8. DarkOtherwise'
  BY <1>0, <1>1 DEF DarkOtherwise, CHoldPcs
<1>9. ConnectedIsUp' /\ StartedIsUpOrLost'
  BY <1>0, <1>1 DEF ConnectedIsUp, StartedIsUpOrLost
<1>10. EventsAreTrue' /\ EventIsDue'
  BY <1>0, <1>1 DEF EventsAreTrue, EventIsDue
<1> QED
  BY <1>2, <1>3, <1>4, <1>5, <1>6, <1>7, <1>8, <1>9, <1>10

\* The caller takes m.mu for a Stop of its own.
LEMMA CallerBeginKeepsT ==
  ASSUME OneCaller, TInv, SInv', NEW c \in Callers, ReapStopBegin(c) \/ ForceStopBegin(c)
  PROVE  TInv'
<1> USE DEF TInv
<1>0. /\ cpc \in [Callers -> CallerPcs]
      /\ active \in Runs \cup {None}
      /\ None \notin Runs
      /\ Free \notin Runs \cup Callers
      /\ Runs \cap Callers = {}
      /\ \A d \in Callers : d = c
  BY ServiceAssumption DEF SInv, IInv, TypeOK, OneCaller
<1>1. PICK q : /\ \/ cpc[c] = "reapstop" /\ q = "reapstopping"
                  \/ cpc[c] = "fstop" /\ q = "fstopping"
               /\ cpc' = [cpc EXCEPT ![c] = q]
  BY DEF ReapStopBegin, ForceStopBegin, CStopBegin, CGoto
<1>2. /\ mlock = Free
      /\ mlock' = c
      /\ UNCHANGED <<profile, engine, conn, closed, state, active, cancelled, pc, crun, cmds, res,
                     chan, ui>>
  BY DEF ReapStopBegin, ForceStopBegin, CStopBegin, Lock, svcVars
<1>3. NothingReconnects'
  BY <1>0, <1>1, <1>2 DEF NothingReconnects
<1>4. LockIsHeld'
  <2>1. \A s \in Runs : mlock' = s <=> pc'[s] \in HoldPcs
    BY <1>0, <1>2 DEF LockIsHeld
  <2>2. \A d \in Callers : mlock' = d <=> cpc'[d] \in CHoldPcs
    BY <1>0, <1>1, <1>2 DEF CHoldPcs
  <2> QED
    BY <2>1, <2>2 DEF LockIsHeld
<1>5. StaleRunIsWaitedFor'
  BY <1>0, <1>2 DEF StaleRunIsWaitedFor
<1>6. LiveRunIsAlive'
  BY <1>0, <1>2 DEF LiveRunIsAlive
<1>7. CallerKnows'
  BY <1>0, <1>1, <1>2 DEF CallerKnows
<1>8. EndIsAskedFor'
  BY <1>0, <1>1, <1>2 DEF EndIsAskedFor
<1>9. DarkOtherwise'
  BY <1>0, <1>1, <1>2 DEF DarkOtherwise
<1>10. ConnectedIsUp' /\ StartedIsUpOrLost'
  BY <1>0, <1>2 DEF ConnectedIsUp, StartedIsUpOrLost
<1>11. EventsAreTrue' /\ EventIsDue'
  BY <1>0, <1>1, <1>2 DEF EventsAreTrue, EventIsDue
<1> QED
  BY <1>3, <1>4, <1>5, <1>6, <1>7, <1>8, <1>9, <1>10, <1>11

\* The caller's Stop returns, with no loop left that could be connected.
LEMMA CallerEndKeepsT ==
  ASSUME OneCaller, TInv, SInv', NEW c \in Callers, ReapStopEnd(c) \/ ForceStopEnd(c)
  PROVE  TInv'
<1> USE DEF TInv
<1>0. /\ cpc \in [Callers -> CallerPcs]
      /\ active \in Runs \cup {None}
      /\ state \in States
      /\ None \notin Runs
      /\ Free \notin Runs \cup Callers
      /\ Runs \cap Callers = {}
      /\ \A d \in Callers : d = c
  BY ServiceAssumption DEF SInv, IInv, TypeOK, OneCaller
<1>1. PICK q : /\ \/ cpc[c] = "reapstopping" /\ q = "reapwait"
                  \/ cpc[c] = "fstopping" /\ q = "emitOff"
               /\ cpc' = [cpc EXCEPT ![c] = q]
  BY DEF ReapStopEnd, ForceStopEnd, CStopEnd, CGoto
<1>2. /\ mlock = c
      /\ mlock' = Free
      /\ profile' = None
      /\ engine' = "down"
      /\ UNCHANGED <<conn, closed, state, active, cancelled, pc, crun, cmds, res, chan, ui>>
  BY DEF ReapStopEnd, ForceStopEnd, CStopEnd, Stop, svcVars
<1>3. NothingReconnects'
  BY <1>0, <1>1, <1>2 DEF NothingReconnects
<1>4. LockIsHeld'
  <2>1. \A s \in Runs : mlock' = s <=> pc'[s] \in HoldPcs
    BY <1>0, <1>2 DEF LockIsHeld
  <2>2. \A d \in Callers : mlock' = d <=> cpc'[d] \in CHoldPcs
    BY <1>0, <1>1, <1>2 DEF CHoldPcs
  <2> QED
    BY <2>1, <2>2 DEF LockIsHeld
<1>5. StaleRunIsWaitedFor'
  BY <1>0, <1>1, <1>2 DEF StaleRunIsWaitedFor
<1>6. LiveRunIsAlive'
  BY <1>0, <1>2 DEF LiveRunIsAlive
<1>7. CallerKnows'
  BY <1>0, <1>1, <1>2 DEF CallerKnows
<1>8. EndIsAskedFor'
  BY <1>0, <1>1, <1>2 DEF EndIsAskedFor
<1>9. DarkOtherwise'
  BY <1>2 DEF DarkOtherwise
<1>10. active = None \/ pc[active] \in {"emitError", "finish"}
  BY <1>0, <1>1 DEF CallerKnows, EndIsAskedFor
<1>11. state # "connected"
  BY <1>0, <1>10 DEF SInv, IInv, BusyHasLiveLoop, ExitingRunIsIdle, ExitPcs, Busy
<1>12. ConnectedIsUp' /\ StartedIsUpOrLost'
  BY <1>0, <1>2, <1>10, <1>11 DEF ConnectedIsUp, StartedIsUpOrLost
<1>13. EventsAreTrue' /\ EventIsDue'
  BY <1>0, <1>1, <1>2 DEF EventsAreTrue, EventIsDue
<1> QED
  BY <1>3, <1>4, <1>5, <1>6, <1>7, <1>8, <1>9, <1>12, <1>13

\* A run is created: what was live before has ended or is reaped, and dark.
LEMMA CreateKeepsT ==
  ASSUME OneCaller, TInv, SInv', NEW c \in Callers, Create(c), state \notin Busy
  PROVE  TInv'
<1> USE DEF TInv
<1>0. /\ pc \in [Runs -> RunPcs]
      /\ cpc \in [Callers -> CallerPcs]
      /\ crun \in [Callers -> Runs \cup {None}]
      /\ active \in Runs \cup {None}
      /\ None \notin Runs \cup {"disconnect", "reconnect"}
      /\ \A d \in Callers : d = c
  BY ServiceAssumption DEF SInv, IInv, TypeOK, OneCaller
<1>1. PICK r \in Runs : /\ pc[r] = "unused"
                        /\ pc' = [pc EXCEPT ![r] = "new"]
                        /\ active' = r
                        /\ crun' = [crun EXCEPT ![c] = r]
  BY DEF Create, Goto
<1>2. /\ cpc[c] = "create"
      /\ cpc' = [cpc EXCEPT ![c] = "launch"]
      /\ state' = "connecting"
      /\ UNCHANGED <<mlock, profile, engine, conn, closed, cancelled, cmds, res, chan, ui>>
  BY DEF Create, CGoto, tunnelVars
<1>3. active = None \/ (active \in cancelled /\ pc[active] \in {"emitError", "finish"})
  BY <1>0, <1>2 DEF CallerKnows, EndIsAskedFor
<1>4. cmds[r] = None /\ r \notin cancelled
  BY <1>1 DEF LiveRunIsAlive
<1>5. NothingReconnects'
  BY <1>0, <1>1, <1>2 DEF NothingReconnects
<1>6. LockIsHeld'
  BY <1>0, <1>1, <1>2 DEF LockIsHeld, HoldPcs, CHoldPcs
<1>7. StaleRunIsWaitedFor'
  BY <1>0, <1>1, <1>2, <1>3 DEF StaleRunIsWaitedFor, TunnelPcs, HoldPcs
<1>8. LiveRunIsAlive'
  BY <1>0, <1>1, <1>2 DEF LiveRunIsAlive
<1>9. CallerKnows'
  BY <1>0, <1>1, <1>2 DEF CallerKnows
<1>10. EndIsAskedFor'
  BY <1>0, <1>1, <1>2, <1>4 DEF EndIsAskedFor, DownPcs
<1>11. DarkOtherwise'
  BY <1>0, <1>1, <1>2, <1>3 DEF DarkOtherwise, LitPcs
<1>12. ConnectedIsUp' /\ StartedIsUpOrLost'
  BY <1>0, <1>1, <1>2 DEF ConnectedIsUp, StartedIsUpOrLost
<1>13. EventsAreTrue'
  BY <1>0, <1>1, <1>2 DEF EventsAreTrue
<1>14. EventIsDue'
  BY <1>0, <1>1, <1>2, <1>3 DEF EventIsDue, EmitPcs
<1> QED
  BY <1>5, <1>6, <1>7, <1>8, <1>9, <1>10, <1>11, <1>12, <1>13, <1>14

\* The new run's loop is launched.
LEMMA LaunchKeepsT ==
  ASSUME OneCaller, TInv, SInv', NEW c \in Callers, Launch(c)
  PROVE  TInv'
<1> USE DEF TInv
<1>0. /\ pc \in [Runs -> RunPcs]
      /\ cpc \in [Callers -> CallerPcs]
      /\ crun \in [Callers -> Runs \cup {None}]
      /\ active \in Runs \cup {None}
      /\ None \notin Runs
      /\ \A d \in Callers : d = c
  BY ServiceAssumption DEF SInv, IInv, TypeOK, OneCaller
<1>1. /\ cpc[c] = "launch"
      /\ cpc' = [cpc EXCEPT ![c] = "idle"]
      /\ pc' = [pc EXCEPT ![crun[c]] = "start"]
      /\ ui' = "connecting"
      /\ UNCHANGED <<mlock, profile, engine, conn, closed, state, active, cancelled, cmds, res,
                     chan, crun>>
  BY DEF Launch, CGoto, tunnelVars, svcVars
<1>2. PICK r \in Runs : r = crun[c] /\ active = r /\ pc[r] = "new"
  BY <1>1 DEF CallerKnows, SInv, IInv, LaunchesAreOwn
<1>3. state = "connecting"
  BY <1>2 DEF EventsAreTrue
<1>4. NothingReconnects'
  BY <1>0, <1>1, <1>2 DEF NothingReconnects
<1>5. LockIsHeld'
  BY <1>0, <1>1, <1>2 DEF LockIsHeld, HoldPcs, CHoldPcs
<1>6. StaleRunIsWaitedFor'
  BY <1>0, <1>1, <1>2 DEF StaleRunIsWaitedFor
<1>7. LiveRunIsAlive'
  BY <1>0, <1>1, <1>2 DEF LiveRunIsAlive
<1>8. CallerKnows'
  BY <1>0, <1>1 DEF CallerKnows
<1>9. EndIsAskedFor'
  BY <1>0, <1>1, <1>2 DEF EndIsAskedFor, DownPcs
<1>10. DarkOtherwise'
  BY <1>0, <1>1, <1>2 DEF DarkOtherwise, LitPcs
<1>11. ConnectedIsUp' /\ StartedIsUpOrLost'
  BY <1>0, <1>1, <1>2, <1>3 DEF ConnectedIsUp, StartedIsUpOrLost
<1>12. EventsAreTrue' /\ EventIsDue'
  BY <1>0, <1>1, <1>2, <1>3 DEF EventsAreTrue, EventIsDue
<1> QED
  BY <1>4, <1>5, <1>6, <1>7, <1>8, <1>9, <1>10, <1>11, <1>12

\* forceDisconnect gives up on a live loop that is inside a tunnel call.
LEMMA ForceKeepsT ==
  ASSUME OneCaller, TInv, SInv', NEW c \in Callers, ForceDisconnect(c)
  PROVE  TInv'
<1> USE DEF TInv
<1>0. /\ pc \in [Runs -> RunPcs]
      /\ cpc \in [Callers -> CallerPcs]
      /\ active \in Runs \cup {None}
      /\ None \notin Runs
      /\ Free \notin Runs \cup Callers
      /\ \A d \in Callers : d = c
  BY ServiceAssumption DEF SInv, IInv, TypeOK, OneCaller
<1>1. cpc[c] = "force" /\ active = mlock
  BY DEF ForceDisconnect, CGoto, CallerKnows
<1>2. active # None
  BY <1>0, <1>1 DEF CallerKnows
<1>3. /\ cpc' = [cpc EXCEPT ![c] = "fstop"]
      /\ cancelled' = cancelled \cup {active}
      /\ active' = None
      /\ state' = "disconnected"
      /\ UNCHANGED <<mlock, profile, engine, conn, closed, pc, cmds, res, chan, ui, crun>>
  BY <1>2 DEF ForceDisconnect, CGoto, tunnelVars
<1>4. pc[active] # "unused"
  BY <1>2 DEF SInv, IInv, LiveRunIsCurrent
<1>5. NothingReconnects'
  BY <1>0, <1>3 DEF NothingReconnects
<1>6. LockIsHeld'
  BY <1>0, <1>1, <1>3 DEF LockIsHeld, CHoldPcs
<1>7. StaleRunIsWaitedFor'
  BY <1>0, <1>1, <1>3 DEF StaleRunIsWaitedFor
<1>8. LiveRunIsAlive'
  BY <1>0, <1>3, <1>4 DEF LiveRunIsAlive
<1>9. CallerKnows'
  BY <1>0, <1>3 DEF CallerKnows
<1>10. EndIsAskedFor' /\ StartedIsUpOrLost' /\ EventsAreTrue'
  BY <1>0, <1>3 DEF EndIsAskedFor, StartedIsUpOrLost, EventsAreTrue
<1>11. DarkOtherwise'
  BY <1>0, <1>3 DEF DarkOtherwise
<1>12. ConnectedIsUp'
  BY <1>3 DEF ConnectedIsUp
<1>13. EventIsDue'
  BY <1>3 DEF EventIsDue
<1> QED
  BY <1>5, <1>6, <1>7, <1>8, <1>9, <1>10, <1>11, <1>12, <1>13

\* The steps of the caller that signal the loop, reset a stale error or publish
\* the reset.
LEMMA SignalKeepsT ==
  ASSUME OneCaller, TInv, SInv', NEW c \in Callers,
         Reap(c) \/ DisconnectSend(c) \/ DisconnectReset(c) \/ DisconnectEmit(c)
  PROVE  TInv'
<1> USE DEF TInv
<1>0. /\ pc \in [Runs -> RunPcs]
      /\ cmds \in [Runs -> {None, "disconnect", "reconnect"}]
      /\ cpc \in [Callers -> CallerPcs]
      /\ crun \in [Callers -> Runs \cup {None}]
      /\ active \in Runs \cup {None}
      /\ state \in States
      /\ None \notin Runs \cup {"disconnect", "reconnect"}
      /\ Runs \cap Callers = {}
      /\ \A d \in Callers : d = c
  BY ServiceAssumption DEF SInv, IInv, TypeOK, OneCaller
<1>1. UNCHANGED <<mlock, profile, engine, conn, closed, active, pc, res, chan, crun>>
  BY DEF Reap, DisconnectSend, DisconnectReset, DisconnectEmit, tunnelVars, svcVars
<1>2. PICK q : /\ cpc' = [cpc EXCEPT ![c] = q]
               /\ \/ cpc[c] = "reap" /\ q = "reapstop"
                  \/ cpc[c] = "dsend" /\ q = "dwait"
                  \/ cpc[c] = "dreset" /\ q = "emitOff"
                  \/ cpc[c] = "emitOff" /\ q = "dreply"
  BY DEF Reap, DisconnectSend, DisconnectReset, DisconnectEmit, CGoto
<1>3. StaleRunIsWaitedFor'
  BY <1>0, <1>1, <1>2 DEF StaleRunIsWaitedFor
<1>4. LockIsHeld'
  BY <1>0, <1>1, <1>2 DEF LockIsHeld, CHoldPcs
<1>5. DarkOtherwise'
  BY <1>0, <1>1, <1>2 DEF DarkOtherwise
<1>6. CASE Reap(c)
  <2>1. /\ cpc[c] = "reap"
        /\ cpc' = [cpc EXCEPT ![c] = "reapstop"]
        /\ cancelled' = cancelled \cup {crun[c]}
        /\ UNCHANGED <<state, cmds, ui>>
    BY <1>6 DEF Reap, CGoto, svcVars
  <2>2. crun[c] \in Runs /\ pc[crun[c]] # "unused"
    BY <1>0, <2>1 DEF LiveRunIsAlive, SInv, IInv, CallersHoldRuns
  <2>3. NothingReconnects'
    BY <1>0, <1>1, <2>1 DEF NothingReconnects
  <2>4. LiveRunIsAlive'
    BY <1>0, <1>1, <2>1, <2>2 DEF LiveRunIsAlive
  <2>5. CallerKnows'
    BY <1>0, <1>1, <2>1 DEF CallerKnows
  <2>6. EndIsAskedFor'
    BY <1>0, <1>1, <2>1 DEF EndIsAskedFor, CallerKnows
  <2>7. ConnectedIsUp' /\ StartedIsUpOrLost' /\ EventsAreTrue'
    BY <1>0, <1>1, <2>1 DEF ConnectedIsUp, StartedIsUpOrLost, EventsAreTrue
  <2>8. EventIsDue'
    BY <2>1 DEF EventIsDue
  <2> QED
    BY <1>3, <1>4, <1>5, <2>3, <2>4, <2>5, <2>6, <2>7, <2>8
<1>7. CASE DisconnectSend(c)
  <2>1. /\ cpc[c] = "dsend"
        /\ cpc' = [cpc EXCEPT ![c] = "dwait"]
        /\ UNCHANGED <<state, cancelled, ui>>
    BY <1>7 DEF DisconnectSend, CGoto, svcVars
  <2>2. crun[c] \in Runs /\ pc[crun[c]] # "unused" /\ cmds[crun[c]] # "reconnect"
    BY <1>0, <2>1 DEF LiveRunIsAlive, NothingReconnects, SInv, IInv, CallersHoldRuns
  <2>3. cmds' = [cmds EXCEPT ![crun[c]] = "disconnect"]
    BY <1>0, <1>7, <2>2 DEF DisconnectSend, SendCmd
  <2>4. NothingReconnects'
    BY <1>0, <1>1, <2>1, <2>3 DEF NothingReconnects
  <2>5. LiveRunIsAlive'
    BY <1>0, <1>1, <2>1, <2>2, <2>3 DEF LiveRunIsAlive
  <2>6. CallerKnows'
    BY <1>0, <1>1, <2>1, <2>2, <2>3 DEF CallerKnows
  <2>7. EndIsAskedFor'
    BY <1>0, <1>1, <2>1, <2>2, <2>3 DEF EndIsAskedFor, CallerKnows
  <2>8. ConnectedIsUp' /\ StartedIsUpOrLost' /\ EventsAreTrue'
    BY <1>0, <1>1, <2>1 DEF ConnectedIsUp, StartedIsUpOrLost, EventsAreTrue
  <2>9. EventIsDue'
    BY <1>0, <1>1, <2>1 DEF EventIsDue
  <2> QED
    BY <1>3, <1>4, <1>5, <2>4, <2>5, <2>6, <2>7, <2>8, <2>9
<1>8. CASE DisconnectReset(c) \/ DisconnectEmit(c)
  <2>1. active = None
    BY <1>8 DEF DisconnectReset, DisconnectEmit, CGoto, CallerKnows, SInv, ResetIsDue
  <2>2. UNCHANGED <<cmds, cancelled>>
    BY <1>8 DEF DisconnectReset, DisconnectEmit
  <2>3. /\ DisconnectReset(c) => q = "emitOff" /\ state' = "disconnected" /\ ui' = ui
        /\ DisconnectEmit(c) => cpc[c] = "emitOff" /\ q = "dreply" /\ state' = state /\ ui' = "disconnected"
    BY <1>0, <1>2 DEF DisconnectReset, DisconnectEmit, CGoto, svcVars
  <2>4. NothingReconnects' /\ LiveRunIsAlive'
    BY <1>0, <1>1, <1>2, <2>2 DEF NothingReconnects, LiveRunIsAlive
  <2>5. CallerKnows'
    BY <1>0, <1>1, <1>2, <1>8, <2>1, <2>2, <2>3 DEF CallerKnows
  <2>6. EndIsAskedFor' /\ StartedIsUpOrLost' /\ EventsAreTrue'
    BY <1>0, <1>1, <2>1 DEF EndIsAskedFor, StartedIsUpOrLost, EventsAreTrue
  <2>7. state \notin Busy
    BY <2>1 DEF SInv, IInv, BusyHasLiveLoop
  <2>8. ConnectedIsUp'
    BY <1>8, <2>3, <2>7 DEF ConnectedIsUp, Busy
  <2>9. EventIsDue'
    BY <1>0, <1>1, <1>2, <1>8, <2>1, <2>2, <2>3 DEF EventIsDue, CallerKnows
  <2> QED
    BY <1>3, <1>4, <1>5, <2>4, <2>5, <2>6, <2>8, <2>9
<1> QED
  BY <1>6, <1>7, <1>8

\* Every step of the only caller keeps the invariant.
LEMMA CallerKeepsT ==
  ASSUME OneCaller, "reconnect" \notin Ops, Timing \in {"fast", "slow"}, TInv,
         NEW c \in Callers, Call(c) \/ CallerStep(c) \/ CallerLock(c)
  PROVE  TInv'
<1>1. SInv'
  BY CallerKeepsSInv DEF TInv
<1> USE DEF TInv
<1>2. /\ pc \in [Runs -> RunPcs]
      /\ crun \in [Callers -> Runs \cup {None}]
      /\ active \in Runs \cup {None}
      /\ None \notin Runs \cup {"disconnect", "reconnect"}
      /\ Free \notin Runs \cup Callers
      /\ \A d \in Callers : d = c
      /\ cpc[c] \notin {"connect", "rsend"}
  BY ServiceAssumption DEF SInv, IInv, TypeOK, OneCaller, NothingReconnects
<1>3. CASE ReapStopBegin(c) \/ ForceStopBegin(c)
  BY <1>1, <1>3, CallerBeginKeepsT
<1>4. CASE ReapStopEnd(c) \/ ForceStopEnd(c)
  BY <1>1, <1>4, CallerEndKeepsT
<1>5. CASE Reap(c) \/ DisconnectSend(c) \/ DisconnectReset(c) \/ DisconnectEmit(c)
  BY <1>1, <1>5, SignalKeepsT
<1>6. CASE Launch(c)
  BY <1>1, <1>6, LaunchKeepsT
<1>7. CASE ForceDisconnect(c)
  BY <1>1, <1>7, ForceKeepsT
<1>8. CASE Create(c)
  <2>1. CASE state \notin Busy
    BY <1>1, <1>8, <2>1, CreateKeepsT
  <2>2. CASE state \in Busy
    <3>1. /\ cpc[c] = "create"
          /\ cpc' = [cpc EXCEPT ![c] = "idle"]
          /\ UNCHANGED <<tunnelVars, state, active, cancelled, pc, cmds, res, chan, ui, crun>>
      BY <1>8, <2>2 DEF Create, CGoto, svcVars
    <3> QED
      BY <1>1, <3>1, CallKeepsT DEF CHoldPcs
  <2> QED
    BY <2>1, <2>2
<1>9. CASE ConnectCheck(c)
  <2>1. PICK q : /\ cpc' = [cpc EXCEPT ![c] = q]
                 /\ q = IF active = None THEN "create" ELSE "reap"
                 /\ cpc[c] = "idle"
                 /\ state \notin Busy
    BY <1>2, <1>9 DEF ConnectCheck
  <2>2. /\ crun' = [crun EXCEPT ![c] = active]
        /\ UNCHANGED <<tunnelVars, state, active, cancelled, pc, cmds, res, chan, ui>>
    BY <1>9 DEF ConnectCheck, svcVars
  <2>3. active # None => pc[active] \in {"emitError", "finish"}
    <3>1. active # None => pc[active] \in ExitPcs \ {"done"}
      BY <1>2, <2>1 DEF SInv, WorkingRunIsBusy, LiveRunIsAlive
    <3>2. active # None => pc[active] \notin DownPcs
      BY <1>2, <2>1 DEF EndIsAskedFor
    <3> QED
      BY <3>1, <3>2 DEF ExitPcs, DownPcs
  <2> QED
    BY <1>1, <1>2, <2>1, <2>2, <2>3, CallKeepsT DEF CHoldPcs
<1>10. CASE DisconnectRead(c)
  <2>1. PICK q : /\ cpc' = [cpc EXCEPT ![c] = q]
                 /\ q = IF active # None THEN "dsend"
                        ELSE IF state = "disconnected" THEN "dreply" ELSE "dreset"
                 /\ cpc[c] = "idle"
    BY <1>10 DEF DisconnectRead, CGoto
  <2>2. /\ crun' = [crun EXCEPT ![c] = active]
        /\ UNCHANGED <<tunnelVars, state, active, cancelled, pc, cmds, res, chan, ui>>
    BY <1>10 DEF DisconnectRead, svcVars
  <2> QED
    BY <1>1, <1>2, <2>1, <2>2, CallKeepsT DEF CHoldPcs
<1>11. CASE SetAutoReconnect(c)
  <2>1. UNCHANGED <<tunnelVars, state, active, cancelled, pc, cmds, res, chan, ui, cpc, crun>>
    BY <1>11 DEF SetAutoReconnect, callerVars
  <2> QED
    BY <1>1, <2>1 DEF tunnelVars, NothingReconnects, LockIsHeld, StaleRunIsWaitedFor,
       LiveRunIsAlive, CallerKnows, EndIsAskedFor, DarkOtherwise, ConnectedIsUp,
       StartedIsUpOrLost, EventsAreTrue, EventIsDue
<1>12. CASE ReapWait(c)
  <2>1. /\ cpc[c] = "reapwait"
        /\ cpc' = [cpc EXCEPT ![c] = "create"]
        /\ UNCHANGED <<tunnelVars, state, active, cancelled, pc, cmds, res, chan, ui, crun>>
    BY <1>12 DEF ReapWait, CGoto, svcVars
  <2>2. active = None \/ active \in cancelled
    BY <2>1 DEF CallerKnows
  <2> QED
    BY <1>1, <2>1, <2>2, CallKeepsT DEF CHoldPcs
<1>13. CASE DisconnectDone(c)
  <2>1. /\ cpc[c] = "dwait"
        /\ cpc' = [cpc EXCEPT ![c] = "dreply"]
        /\ pc[crun[c]] = "done"
        /\ UNCHANGED <<tunnelVars, state, active, cancelled, pc, cmds, res, chan, ui, crun>>
    BY <1>13 DEF DisconnectDone, CGoto, svcVars
  <2>2. active = None
    BY <1>2, <2>1 DEF CallerKnows, LiveRunIsAlive
  <2> QED
    BY <1>1, <2>1, <2>2, CallKeepsT DEF CHoldPcs
<1>14. CASE DisconnectTimeout(c)
  <2>1. /\ cpc[c] = "dwait"
        /\ cpc' = [cpc EXCEPT ![c] = "force"]
        /\ Overdue(crun[c])
        /\ UNCHANGED <<tunnelVars, state, active, cancelled, pc, cmds, res, chan, ui, crun>>
    BY <1>14 DEF DisconnectTimeout, CGoto, svcVars
  <2>2. crun[c] \in Runs
    BY <2>1 DEF SInv, IInv, CallersHoldRuns
  <2>3. ~Parked(crun[c])
    BY <1>2, <2>1, <2>2 DEF CallerKnows, Parked, ObeyPcs, DownPcs
  <2>4. Timing = "slow" /\ mlock # Free
    BY <1>2, <2>1, <2>2, <2>3 DEF Overdue
  <2>5. mlock \in Runs
    BY <1>2, <2>1, <2>4 DEF SInv, IInv, TypeOK, LockIsHeld, CHoldPcs
  <2>6. active = mlock
    BY <1>2, <2>1, <2>5 DEF LockIsHeld, StaleRunIsWaitedFor, TunnelPcs
  <2>7. active = crun[c]
    BY <1>2, <2>1, <2>5, <2>6 DEF CallerKnows
  <2> QED
    BY <1>1, <2>1, <2>2, <2>4, <2>6, <2>7, CallKeepsT DEF CHoldPcs
<1>15. CASE DisconnectReply(c)
  <2>1. /\ cpc[c] = "dreply"
        /\ cpc' = [cpc EXCEPT ![c] = "idle"]
        /\ UNCHANGED <<tunnelVars, state, active, cancelled, pc, cmds, res, chan, ui, crun>>
    BY <1>15 DEF DisconnectReply, CGoto, svcVars
  <2> QED
    BY <1>1, <2>1, CallKeepsT DEF CHoldPcs
<1>16. CASE ReconnectRead(c) \/ ReconnectSend(c)
  BY <1>2, <1>16 DEF ReconnectRead, ReconnectSend, CGoto
<1> QED
  BY <1>3, <1>4, <1>5, <1>6, <1>7, <1>8, <1>9, <1>10, <1>11, <1>12, <1>13, <1>14, <1>15, <1>16
     DEF Call, CallerStep, CallerLock

-----------------------------------------------------------------------------
(* The theorems about service and tunnel.                                  *)

\* A lost tunnel keeps the invariant: the engine goes down with the connection.
LEMMA LoseKeepsT ==
  ASSUME TInv, SInv', LoseTunnel
  PROVE  TInv'
<1> USE DEF TInv
<1>0. /\ active \in Runs \cup {None}
      /\ None \notin Runs
  BY ServiceAssumption DEF SInv, IInv, TypeOK
<1>1. /\ closed' = closed \cup {conn}
      /\ engine' = "down"
      /\ UNCHANGED <<mlock, profile, conn, state, active, cancelled, pc, cmds, res, chan, ui, cpc,
                     crun>>
  BY DEF LoseTunnel, Lose, svcVars, callerVars
<1>2. /\ NothingReconnects' /\ LockIsHeld' /\ StaleRunIsWaitedFor' /\ LiveRunIsAlive'
      /\ CallerKnows' /\ EndIsAskedFor'
  BY <1>1 DEF NothingReconnects, LockIsHeld, StaleRunIsWaitedFor, LiveRunIsAlive, CallerKnows,
     EndIsAskedFor
<1>3. DarkOtherwise' /\ ConnectedIsUp' /\ StartedIsUpOrLost'
  BY <1>1 DEF DarkOtherwise, ConnectedIsUp, StartedIsUpOrLost
<1>4. EventsAreTrue' /\ EventIsDue'
  BY <1>1 DEF EventsAreTrue, EventIsDue
<1> QED
  BY <1>2, <1>3, <1>4

\* The invariant is inductive, with one caller that does not call Reconnect and
\* runner calls that do not return at the very moment of a timeout.
LEMMA TInvInductive ==
  ASSUME OneCaller, "reconnect" \notin Ops, Timing \in {"fast", "slow"}
  PROVE  TInv /\ [Next]_vars => TInv'
<1> SUFFICES ASSUME TInv, [Next]_vars PROVE TInv'
  OBVIOUS
<1>1. SInv'
  BY SInvInductive DEF TInv
<1>2. ASSUME NEW r \in Runs, RunStep(r) \/ RunLock(r)
      PROVE  TInv'
  BY <1>2, RunKeepsT
<1>3. ASSUME NEW c \in Callers, Call(c) \/ CallerStep(c) \/ CallerLock(c)
      PROVE  TInv'
  BY <1>3, CallerKeepsT
<1>4. CASE LoseTunnel
  BY <1>1, <1>4, LoseKeepsT
<1>5. CASE UNCHANGED vars
  <2>1. UNCHANGED <<mlock, profile, engine, conn, closed, state, active, cancelled, pc, cmds, res,
                    chan, ui, cpc, crun>>
    BY <1>5 DEF vars, tunnelVars, svcVars, callerVars
  <2> QED
    BY <1>1, <2>1 DEF TInv, NothingReconnects, LockIsHeld, StaleRunIsWaitedFor,
       LiveRunIsAlive, CallerKnows, EndIsAskedFor, DarkOtherwise, ConnectedIsUp,
       StartedIsUpOrLost, EventsAreTrue, EventIsDue
<1> QED
  BY <1>2, <1>3, <1>4, <1>5 DEF Next

\* The initial state satisfies the invariant.
LEMMA TInvInit == Init => TInv
<1> SUFFICES ASSUME Init PROVE TInv
  OBVIOUS
<1>1. NothingReconnects /\ StaleRunIsWaitedFor /\ LiveRunIsAlive
  BY ServiceAssumption DEF Init, NothingReconnects, StaleRunIsWaitedFor, LiveRunIsAlive,
     TunnelPcs, HoldPcs
<1>2. LockIsHeld
  BY ServiceAssumption DEF Init, TunnelInit, LockIsHeld, HoldPcs, CHoldPcs
<1>3. CallerKnows /\ EndIsAskedFor
  BY ServiceAssumption DEF Init, CallerKnows, EndIsAskedFor
<1>4. DarkOtherwise /\ ConnectedIsUp
  BY DEF Init, TunnelInit, DarkOtherwise, ConnectedIsUp
<1>5. StartedIsUpOrLost /\ EventsAreTrue /\ EventIsDue
  BY ServiceAssumption DEF Init, StartedIsUpOrLost, EventsAreTrue, EventIsDue
<1> QED
  BY <1>1, <1>2, <1>3, <1>4, <1>5, SInvInit DEF TInv

\* Inside the program the tunnel invariant holds for any number of connects.
THEOREM TunnelIsSound ==
  ASSUME OneCaller, "reconnect" \notin Ops, Timing \in {"fast", "slow"}
  PROVE  Spec => []TInv
BY TInvInit, TInvInductive, PTL DEF Spec

\* "A half-started tunnel can never keep routing traffic under a Disconnected
\* or Error session" (core/tunnel/manager.go): however many connects, retries,
\* losses and timeouts there are, an engine that is up belongs to a busy
\* service or a Stop is on its way.
THEOREM NoTunnelIsOrphaned ==
  ASSUME OneCaller, "reconnect" \notin Ops, Timing \in {"fast", "slow"}
  PROVE  Spec => []NoOrphanTunnel
<1>1. TInv => NoOrphanTunnel
  <2> SUFFICES ASSUME TInv, engine = "up" PROVE state \in Busy \/ StopPending
    BY DEF NoOrphanTunnel
  <2>1. CASE \E c \in Callers : cpc[c] \in {"fstop", "fstopping"}
    BY <2>1 DEF StopPending
  <2>2. CASE active # None /\ pc[active] \in LitPcs
    BY <2>2 DEF TInv, SInv, IInv, TypeOK, WorkingRunIsBusy, StopPending, LitPcs, ExitPcs
  <2> QED
    BY <2>1, <2>2 DEF TInv, DarkOtherwise
<1> QED
  BY <1>1, TInvInit, TInvInductive, PTL DEF Spec

\* Between a failed or lost tunnel and the next attempt the engine is down and
\* the manager tracks nothing, so that the attempt is not refused.
THEOREM BackoffIsAlwaysDark ==
  ASSUME OneCaller, "reconnect" \notin Ops, Timing \in {"fast", "slow"}
  PROVE  Spec => []BackoffIsDark
<1>1. TInv => BackoffIsDark
  BY ServiceAssumption DEF TInv, BackoffIsDark, DarkOtherwise, CallerKnows, LitPcs
<1> QED
  BY <1>1, TInvInit, TInvInductive, PTL DEF Spec

\* A service that says Connected has the live run's tunnel up, or its loss is
\* signalled already.
THEOREM ConnectedIsAlwaysUp ==
  ASSUME OneCaller, "reconnect" \notin Ops, Timing \in {"fast", "slow"}
  PROVE  Spec => []ConnectedIsUp
<1>1. TInv => ConnectedIsUp
  BY DEF TInv
<1> QED
  BY <1>1, TInvInit, TInvInductive, PTL DEF Spec

\* Whichever way Disconnect returns, nothing is live and the engine is down.
THEOREM DisconnectAlwaysSettles ==
  ASSUME OneCaller, "reconnect" \notin Ops, Timing \in {"fast", "slow"}
  PROVE  Spec => []DisconnectSettles
<1>1. TInv => DisconnectSettles
  <2> SUFFICES ASSUME TInv, NEW c \in Callers, cpc[c] = "dreply"
               PROVE  active = None /\ engine = "down" /\ state \in {"disconnected", "error"}
    BY DEF DisconnectSettles
  <2>1. active = None
    BY DEF TInv, CallerKnows
  <2>2. engine = "down"
    BY <2>1 DEF TInv, DarkOtherwise, OneCaller
  <2>3. state \in {"disconnected", "error"}
    BY <2>1 DEF TInv, SInv, IInv, TypeOK, States, Busy, BusyHasLiveLoop
  <2> QED
    BY <2>1, <2>2, <2>3
<1> QED
  BY <1>1, TInvInit, TInvInductive, PTL DEF Spec

\* When everything has come to rest the last event published is the state, for
\* as long as no loop had to be given up on.
THEOREM UiIsAlwaysCurrent ==
  ASSUME OneCaller, "reconnect" \notin Ops, Timing \in {"fast", "slow"}
  PROVE  Spec => []UiIsCurrent
<1>1. TInv => UiIsCurrent
  BY DEF TInv, SInv, IInv, TypeOK, UiIsCurrent, Quiet, EventIsDue, EmitPcs
<1> QED
  BY <1>1, TInvInit, TInvInductive, PTL DEF Spec

\* "A run loop must not touch the tunnel once it has been replaced or ended"
\* (core/vpn/service.go, isActive): no loop enters a tunnel call unless it is
\* the live one at that very step, although the check is made steps before.
THEOREM ReplacedRunsKeepOff ==
  ASSUME OneCaller, "reconnect" \notin Ops, Timing \in {"fast", "slow"}
  PROVE  Spec => StaleRunsKeepOff
<1>1. TInv /\ [Next]_vars =>
        [\A r \in Runs : pc[r] \in {"start", "stop", "restop", "tdstop"} /\ pc'[r] # pc[r]
                            => active = r]_vars
  BY DEF TInv, NothingReconnects, LockIsHeld, StaleRunIsWaitedFor, TunnelPcs, HoldPcs
<1> QED
  BY <1>1, TInvInit, TInvInductive, PTL DEF Spec, StaleRunsKeepOff
=============================================================================
