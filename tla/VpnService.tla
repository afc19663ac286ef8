----------------------------- MODULE VpnService -----------------------------
(***************************************************************************)
(* vpn.Service (core/vpn/service.go): the connection state machine, the    *)
(* run loop (one goroutine per connect) and the callers of Connect,        *)
(* Disconnect and Reconnect, over the tunnel of module Tunnel.             *)
(*                                                                         *)
(* Every critical section of s.mu is one step; so is every receive, every  *)
(* publication of a stateChanged event (emitState runs outside s.mu) and   *)
(* each half of a tunnel call.  A run is a runState with its session; its  *)
(* pc names the next statement of runLoop.  A caller is a goroutine in a   *)
(* public method; production has one, the bridges serialise requests       *)
(* (glue.coreMu, mobile.mu).                                               *)
(*                                                                         *)
(* Calls that change nothing are not steps: Connect with an unknown or     *)
(* disabled server, Connect and Reconnect answering ErrBusy on entry.      *)
(***************************************************************************)
EXTENDS Tunnel

CONSTANTS
    Runs,         \* runStates, used once each: bounds the number of connects
    Callers,      \* goroutines calling the service's public methods
    Ops,          \* the public methods they call
    MaxAttempts,  \* RetryPolicy.MaxAttempts()
    Timing        \* how long things take, against the 5s disconnectTimeout:
                  \*   "fast" every runner call ends in time
                  \*   "slow" a runner call may outlast it and is then still in
                  \*          flight when the caller acts on the timeout
                  \*   "race" a runner call may outlast it and may return at the
                  \*          very moment the caller acts on the timeout
                  \*   "any"  any goroutine may be delayed past it

ASSUME ServiceAssumption ==
    /\ None \notin Runs \cup {"disconnect", "reconnect"}
    /\ Free \notin Runs \cup Callers
    /\ Runs \cap Callers = {}
    /\ Ops \subseteq {"connect", "disconnect", "reconnect", "setAuto"}
    /\ MaxAttempts \in Nat
    /\ Timing \in {"fast", "slow", "race", "any"}

States == {"disconnected", "connecting", "connected", "reconnecting", "error"}
Busy   == {"connecting", "connected", "reconnecting"}

VARIABLES
    state,      \* Service.state
    active,     \* Service.active: the live run, or nil
    session,    \* Service.session: the run whose session it is, or nil
    auto,       \* Service.auto
    ui,         \* the state in the last stateChanged event published
    pc,         \* per run: where its loop is
    attempt,    \* per run: the loop's attempt counter
    cmds,       \* per run: the command channel, of capacity one
    cancelled,  \* the runs whose context is done
    last,       \* per run: last entry of its session's StatusHistory
    ended,      \* the runs whose session has EndedAt set
    res,        \* per run: what the last Start returned, or "lost"
    chan,       \* per run: the connection whose lost channel it selects on
    cpc,        \* per caller: where it is
    crun        \* per caller: the runState it holds in a local variable

svcVars    == <<state, active, session, auto>>
sessVars   == <<last, ended>>
callerVars == <<cpc, crun>>
vars       == <<tunnelVars, svcVars, ui, pc, attempt, cmds, cancelled,
                sessVars, res, chan, callerVars>>

RunPcs == {"unused", "new", "start", "starting", "started", "up", "emitUp",
           "lostRead", "select", "lostCheck", "stopCheck", "stop", "stopping",
           "retry", "toRetry", "emitRetry", "wait", "toError", "emitError",
           "reconn", "emitReconn", "restop", "restopping",
           "teardown", "tdstop", "tdstopping", "emitDown", "finish", "done"}

CallerPcs == {"idle", "connect", "reap", "reapstop", "reapstopping",
              "reapwait", "create", "launch", "dreset", "dsend", "dwait",
              "force", "fstop", "fstopping", "emitOff", "dreply", "rsend"}

Init ==
    /\ TunnelInit
    /\ state = "disconnected"
    /\ active = None
    /\ session = None
    /\ auto = TRUE
    /\ ui = "disconnected"
    /\ pc = [r \in Runs |-> "unused"]
    /\ attempt = [r \in Runs |-> 0]
    /\ cmds = [r \in Runs |-> None]
    /\ cancelled = {}
    /\ last = [r \in Runs |-> "disconnected"]
    /\ ended = {}
    /\ res = [r \in Runs |-> "fail"]
    /\ chan = [r \in Runs |-> 0]
    /\ cpc = [c \in Callers |-> "idle"]
    /\ crun = [c \in Callers |-> None]

-----------------------------------------------------------------------------
(* Helpers.  The frames say what a kind of step leaves alone.              *)

\* Run r's loop moves on, from one statement to another.
Goto(r, from, to) == pc[r] = from /\ pc' = [pc EXCEPT ![r] = to]

\* A caller moves on.
CGoto(c, from, to) == cpc[c] = from /\ cpc' = [cpc EXCEPT ![c] = to]

\* sendCmd: a non-blocking send on a channel of capacity one.
SendCmd(r, cmd) ==
    cmds' = IF cmds[r] = None THEN [cmds EXCEPT ![r] = cmd] ELSE cmds

\* Where run r goes next when s.active == rs, and when it is not.
IfActive(r, from, yes, no) == Goto(r, from, IF active = r THEN yes ELSE no)

\* Run r's loop is blocked in a select that nothing is there to wake.
Parked(r) == pc[r] \in {"select", "wait"} /\ cmds[r] = None /\ r \notin cancelled

\* Mutant: the waits have no timeout.
NeverOverdue(r) == FALSE

\* The timeout of a select that waits for run r to finish can expire: the
\* loop is parked (a sendCmd that found the channel full was dropped), or it
\* is inside a runner call, or waits for m.mu behind one.
Overdue(r) ==
    \/ Timing = "any"
    \/ Parked(r)
    \/ /\ Timing \in {"slow", "race"}
       /\ \/ mlock = r
          \/ mlock # Free /\ pc[r] \in {"start", "stop", "restop", "tdstop", "lostRead"}

\* A runner call of a loop can return now.
CanReturn == Timing = "slow" => \A c \in Callers : cpc[c] # "force"

-----------------------------------------------------------------------------
(* The run loop.                                                           *)

\* s.tunnel.Start(p, mode): taking m.mu, and returning.
StartBegin(r) ==
    /\ Goto(r, "start", "starting")
    /\ Lock(r)
    /\ UNCHANGED <<svcVars, ui, attempt, cmds, cancelled, sessVars, res, chan, callerVars>>

StartEnd(r) ==
    /\ CanReturn
    /\ Goto(r, "starting", "started")
    /\ \E o \in StartOutcomes :
          /\ Start(r, o)
          /\ res' = [res EXCEPT ![r] = StartResult(o)]
    /\ UNCHANGED <<svcVars, ui, attempt, cmds, cancelled, sessVars, chan, callerVars>>

\* Mutant: the isActive check after Start is missing.
StartedUnchecked(r) ==
    /\ Goto(r, "started", IF res[r] = "ok" THEN "up" ELSE "stop")
    /\ UNCHANGED <<tunnelVars, svcVars, ui, attempt, cmds, cancelled, sessVars, res, chan, callerVars>>

\* Mutant: the error Start returned is not looked at.
StartedIgnoringError(r) ==
    /\ IfActive(r, "started", "up", "finish")
    /\ UNCHANGED <<tunnelVars, svcVars, ui, attempt, cmds, cancelled, sessVars, res, chan, callerVars>>

\* After Start: a run that was replaced or force-disconnected meanwhile exits
\* without touching anything.
Started(r) ==
    /\ IfActive(r, "started", IF res[r] = "ok" THEN "up" ELSE "stopCheck", "finish")
    /\ attempt' = IF active = r /\ res[r] = "ok" THEN [attempt EXCEPT ![r] = 0] ELSE attempt
    /\ UNCHANGED <<tunnelVars, svcVars, ui, cmds, cancelled, sessVars, res, chan, callerVars>>

\* Mutant: any run may transition the service, live or not.
TransitionUnchecked(r, st, from, emit, next) ==
    /\ Goto(r, from, emit)
    /\ state' = st
    /\ last' = [last EXCEPT ![r] = st]
    /\ UNCHANGED <<tunnelVars, active, session, auto, ui, attempt, cmds,
                   cancelled, ended, res, chan, callerVars>>

\* transition(rs, st, err): a no-op for a run that is no longer active; the
\* event is published after s.mu is released, in a step of its own.
Transition(r, st, from, emit, next) ==
    /\ IfActive(r, from, emit, next)
    /\ IF active = r
       THEN /\ state' = st
            /\ last' = [last EXCEPT ![r] = st]
       ELSE UNCHANGED <<state, last>>
    /\ UNCHANGED <<tunnelVars, active, session, auto, ui, attempt, cmds,
                   cancelled, ended, res, chan, callerVars>>

\* emitState at the end of transition and of teardown.
Emit(r, st, from, next) ==
    /\ Goto(r, from, next)
    /\ ui' = st
    /\ UNCHANGED <<tunnelVars, svcVars, attempt, cmds, cancelled, sessVars, res, chan, callerVars>>

Up(r)         == Transition(r, "connected", "up", "emitUp", "lostRead")
EmitUp(r)     == Emit(r, "connected", "emitUp", "lostRead")
ToRetry(r)    == Transition(r, "reconnecting", "toRetry", "emitRetry", "wait")
EmitRetry(r)  == Emit(r, "reconnecting", "emitRetry", "wait")
ToError(r)    == Transition(r, "error", "toError", "emitError", "finish")
EmitError(r)  == Emit(r, "error", "emitError", "finish")
Reconn(r)     == Transition(r, "reconnecting", "reconn", "emitReconn", "restop")
EmitReconn(r) == Emit(r, "reconnecting", "emitReconn", "restop")
EmitDown(r)   == Emit(r, "disconnected", "emitDown", "finish")

\* lost := s.tunnel.Lost(), which takes m.mu.
LostRead(r) ==
    /\ Goto(r, "lostRead", "select")
    /\ mlock = Free
    /\ chan' = [chan EXCEPT ![r] = conn]
    /\ UNCHANGED <<tunnelVars, svcVars, ui, attempt, cmds, cancelled, sessVars, res, callerVars>>

\* A receive from rs.cmds, at the connected select or in wait.
Receive(r, cmd, from, next) ==
    /\ cmds[r] = cmd
    /\ cmds' = [cmds EXCEPT ![r] = None]
    /\ Goto(r, from, next)
    /\ UNCHANGED <<tunnelVars, svcVars, ui, attempt, cancelled, sessVars, res, chan, callerVars>>

\* <-rs.ctx.Done(), at the connected select or in wait.
Cancelled(r, from) ==
    /\ r \in cancelled
    /\ Goto(r, from, "teardown")
    /\ UNCHANGED <<tunnelVars, svcVars, ui, attempt, cmds, cancelled, sessVars, res, chan, callerVars>>

SelectDisconnect(r) == Receive(r, "disconnect", "select", "teardown")
SelectReconnect(r)  == Receive(r, "reconnect", "select", "reconn")
SelectCancelled(r)  == Cancelled(r, "select")

SelectLost(r) ==
    /\ chan[r] \in closed
    /\ Goto(r, "select", "lostCheck")
    /\ UNCHANGED <<tunnelVars, svcVars, ui, attempt, cmds, cancelled, sessVars, res, chan, callerVars>>

\* if !s.isActive(rs) { return } of the lost case.
LostCheck(r) ==
    /\ IfActive(r, "lostCheck", "stopCheck", "finish")
    /\ res' = [res EXCEPT ![r] = "lost"]
    /\ UNCHANGED <<tunnelVars, svcVars, ui, attempt, cmds, cancelled, sessVars, chan, callerVars>>

\* Mutant: the tunnel is not stopped before a retry.
StopCheckSkipped(r) ==
    /\ Goto(r, "stopCheck", "retry")
    /\ UNCHANGED <<tunnelVars, svcVars, ui, attempt, cmds, cancelled, sessVars, res, chan, callerVars>>

\* stopIfActive: the check, whose answer is used after s.mu is released.
StopCheck(r) ==
    /\ IfActive(r, "stopCheck", "stop", "retry")
    /\ UNCHANGED <<tunnelVars, svcVars, ui, attempt, cmds, cancelled, sessVars, res, chan, callerVars>>

\* s.tunnel.Stop() in stopIfActive, in the reconnect case, in teardown.
StopCallBegin(r, from, in) ==
    /\ Goto(r, from, in)
    /\ Lock(r)
    /\ UNCHANGED <<svcVars, ui, attempt, cmds, cancelled, sessVars, res, chan, callerVars>>

StopCallEnd(r, in, next) ==
    /\ CanReturn
    /\ Goto(r, in, next)
    /\ Stop(r)
    /\ UNCHANGED <<svcVars, ui, cmds, cancelled, sessVars, res, chan, callerVars>>

StopBegin(r)     == StopCallBegin(r, "stop", "stopping")
StopEnd(r)       == StopCallEnd(r, "stopping", "retry") /\ UNCHANGED attempt
RestopBegin(r)   == StopCallBegin(r, "restop", "restopping")
\* attempt = 0; continue
RestopEnd(r)     == /\ StopCallEnd(r, "restopping", "start")
                    /\ attempt' = [attempt EXCEPT ![r] = 0]
TeardownBegin(r) == StopCallBegin(r, "tdstop", "tdstopping")
TeardownEnd(r)   == StopCallEnd(r, "tdstopping", "emitDown") /\ UNCHANGED attempt

ShouldRetry(r) == auto /\ (MaxAttempts = 0 \/ attempt[r] < MaxAttempts)

\* Mutant: the attempt counter stays.
RetryUncounted(r) ==
    /\ Goto(r, "retry", IF ShouldRetry(r) THEN "toRetry" ELSE "toError")
    /\ UNCHANGED <<tunnelVars, svcVars, ui, attempt, cmds, cancelled, sessVars, res, chan, callerVars>>

\* shouldRetry, then backoff and attempt++, or the error.
Retry(r) ==
    /\ Goto(r, "retry", IF ShouldRetry(r) THEN "toRetry" ELSE "toError")
    /\ attempt' = IF ShouldRetry(r) THEN [attempt EXCEPT ![r] = @ + 1] ELSE attempt
    /\ UNCHANGED <<tunnelVars, svcVars, ui, cmds, cancelled, sessVars, res, chan, callerVars>>

\* wait: a command or the end of the context wakes the select before a timer
\* that has not expired yet; the timer wins only when neither is there.
WaitDisconnect(r) == Receive(r, "disconnect", "wait", IF active = r THEN "teardown" ELSE "finish")
WaitReconnect(r)  == Receive(r, "reconnect", "wait", IF active = r THEN "start" ELSE "finish")
WaitCancelled(r)  == Cancelled(r, "wait")

WaitTimer(r) ==
    /\ Timing = "any" \/ (cmds[r] = None /\ r \notin cancelled)
    /\ IfActive(r, "wait", "start", "finish")
    /\ UNCHANGED <<tunnelVars, svcVars, ui, attempt, cmds, cancelled, sessVars, res, chan, callerVars>>

\* Mutant: teardown forgets to append to the session's history.
TeardownUnrecorded(r) ==
    /\ IfActive(r, "teardown", "tdstop", "finish")
    /\ state' = IF active = r THEN "disconnected" ELSE state
    /\ ended' = IF active = r THEN ended \cup {r} ELSE ended
    /\ UNCHANGED <<tunnelVars, active, session, auto, ui, attempt, cmds,
                   cancelled, last, res, chan, callerVars>>

\* teardown: the part under s.mu.
Teardown(r) ==
    /\ IfActive(r, "teardown", "tdstop", "finish")
    /\ IF active = r
       THEN /\ state' = "disconnected"
            /\ ended' = ended \cup {r}
            /\ last' = IF r \in ended THEN last ELSE [last EXCEPT ![r] = "disconnected"]
       ELSE UNCHANGED <<state, sessVars>>
    /\ UNCHANGED <<tunnelVars, active, session, auto, ui, attempt, cmds, cancelled, res, chan, callerVars>>

\* Mutant: finish clears s.active without asking whose it is.
FinishClearsAny(r) ==
    /\ Goto(r, "finish", "done")
    /\ active' = None
    /\ ended' = ended \cup {r}
    /\ UNCHANGED <<tunnelVars, state, session, auto, ui, attempt, cmds,
                   cancelled, last, res, chan, callerVars>>

\* defer s.finish(rs): release the service, stamp the session, close(rs.done).
Finish(r) ==
    /\ Goto(r, "finish", "done")
    /\ active' = IF active = r THEN None ELSE active
    /\ ended' = ended \cup {r}
    /\ UNCHANGED <<tunnelVars, state, session, auto, ui, attempt, cmds,
                   cancelled, last, res, chan, callerVars>>

-----------------------------------------------------------------------------
(* Connect.                                                                *)

\* The first critical section: refuse when busy (no step), or note the loop
\* that is still alive.  "connect" is the call Reconnect makes.
ConnectCheck(c) ==
    /\ \/ cpc[c] = "idle" /\ "connect" \in Ops /\ state \notin Busy
       \/ cpc[c] = "connect"
    /\ \E r \in Runs : pc[r] = "unused"
    /\ cpc' = [cpc EXCEPT ![c] =
                  IF state \in Busy THEN "idle" ELSE IF active = None THEN "create" ELSE "reap"]
    /\ crun' = [crun EXCEPT ![c] = active]
    /\ UNCHANGED <<tunnelVars, svcVars, ui, pc, attempt, cmds, cancelled, sessVars, res, chan>>

\* stale.cancel()
Reap(c) ==
    /\ CGoto(c, "reap", "reapstop")
    /\ cancelled' = cancelled \cup {crun[c]}
    /\ UNCHANGED <<tunnelVars, svcVars, ui, pc, attempt, cmds, sessVars, res, chan, crun>>

\* A caller's s.tunnel.Stop(), reaping a loop or after a force-disconnect.
CStopBegin(c, from, in) ==
    /\ CGoto(c, from, in)
    /\ Lock(c)
    /\ UNCHANGED <<svcVars, ui, pc, attempt, cmds, cancelled, sessVars, res, chan, crun>>

CStopEnd(c, in, next) ==
    /\ CGoto(c, in, next)
    /\ Stop(c)
    /\ UNCHANGED <<svcVars, ui, pc, attempt, cmds, cancelled, sessVars, res, chan, crun>>

ReapStopBegin(c) == CStopBegin(c, "reapstop", "reapstopping")
ReapStopEnd(c)   == CStopEnd(c, "reapstopping", "reapwait")

\* <-stale.done, or the timeout.
ReapWait(c) ==
    /\ CGoto(c, "reapwait", "create")
    /\ pc[crun[c]] = "done" \/ Overdue(crun[c])
    /\ UNCHANGED <<tunnelVars, svcVars, ui, pc, attempt, cmds, cancelled, sessVars, res, chan, crun>>

\* The second critical section: another Connect won, or a new run and session.
Create(c) ==
    \/ /\ state \in Busy
       /\ CGoto(c, "create", "idle")
       /\ UNCHANGED <<svcVars, pc, sessVars, crun>>
       /\ UNCHANGED <<tunnelVars, ui, attempt, cmds, cancelled, res, chan>>
    \/ /\ state \notin Busy
       /\ CGoto(c, "create", "launch")
       /\ \E r \in Runs :
             /\ Goto(r, "unused", "new")
             /\ active' = r
             /\ session' = r
             /\ crun' = [crun EXCEPT ![c] = r]
             /\ last' = [last EXCEPT ![r] = "connecting"]
       /\ state' = "connecting"
       /\ UNCHANGED <<tunnelVars, auto, ui, attempt, cmds, cancelled, ended, res, chan>>

\* emitState(Connecting); go s.runLoop(rs, p, mode)
Launch(c) ==
    /\ CGoto(c, "launch", "idle")
    /\ ui' = "connecting"
    /\ pc' = [pc EXCEPT ![crun[c]] = "start"]
    /\ UNCHANGED <<tunnelVars, svcVars, attempt, cmds, cancelled, sessVars, res, chan, crun>>

-----------------------------------------------------------------------------
(* Disconnect.                                                             *)

\* Read s.active and s.state.
DisconnectRead(c) ==
    /\ "disconnect" \in Ops
    /\ CGoto(c, "idle", IF active # None THEN "dsend"
                        ELSE IF state = "disconnected" THEN "dreply" ELSE "dreset")
    /\ crun' = [crun EXCEPT ![c] = active]
    /\ UNCHANGED <<tunnelVars, svcVars, ui, pc, attempt, cmds, cancelled, sessVars, res, chan>>

\* Mutant: the reset of a stale error is not published.
DisconnectResetSilent(c) ==
    /\ CGoto(c, "dreset", "dreply")
    /\ state' = "disconnected"
    /\ UNCHANGED <<tunnelVars, active, session, auto, ui, pc, attempt, cmds,
                   cancelled, sessVars, res, chan, crun>>

\* A stale error with no live loop is reset, in a second critical section.
DisconnectReset(c) ==
    /\ CGoto(c, "dreset", "emitOff")
    /\ state' = "disconnected"
    /\ UNCHANGED <<tunnelVars, active, session, auto, ui, pc, attempt, cmds,
                   cancelled, sessVars, res, chan, crun>>

DisconnectSend(c) ==
    /\ CGoto(c, "dsend", "dwait")
    /\ SendCmd(crun[c], "disconnect")
    /\ UNCHANGED <<tunnelVars, svcVars, ui, pc, attempt, cancelled, sessVars, res, chan, crun>>

\* <-rs.done
DisconnectDone(c) ==
    /\ CGoto(c, "dwait", "dreply")
    /\ pc[crun[c]] = "done"
    /\ UNCHANGED <<tunnelVars, svcVars, ui, pc, attempt, cmds, cancelled, sessVars, res, chan, crun>>

\* <-time.After(disconnectTimeout)
DisconnectTimeout(c) ==
    /\ CGoto(c, "dwait", "force")
    /\ pc[crun[c]] # "done"
    /\ Overdue(crun[c])
    /\ UNCHANGED <<tunnelVars, svcVars, ui, pc, attempt, cmds, cancelled, sessVars, res, chan, crun>>

\* Mutant: forceDisconnect leaves s.active to the loop it gives up on.
ForceKeepsActive(c) ==
    /\ CGoto(c, "force", IF active = None THEN "dreply" ELSE "fstop")
    /\ IF active = None
       THEN UNCHANGED <<state, cancelled, sessVars>>
       ELSE /\ cancelled' = cancelled \cup {active}
            /\ state' = "disconnected"
            /\ ended' = ended \cup {active}
            /\ last' = [last EXCEPT ![active] = "disconnected"]
    /\ UNCHANGED <<tunnelVars, active, session, auto, ui, pc, attempt, cmds, res, chan, crun>>

\* forceDisconnect: whatever run is active now is marked dead.
ForceDisconnect(c) ==
    /\ CGoto(c, "force", IF active = None THEN "dreply" ELSE "fstop")
    /\ IF active = None
       THEN UNCHANGED <<svcVars, cancelled, sessVars>>
       ELSE /\ cancelled' = cancelled \cup {active}
            /\ active' = None
            /\ state' = "disconnected"
            /\ ended' = ended \cup {active}
            /\ last' = IF active \in ended THEN last
                       ELSE [last EXCEPT ![active] = "disconnected"]
            /\ UNCHANGED <<session, auto>>
    /\ UNCHANGED <<tunnelVars, ui, pc, attempt, cmds, res, chan, crun>>

\* Mutant: forceDisconnect does not stop the tunnel.
ForceStopSkipped(c) ==
    /\ CGoto(c, "fstop", "emitOff")
    /\ UNCHANGED <<tunnelVars, svcVars, ui, pc, attempt, cmds, cancelled, sessVars, res, chan, crun>>

ForceStopBegin(c) == CStopBegin(c, "fstop", "fstopping")
ForceStopEnd(c)   == CStopEnd(c, "fstopping", "emitOff")

DisconnectEmit(c) ==
    /\ CGoto(c, "emitOff", "dreply")
    /\ ui' = "disconnected"
    /\ UNCHANGED <<tunnelVars, svcVars, pc, attempt, cmds, cancelled, sessVars, res, chan, crun>>

\* Facade.Disconnect answers with the state it reads after the call.
DisconnectReply(c) ==
    /\ CGoto(c, "dreply", "idle")
    /\ UNCHANGED <<tunnelVars, svcVars, ui, pc, attempt, cmds, cancelled, sessVars, res, chan, crun>>

-----------------------------------------------------------------------------
(* Reconnect and SetAutoReconnect.                                         *)

\* Read s.active, s.state and s.session; ErrBusy is no step.
ReconnectRead(c) ==
    /\ "reconnect" \in Ops
    /\ \/ /\ state \in {"connected", "reconnecting", "error"}
          /\ active # None
          /\ CGoto(c, "idle", "rsend")
       \/ /\ state = "error"
          /\ active = None
          /\ session # None
          /\ \E r \in Runs : pc[r] = "unused"
          /\ CGoto(c, "idle", "connect")
    /\ crun' = [crun EXCEPT ![c] = active]
    /\ UNCHANGED <<tunnelVars, svcVars, ui, pc, attempt, cmds, cancelled, sessVars, res, chan>>

ReconnectSend(c) ==
    /\ CGoto(c, "rsend", "idle")
    /\ SendCmd(crun[c], "reconnect")
    /\ UNCHANGED <<tunnelVars, svcVars, ui, pc, attempt, cancelled, sessVars, res, chan, crun>>

SetAutoReconnect(c) ==
    /\ "setAuto" \in Ops
    /\ cpc[c] = "idle"
    /\ auto' \in BOOLEAN
    /\ UNCHANGED <<tunnelVars, state, active, session, ui, pc, attempt, cmds,
                   cancelled, sessVars, res, chan, callerVars>>

-----------------------------------------------------------------------------

\* The tunnel is lost under the service.
LoseTunnel ==
    /\ Lose
    /\ UNCHANGED <<svcVars, ui, pc, attempt, cmds, cancelled, sessVars, res, chan, callerVars>>

\* A step of run r's loop that never waits for m.mu.
RunStep(r) ==
    \/ StartEnd(r) \/ Started(r)
    \/ Up(r) \/ EmitUp(r)
    \/ SelectDisconnect(r) \/ SelectReconnect(r) \/ SelectCancelled(r) \/ SelectLost(r)
    \/ LostCheck(r) \/ StopCheck(r) \/ StopEnd(r)
    \/ Retry(r) \/ ToRetry(r) \/ EmitRetry(r)
    \/ WaitDisconnect(r) \/ WaitReconnect(r) \/ WaitCancelled(r) \/ WaitTimer(r)
    \/ ToError(r) \/ EmitError(r)
    \/ Reconn(r) \/ EmitReconn(r) \/ RestopEnd(r)
    \/ Teardown(r) \/ TeardownEnd(r) \/ EmitDown(r) \/ Finish(r)

\* A step of run r's loop that takes m.mu.
RunLock(r) ==
    \/ StartBegin(r) \/ LostRead(r) \/ StopBegin(r) \/ RestopBegin(r) \/ TeardownBegin(r)

\* A call begins.
Call(c) ==
    \/ ConnectCheck(c) \/ DisconnectRead(c) \/ ReconnectRead(c) \/ SetAutoReconnect(c)

\* A call that has begun goes on.
CallerStep(c) ==
    \/ Reap(c) \/ ReapStopEnd(c) \/ ReapWait(c) \/ Create(c) \/ Launch(c)
    \/ DisconnectReset(c) \/ DisconnectSend(c) \/ DisconnectDone(c) \/ DisconnectTimeout(c)
    \/ ForceDisconnect(c) \/ ForceStopEnd(c) \/ DisconnectEmit(c) \/ DisconnectReply(c)
    \/ ReconnectSend(c)

CallerLock(c) == ReapStopBegin(c) \/ ForceStopBegin(c)

Next ==
    \/ \E r \in Runs : RunStep(r) \/ RunLock(r)
    \/ \E c \in Callers : Call(c) \/ CallerStep(c) \/ CallerLock(c)
    \/ LoseTunnel

Spec == Init /\ [][Next]_vars

-----------------------------------------------------------------------------
(* Fairness: goroutines run and runner calls return (weak fairness of every
   step that does not wait for m.mu, the timeouts included); m.mu is a Go
   mutex, which does not starve a waiter (strong fairness of the steps that
   take it).  Nobody has to call anything and the tunnel need not be lost. *)
Fairness ==
    /\ \A r \in Runs : WF_vars(RunStep(r)) /\ SF_vars(RunLock(r))
    /\ \A c \in Callers : WF_vars(CallerStep(c)) /\ SF_vars(CallerLock(c))
                          /\ WF_vars(cpc[c] = "connect" /\ ConnectCheck(c))

FairSpec == Spec /\ Fairness

-----------------------------------------------------------------------------
(* Properties.                                                             *)

\* What each variable of the service and of its tunnel may hold.
TypeOK ==
    /\ mlock \in Runs \cup Callers \cup {Free}
    /\ profile \in Runs \cup {None}
    /\ engine \in {"up", "down"}
    /\ conn \in Nat
    /\ closed \subseteq Nat
    /\ state \in States
    /\ active \in Runs \cup {None}
    /\ session \in Runs \cup {None}
    /\ auto \in BOOLEAN
    /\ ui \in States
    /\ pc \in [Runs -> RunPcs]
    /\ attempt \in [Runs -> Nat]
    /\ cmds \in [Runs -> {None, "disconnect", "reconnect"}]
    /\ cancelled \subseteq Runs
    /\ last \in [Runs -> States]
    /\ ended \subseteq Runs
    /\ res \in [Runs -> {"ok", "fail", "already", "lost"}]
    /\ chan \in [Runs -> Nat]
    /\ cpc \in [Callers -> CallerPcs]
    /\ crun \in [Callers -> Runs \cup {None}]

\* A busy state always has a live run behind it, that run's session is the
\* one the service reports, and the session's history agrees with the state.
\* Otherwise Connect would answer ErrBusy for ever with nothing to disconnect.
BusyHasLiveLoop ==
    state \in Busy => /\ active # None
                      /\ session = active
                      /\ last[active] = state

\* The steps of a loop that has given the session up: after the state was set
\* for the last time, and after the session was stamped as ended.
ExitPcs  == {"tdstop", "tdstopping", "emitDown", "emitError", "finish", "done"}
EndedPcs == {"tdstop", "tdstopping", "emitDown", "finish", "done"}

\* The live run is one that was created, and its session is the service's.
LiveRunIsCurrent == active # None => session = active /\ pc[active] # "unused"

\* A live run that is on its way out has already left the busy states.
ExitingRunIsIdle == \A r \in Runs : active = r /\ pc[r] \in ExitPcs => state \notin Busy

\* A run whose session has ended is replaced or on its way out; one that was
\* never used has not ended.
EndedRunIsOut ==
    \A r \in Runs : r \in ended => pc[r] # "unused" /\ (active # r \/ pc[r] \in EndedPcs)

\* A caller that is about to launch a run holds a run nobody else launches.
LaunchesAreOwn ==
    \A c \in Callers : cpc[c] = "launch" =>
        /\ crun[c] \in Runs
        /\ pc[crun[c]] = "new"
        /\ \A d \in Callers : cpc[d] = "launch" /\ crun[d] = crun[c] => d = c

\* A caller that waits for a run, or is about to signal one, holds a run.
CallersHoldRuns ==
    \A c \in Callers :
        cpc[c] \in {"reap", "reapstop", "reapstopping", "reapwait", "dsend", "dwait", "rsend"}
            => crun[c] \in Runs

\* The inductive invariant behind BusyHasLiveLoop and SessionFrozen.
IInv ==
    /\ TypeOK
    /\ LiveRunIsCurrent
    /\ BusyHasLiveLoop
    /\ ExitingRunIsIdle
    /\ EndedRunIsOut
    /\ LaunchesAreOwn
    /\ CallersHoldRuns

\* RunningTo, which guards editing and deleting a server, reads the session's
\* history; it must say "running" exactly while the service is busy.
RunningToIsExact ==
    session # None => (last[session] \in Busy <=> state \in Busy)

\* A tunnel call that ends a session is on its way.
StopPending ==
    \/ active # None /\ pc[active] \in {"tdstop", "tdstopping"}
    \/ \E c \in Callers : cpc[c] \in {"fstop", "fstopping"}

\* "A half-started tunnel can never keep routing traffic under a Disconnected
\* or Error session" (manager.go): an engine is up only while the service is
\* busy, or until the Stop that is on its way.
NoOrphanTunnel == engine = "up" => state \in Busy \/ StopPending

\* The backoff of a failed start or of a lost tunnel is spent with the tunnel
\* down and forgotten, so that the retry can start it again.
BackoffIsDark ==
    \A r \in Runs : pc[r] = "wait" /\ active = r => engine = "down" /\ profile = None

\* Connected means the live run's tunnel is up, or its loss is already
\* signalled to the loop.
ConnectedIsUp ==
    state = "connected" => (profile = active /\ engine = "up") \/ conn \in closed

\* When Disconnect has returned, by whichever way, no run is live and the
\* tunnel is down; only an error may be left to look at.
DisconnectSettles ==
    \A c \in Callers : cpc[c] = "dreply" =>
        /\ active = None
        /\ engine = "down"
        /\ state \in {"disconnected", "error"}

\* Nothing is happening: no call in progress, every loop parked or gone.
Quiet ==
    /\ \A c \in Callers : cpc[c] = "idle"
    /\ \A r \in Runs : pc[r] \in {"unused", "select", "wait", "done"}
    /\ active # None => chan[active] \notin closed \/ pc[active] = "wait"

\* Events are published outside s.mu; when nothing is happening the last one
\* published is nevertheless the service's state, as long as no loop had to be
\* cancelled.
UiIsCurrent == Quiet /\ cancelled = {} => ui = state

\* The history of a session that has ended never changes again, whatever the
\* loop it belonged to still does.
SessionFrozen ==
    [][\A r \in Runs : r \in ended => r \in ended' /\ last'[r] = last[r]]_vars

\* "A run loop must not touch the tunnel once it has been replaced or ended"
\* (isActive): a loop enters a tunnel call only while it is the live one.
StaleRunsKeepOff ==
    [][\A r \in Runs : pc[r] \in {"start", "stop", "restop", "tdstop"} /\ pc'[r] # pc[r]
                          => active = r]_vars

Fsm == INSTANCE ConnectionFsm

\* The service goes through the documented state machine: whatever loops and
\* callers do, the state a client reads moves along ConnectionFsm's edges only.
FollowsFsm == Fsm!Spec

\* Every call comes back to its caller.
CallsReturn == \A c \in Callers : []<>(cpc[c] = "idle")

\* Dialling ends, retries included: in a tunnel that is up, in an error, or by
\* the user's hand.
RetriesEnd ==
    state \in {"connecting", "reconnecting"} ~> state \notin {"connecting", "reconnecting"}
=============================================================================
