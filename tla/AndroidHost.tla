---------------------------- MODULE AndroidHost -----------------------------
(***************************************************************************)
(* The Android side of connect and disconnect: MainActivity, Bridge, the   *)
(* VpnService and the proxy service (Kotlin), core/mobile (Go) and the TUN *)
(* descriptor's way into the engine (engine/platform_fd.go).               *)
(*                                                                         *)
(* The main thread takes taps, messages of the system (sys) and posted     *)
(* callbacks (posts), each to its end; every VPN start has a thread that   *)
(* establishes the TUN; one executor thread (queue) calls the core, which  *)
(* starts its engine, or gives up, on its own.  The core's requests are    *)
(* atomic here: module VpnService has their steps.                         *)
(*                                                                         *)
(* A connect is known by the number of its tap, which also names its       *)
(* channel result, its thread, its TUN descriptor and, when the start      *)
(* created one, the instance of the VpnService.  0 is none of them.        *)
(***************************************************************************)
EXTENDS Naturals, Sequences

CONSTANTS
    MaxTaps,    \* bound: taps on Connect
    MaxOff,     \* bound: taps on Disconnect
    MaxFaults,  \* bound: revokes, and services killed by the system
    TapModes    \* the connection modes the user may choose

ASSUME AndroidAssumption ==
    /\ MaxTaps \in Nat /\ MaxOff \in Nat /\ MaxFaults \in Nat
    /\ TapModes \subseteq {"vpn", "proxy"}

VARIABLES
    ui,          \* what the screen shows: the core is on
    taps,        \* taps on Connect so far
    offs,        \* taps on Disconnect so far
    faults,      \* faults so far
    consent,     \* VpnService.prepare has nothing to ask
    dialogs,     \* consent dialogs that are open
    dialogReq,   \* MainActivity.pendingConnectRequest
    pending,     \* Bridge.pendingConnect
    disconnects, \* Bridge.disconnectCount
    intent,      \* Bridge.connectGeneration
    over,        \* history: the user, a revoke or the end of the VpnService has
                 \* ended the connection since the last tap on Connect
    active,      \* Bridge.vpnServiceActive, proxyServiceActive
    queue,       \* tasks of Bridge.lifecycleExecutor
    calling,     \* the connect it is about to call the core for
    posts,       \* callbacks posted to the main thread
    answers,     \* answers each connect result was given
    am,          \* the system's view: the VpnService instance, whether it was
                 \* started, the TUN interface; whether the proxy service is up
    sys,         \* service messages of the system to the main thread
    instance,    \* OmniProxyVpnService.instance
    svc,         \* destroyed and tunPfd of each VpnService instance
    thr,         \* the thread of each VPN start
    fd,          \* the TUN descriptor of each thread
    platFd,      \* FdTunPlatform.fd
    core,        \* the core's state and mode
    engineFd     \* the TUN that the engine's own duplicate belongs to

appVars  == <<ui, taps, offs, consent, dialogs, dialogReq, pending, over>>
hostVars == <<am, sys, instance, svc, thr, fd>>
coreVars == <<calling, platFd, core, engineFd>>
vars == <<appVars, faults, disconnects, intent, active, queue, posts, answers, hostVars, coreVars>>

Reqs == 1 .. MaxTaps

Msg(op, i, r) == [op |-> op, inst |-> i, req |-> r]

\* A task of the executor: gen is the generation a connect was queued with,
\* then what its callback does beside answering result.
Task(op, req, result, gen, then) ==
    [op |-> op, req |-> req, result |-> result, gen |-> gen, then |-> then]

NoTask == Task("none", 0, 0, 0, "none")

Post(op, inst, result) == [op |-> op, inst |-> inst, result |-> result]

Init ==
    /\ ui = FALSE /\ taps = 0 /\ offs = 0 /\ faults = 0
    /\ consent \in BOOLEAN /\ dialogs = 0 /\ dialogReq = 0 /\ pending = 0
    /\ disconnects = 0 /\ intent = 0 /\ over = FALSE
    /\ active = [vpn |-> FALSE, proxy |-> FALSE]
    /\ queue = <<>> /\ calling = NoTask /\ posts = <<>> /\ sys = <<>>
    /\ answers = [r \in Reqs |-> 0]
    /\ am = [inst |-> 0, started |-> FALSE, iface |-> 0, proxy |-> FALSE]
    /\ instance = 0
    /\ svc = [i \in Reqs |-> [destroyed |-> FALSE, tun |-> 0]]
    /\ thr = [r \in Reqs |-> [pc |-> "none", inst |-> 0, result |-> 0]]
    /\ fd = [r \in Reqs |-> "none"]
    /\ platFd = 0 /\ engineFd = 0
    /\ core = [st |-> "off", mode |-> "vpn"]

-----------------------------------------------------------------------------
(* The system's service manager (external).  A VpnService stays bound as   *)
(* long as the interface it established last exists; a service that is     *)
(* neither started nor bound is destroyed.                                 *)

Bound(a) == a.iface # 0 /\ thr[a.iface].inst = a.inst

\* stopSelf of instance i, or stopService: what the manager records, and the
\* message it sends.
Stopped(a, i) ==
    IF i = 0 \/ a.inst # i THEN a
    ELSE IF Bound(a) THEN [a EXCEPT !.started = FALSE]
    ELSE [a EXCEPT !.started = FALSE, !.inst = 0]

StopMsg(a, i) == IF i # 0 /\ a.inst = i /\ ~ Bound(a) THEN <<Msg("destroy", i, 0)>> ELSE <<>>

\* The interface goes when its last descriptor is closed, and the binding with
\* it.
InterfaceRemoved ==
    LET a == [am EXCEPT !.iface = 0] IN
    /\ am.iface # 0 /\ fd[am.iface] # "open" /\ engineFd # am.iface
    /\ am' = IF am.started THEN a ELSE Stopped(a, am.inst)
    /\ sys' = IF am.started THEN sys ELSE sys \o StopMsg(a, am.inst)
    /\ UNCHANGED <<appVars, faults, disconnects, intent, active, queue, posts, answers,
                   instance, svc, thr, fd, coreVars>>

\* The system destroys a service it was not asked to stop.
KillService ==
    /\ faults < MaxFaults /\ faults' = faults + 1
    /\ \/ /\ am.inst # 0
          /\ am' = [am EXCEPT !.inst = 0, !.started = FALSE]
          /\ sys' = Append(sys, Msg("destroy", am.inst, 0))
       \/ /\ am.proxy
          /\ am' = [am EXCEPT !.proxy = FALSE]
          /\ sys' = Append(sys, Msg("destroyProxy", 0, 0))
    /\ UNCHANGED <<appVars, disconnects, intent, active, queue, posts, answers,
                   instance, svc, thr, fd, coreVars>>

-----------------------------------------------------------------------------
(* Taps: MainActivity.                                                     *)

\* The screen follows the core with a delay (module Events).
Observe ==
    /\ ui # (core.st # "off") /\ ui' = ~ ui
    /\ UNCHANGED <<taps, offs, consent, dialogs, dialogReq, pending, over, faults, disconnects,
                   intent, active, queue, posts, answers, hostVars, coreVars>>

\* startVpnHost
StartVpnHost(r, result) ==
    LET i == IF am.inst = 0 THEN r ELSE am.inst IN
    /\ pending' = result
    /\ am' = [am EXCEPT !.inst = i, !.started = TRUE]
    /\ sys' = Append(sys, Msg("start", i, r))

\* handleConnect
TapConnect(mode) ==
    LET r == taps + 1 IN
    /\ ~ ui /\ taps < MaxTaps
    /\ taps' = r
    /\ intent' = disconnects /\ over' = FALSE
    /\ \/ /\ mode = "proxy"
          /\ am' = [am EXCEPT !.proxy = TRUE]
          /\ sys' = Append(sys, Msg("startProxy", 0, r))
          /\ queue' = Append(queue, Task("connect", r, r, disconnects, "proxy"))
          /\ UNCHANGED <<dialogs, dialogReq, pending>>
       \/ /\ mode = "vpn" /\ consent
          /\ StartVpnHost(r, r)
          /\ UNCHANGED <<dialogs, dialogReq, queue>>
       \/ /\ mode = "vpn" /\ ~ consent
          /\ dialogReq' = r /\ pending' = r /\ dialogs' = dialogs + 1
          /\ UNCHANGED <<am, sys, queue>>
    /\ UNCHANGED <<ui, offs, consent, faults, disconnects, active, posts, answers,
                   instance, svc, thr, fd, coreVars>>

Answered(r) == IF r = 0 THEN answers ELSE [answers EXCEPT ![r] = @ + 1]

\* onActivityResult.  A second dialog finds no request any more, and refuses
\* whatever result is pending.  A consent with a request and no result, which
\* takes three taps, throws and ends the app's process: that is the end of
\* everything here, and left out.
ConsentResult(ok) ==
    /\ dialogs > 0 /\ dialogs' = dialogs - 1
    /\ consent' = (ok \/ consent)
    /\ dialogReq' = 0
    /\ \/ /\ ok /\ dialogReq # 0 /\ pending # 0   \* result!!
          /\ StartVpnHost(dialogReq, pending)
          /\ UNCHANGED answers
       \/ /\ ~ ok \/ dialogReq = 0
          /\ pending' = 0
          /\ answers' = Answered(pending)
          /\ UNCHANGED <<am, sys>>
    /\ UNCHANGED <<ui, taps, offs, over, faults, disconnects, intent, active, queue, posts,
                   instance, svc, thr, fd, coreVars>>

\* submitDisconnect and requestCoreDisconnect
SubmitDisconnect(req, then) ==
    /\ disconnects' = disconnects + 1
    /\ queue' = Append(queue, Task("disconnect", req, 0, 0, then))

\* handleDisconnect
TapDisconnect ==
    /\ ui /\ offs < MaxOff
    /\ offs' = offs + 1 /\ over' = TRUE
    /\ SubmitDisconnect(0, "hosts")
    /\ UNCHANGED <<ui, taps, consent, dialogs, dialogReq, pending, faults, intent, active, posts,
                   answers, hostVars, coreVars>>

-----------------------------------------------------------------------------
(* OmniProxyVpnService and VpnProxyService.                                *)

\* closeTun of instance i, as the function of the descriptors it leaves.
ClosedTun(i) == IF i = 0 \/ svc[i].tun = 0 THEN fd ELSE [fd EXCEPT ![svc[i].tun] = "closed"]

\* Mutant: the pending result is read and not taken.
OnStartCommandKeeps ==
    LET m == Head(sys) IN
    /\ sys # <<>> /\ m.op = "start"
    /\ sys' = Tail(sys)
    /\ instance' = IF m.inst = m.req THEN m.inst ELSE instance
    /\ active' = [active EXCEPT !.vpn = TRUE]
    /\ thr' = [thr EXCEPT ![m.req] = [pc |-> "establish", inst |-> m.inst, result |-> pending]]
    /\ UNCHANGED <<pending, ui, taps, offs, consent, dialogs, dialogReq, over, faults, disconnects, intent, queue,
                   posts, answers, am, svc, fd, coreVars>>

\* onStartCommand, after onCreate when the instance is new.
OnStartCommand ==
    LET m == Head(sys) IN
    /\ sys # <<>> /\ m.op = "start"
    /\ sys' = Tail(sys)
    /\ instance' = IF m.inst = m.req THEN m.inst ELSE instance
    /\ active' = [active EXCEPT !.vpn = TRUE]
    /\ thr' = [thr EXCEPT ![m.req] = [pc |-> "establish", inst |-> m.inst, result |-> pending]]
    /\ pending' = 0
    /\ UNCHANGED <<ui, taps, offs, consent, dialogs, dialogReq, over, faults, disconnects, intent, queue,
                   posts, answers, am, svc, fd, coreVars>>

\* The thread, up to establish(): the new interface takes the place of the old.
Establish(r) ==
    /\ thr[r].pc = "establish" /\ consent
    /\ fd' = [fd EXCEPT ![r] = "open"]
    /\ am' = [am EXCEPT !.iface = r]
    /\ thr' = [thr EXCEPT ![r].pc = "claim"]
    /\ UNCHANGED <<appVars, faults, disconnects, intent, active, queue, posts, answers, sys,
                   instance, svc, coreVars>>

\* The thread's catch: establish() returned null or threw, or the descriptor it
\* claimed was closed by a revoke or a teardown before pfd.fd was read.
EstablishFails(r) ==
    LET i == thr[r].inst IN
    /\ thr[r].pc = "establish" \/ (thr[r].pc = "setFd" /\ fd[r] # "open")
    /\ thr' = [thr EXCEPT ![r].pc = "done"]
    /\ answers' = Answered(thr[r].result)
    /\ fd' = ClosedTun(i)
    /\ svc' = [svc EXCEPT ![i].tun = 0]
    /\ am' = Stopped(am, i)
    /\ sys' = sys \o StopMsg(am, i)
    /\ UNCHANGED <<appVars, faults, disconnects, intent, active, queue, posts, instance, coreVars>>

\* Mutant: the torn-down flag is not looked at.
ClaimTunAlways(r) ==
    LET i == thr[r].inst IN
    /\ thr[r].pc = "claim"
    /\ svc' = [svc EXCEPT ![i].tun = r]
    /\ thr' = [thr EXCEPT ![r].pc = "setFd"]
    /\ UNCHANGED <<fd, appVars, faults, disconnects, intent, active, queue, posts, answers, am, sys,
                   instance, coreVars>>

\* claimTun: a service that is being torn down releases the fresh TUN.
ClaimTun(r) ==
    LET i == thr[r].inst IN
    /\ thr[r].pc = "claim"
    /\ \/ /\ svc[i].destroyed
          /\ fd' = [fd EXCEPT ![r] = "closed"]
          /\ thr' = [thr EXCEPT ![r].pc = "done"]
          /\ UNCHANGED svc
       \/ /\ ~ svc[i].destroyed
          /\ svc' = [svc EXCEPT ![i].tun = r]
          /\ thr' = [thr EXCEPT ![r].pc = "setFd"]
          /\ UNCHANGED fd
    /\ UNCHANGED <<appVars, faults, disconnects, intent, active, queue, posts, answers, am, sys,
                   instance, coreVars>>

\* mobile.SetSocketProtector and SetTunFd; pfd.fd throws on a closed descriptor.
SetTunFd(r) ==
    /\ thr[r].pc = "setFd" /\ fd[r] = "open"
    /\ platFd' = r
    /\ thr' = [thr EXCEPT ![r].pc = "submit"]
    /\ UNCHANGED <<appVars, faults, disconnects, intent, active, queue, posts, answers, am, sys,
                   instance, svc, fd, calling, core, engineFd>>

\* Mutant: the generation is read when the connect is queued.
SubmitConnectFresh(r) ==
    /\ thr[r].pc = "submit"
    /\ queue' = Append(queue, Task("connect", r, thr[r].result, disconnects, "vpn"))
    /\ thr' = [thr EXCEPT ![r].pc = "done"]
    /\ UNCHANGED <<appVars, faults, disconnects, intent, active, posts, answers, am, sys, instance,
                   svc, fd, coreVars>>

\* submitConnect: the generation is the one the last intent recorded.
SubmitConnect(r) ==
    /\ thr[r].pc = "submit"
    /\ queue' = Append(queue, Task("connect", r, thr[r].result, intent, "vpn"))
    /\ thr' = [thr EXCEPT ![r].pc = "done"]
    /\ UNCHANGED <<appVars, faults, disconnects, intent, active, posts, answers, am, sys, instance,
                   svc, fd, coreVars>>

\* onDestroy of the VpnService
OnDestroy ==
    LET m == Head(sys) IN
    /\ sys # <<>> /\ m.op = "destroy"
    /\ sys' = Tail(sys)
    /\ instance' = IF instance = m.inst THEN 0 ELSE instance
    /\ svc' = [svc EXCEPT ![m.inst] = [destroyed |-> TRUE, tun |-> 0]]
    /\ fd' = ClosedTun(m.inst)
    /\ active' = [active EXCEPT !.vpn = FALSE]
    /\ IF active.vpn THEN SubmitDisconnect(0, "none") ELSE UNCHANGED <<disconnects, queue>>
    /\ over' = (over \/ active.vpn)
    /\ UNCHANGED <<ui, taps, offs, consent, dialogs, dialogReq, pending, faults, intent, posts, answers, am, thr, coreVars>>

\* onRevoke: the system has taken the interface away.
OnRevoke ==
    LET i == am.inst
        a == [am EXCEPT !.iface = 0] IN
    /\ faults < MaxFaults /\ faults' = faults + 1
    /\ i # 0 /\ Bound(am)
    /\ consent' = FALSE /\ over' = TRUE
    /\ fd' = ClosedTun(i)
    /\ svc' = [svc EXCEPT ![i].tun = 0]
    /\ SubmitDisconnect(i, "stopSelf")
    /\ am' = Stopped(a, i)
    /\ sys' = sys \o StopMsg(a, i)
    /\ UNCHANGED <<ui, taps, offs, dialogs, dialogReq, pending, intent, active, posts, answers,
                   instance, thr, coreVars>>

\* VpnProxyService.onStartCommand and onDestroy
ProxyMessage ==
    LET m == Head(sys) IN
    /\ sys # <<>> /\ sys' = Tail(sys)
    /\ \/ /\ m.op = "startProxy"
          /\ active' = [active EXCEPT !.proxy = TRUE]
          /\ UNCHANGED <<disconnects, queue>>
       \/ /\ m.op = "destroyProxy"
          /\ active' = [active EXCEPT !.proxy = FALSE]
          /\ IF active.proxy THEN SubmitDisconnect(0, "none") ELSE UNCHANGED <<disconnects, queue>>
    /\ UNCHANGED <<appVars, faults, intent, posts, answers, am, instance, svc, thr, fd, coreVars>>

-----------------------------------------------------------------------------
(* Bridge.lifecycleExecutor and what it posts to the main thread.          *)

\* The task of submitConnect, as far as the comparison of the generations.
ExecConnect ==
    LET t == Head(queue) IN
    /\ calling = NoTask /\ queue # <<>> /\ t.op = "connect"
    /\ queue' = Tail(queue)
    /\ \/ /\ t.gen # disconnects
          /\ posts' = Append(posts, Post(IF t.then = "vpn" THEN "abort" ELSE "answer",
                                         thr[t.req].inst, t.result))
          /\ UNCHANGED calling
       \/ /\ t.gen = disconnects
          /\ calling' = t
          /\ UNCHANGED posts
    /\ UNCHANGED <<appVars, faults, disconnects, intent, active, answers, hostVars,
                   platFd, core, engineFd>>

\* Its call of the core; a disconnect may have been counted since.  The core
\* refuses a connect while it is busy, and may refuse it for the server's sake;
\* a refusal is an answer.
CallConnect ==
    /\ calling # NoTask /\ calling' = NoTask
    /\ posts' = Append(posts, Post("answer", 0, calling.result))
    /\ \/ core.st = "off" /\ core' = [st |-> "starting", mode |-> calling.then]
       \/ UNCHANGED core
    /\ UNCHANGED <<appVars, faults, disconnects, intent, active, queue, answers, hostVars,
                   platFd, engineFd>>

\* The task of a disconnect.  It takes the core at its word: a disconnect that
\* returned has stopped the engine, which holds as long as no start overtakes the
\* forced stop (NoOrphanTunnel of module Tunnel, and the run VpnLateStart).
ExecDisconnect ==
    LET t == Head(queue) IN
    /\ calling = NoTask /\ queue # <<>> /\ t.op = "disconnect"
    /\ queue' = Tail(queue)
    /\ core' = [core EXCEPT !.st = "off"] /\ engineFd' = 0
    /\ posts' = IF t.then = "none" THEN posts ELSE Append(posts, Post(t.then, t.req, 0))
    /\ UNCHANGED <<appVars, faults, disconnects, intent, active, answers, hostVars, calling, platFd>>

\* Mutant: an aborted start leaves its TUN to the end of the service.
PostedAbortKeeps ==
    LET p == Head(posts) IN
    /\ posts # <<>> /\ p.op = "abort"
    /\ posts' = Tail(posts)
    /\ am' = Stopped(am, p.inst)
    /\ sys' = sys \o StopMsg(am, p.inst)
    /\ answers' = Answered(p.result)
    /\ UNCHANGED <<appVars, faults, disconnects, intent, active, queue, instance, svc, fd, thr, coreVars>>

\* onAbort of a VPN start: closeTun and stopSelf.
PostedAbort ==
    LET p == Head(posts) IN
    /\ posts # <<>> /\ p.op = "abort"
    /\ posts' = Tail(posts)
    /\ fd' = ClosedTun(p.inst)
    /\ svc' = [svc EXCEPT ![p.inst].tun = 0]
    /\ am' = Stopped(am, p.inst)
    /\ sys' = sys \o StopMsg(am, p.inst)
    /\ answers' = Answered(p.result)
    /\ UNCHANGED <<appVars, faults, disconnects, intent, active, queue, instance, thr, coreVars>>

PostedAnswer ==
    LET p == Head(posts) IN
    /\ posts # <<>> /\ p.op = "answer"
    /\ posts' = Tail(posts)
    /\ answers' = Answered(p.result)
    /\ UNCHANGED <<appVars, faults, disconnects, intent, active, queue, hostVars, coreVars>>

PostedStopSelf ==
    LET p == Head(posts) IN
    /\ posts # <<>> /\ p.op = "stopSelf"
    /\ posts' = Tail(posts)
    /\ am' = Stopped(am, p.inst)
    /\ sys' = sys \o StopMsg(am, p.inst)
    /\ UNCHANGED <<appVars, faults, disconnects, intent, active, queue, answers, instance, svc, thr,
                   fd, coreVars>>

\* Mutant: stopService without releasing the TUN first.
StopConnectionHostsBound ==
    LET p == Head(posts) IN
    /\ posts # <<>> /\ p.op = "hosts"
    /\ posts' = Tail(posts)
    /\ active' = [vpn |-> FALSE, proxy |-> FALSE]
    /\ am' = [Stopped(am, am.inst) EXCEPT !.proxy = FALSE]
    /\ sys' = sys \o StopMsg(am, am.inst)
    /\ UNCHANGED <<appVars, faults, disconnects, intent, queue, answers, instance, svc, thr, fd, coreVars>>

\* stopConnectionHosts: releaseTun before stopService, the flags before both.
StopConnectionHosts ==
    LET p == Head(posts)
        i == IF active.vpn THEN instance ELSE 0
        a == IF active.vpn THEN Stopped(am, am.inst) ELSE am
    IN
    /\ posts # <<>> /\ p.op = "hosts"
    /\ posts' = Tail(posts)
    /\ active' = [vpn |-> FALSE, proxy |-> FALSE]
    /\ fd' = ClosedTun(i)
    /\ svc' = IF i = 0 THEN svc ELSE [svc EXCEPT ![i] = [destroyed |-> TRUE, tun |-> 0]]
    /\ am' = IF active.proxy THEN [a EXCEPT !.proxy = FALSE] ELSE a
    /\ sys' = sys \o (IF active.vpn THEN StopMsg(am, am.inst) ELSE <<>>)
                  \o (IF active.proxy /\ am.proxy THEN <<Msg("destroyProxy", 0, 0)>> ELSE <<>>)
    /\ UNCHANGED <<appVars, faults, disconnects, intent, queue, answers, instance, thr, coreVars>>

-----------------------------------------------------------------------------
(* The core's own steps.                                                   *)

\* Engine start.  OpenInterface duplicates the descriptor that is current, and
\* fails when there is none or it was closed; the core tries again later.
EngineStarts ==
    /\ core.st = "starting"
    /\ core.mode = "vpn" => platFd # 0 /\ fd[platFd] = "open"
    /\ core' = [core EXCEPT !.st = "on"]
    /\ engineFd' = IF core.mode = "vpn" THEN platFd ELSE 0
    /\ UNCHANGED <<appVars, faults, disconnects, intent, active, queue, posts, answers, hostVars, calling, platFd>>

\* The last attempt of the session's loop has failed too.  (An engine that is up
\* stays up until it is stopped: InProcessRunner.Lost never fires.)
EngineFails ==
    /\ core.st = "starting"
    /\ core' = [core EXCEPT !.st = "off"]
    /\ UNCHANGED <<appVars, faults, disconnects, intent, active, queue, posts, answers, hostVars,
                   calling, platFd, engineFd>>

-----------------------------------------------------------------------------

ThreadStep(r) ==
    Establish(r) \/ EstablishFails(r) \/ ClaimTun(r) \/ SetTunFd(r) \/ SubmitConnect(r)

MainStep ==
    \/ OnStartCommand \/ OnDestroy \/ ProxyMessage
    \/ PostedAbort \/ PostedAnswer \/ PostedStopSelf \/ StopConnectionHosts

ExecStep == ExecConnect \/ CallConnect \/ ExecDisconnect

Next ==
    \/ Observe \/ TapDisconnect \/ \E mode \in TapModes : TapConnect(mode)
    \/ \E ok \in BOOLEAN : ConsentResult(ok)
    \/ InterfaceRemoved \/ KillService \/ OnRevoke
    \/ \E r \in Reqs : ThreadStep(r)
    \/ MainStep \/ ExecStep
    \/ EngineStarts \/ EngineFails

Spec == Init /\ [][Next]_vars

\* Threads run, the main looper and the executor take what is queued, and a start
\* of the engine comes to an end: it is up, or the last attempt has failed.
FairSpec ==
    /\ Spec
    /\ \A r \in Reqs : WF_vars(ThreadStep(r))
    /\ WF_vars(MainStep) /\ WF_vars(ExecStep)
    /\ WF_vars(InterfaceRemoved) /\ WF_vars(EngineStarts \/ EngineFails)
-----------------------------------------------------------------------------
(* Properties.                                                             *)

\* A disconnect that was counted waits for the executor.
Owed == \E i \in 1 .. Len(queue) : queue[i].op = "disconnect"

\* The last word is a connect as long as no disconnect was counted since its
\* intent recorded the count.
Promise == INSTANCE Switch WITH
    want <- intent = disconnects, owed <- Owed, on <- core.st # "off"

\* The host implements Switch: however services, threads and callbacks
\* interleave, the core comes on only while some connect is the last word or a
\* disconnect still waits behind it, and a disconnect turns the core off.  (A late
\* thread that queues its connect under a newer intent is served as well.)
ImplementsSwitch == Promise!SwitchSpec

Tasks ==
    [op : {"connect", "disconnect"}, req : 0 .. MaxTaps, result : 0 .. MaxTaps, gen : Nat,
     then : {"vpn", "proxy", "hosts", "stopSelf", "none"}]
Messages == [op : {"start", "destroy", "startProxy", "destroyProxy"}, inst : 0 .. MaxTaps, req : 0 .. MaxTaps]
Posts    == [op : {"answer", "abort", "hosts", "stopSelf"}, inst : 0 .. MaxTaps, result : 0 .. MaxTaps]
Threads  == [pc : {"none", "establish", "claim", "setFd", "submit", "done"},
             inst : 0 .. MaxTaps, result : 0 .. MaxTaps]

\* The types; an intent records a count of the past.
TypeOK ==
    /\ ui \in BOOLEAN /\ consent \in BOOLEAN /\ over \in BOOLEAN
    /\ taps \in 0 .. MaxTaps /\ offs \in 0 .. MaxOff /\ faults \in 0 .. MaxFaults
    /\ dialogs \in Nat /\ dialogReq \in 0 .. MaxTaps /\ pending \in 0 .. MaxTaps
    /\ disconnects \in Nat /\ intent \in 0 .. disconnects
    /\ active \in [vpn : BOOLEAN, proxy : BOOLEAN]
    /\ queue \in Seq(Tasks) /\ calling \in Tasks \cup {NoTask}
    /\ posts \in Seq(Posts) /\ sys \in Seq(Messages)
    /\ answers \in [Reqs -> Nat]
    /\ am \in [inst : 0 .. MaxTaps, started : BOOLEAN, iface : 0 .. MaxTaps, proxy : BOOLEAN]
    /\ instance \in 0 .. MaxTaps
    /\ svc \in [Reqs -> [destroyed : BOOLEAN, tun : 0 .. MaxTaps]]
    /\ thr \in [Reqs -> Threads]
    /\ fd \in [Reqs -> {"none", "open", "closed"}]
    /\ platFd \in 0 .. MaxTaps /\ engineFd \in 0 .. MaxTaps
    /\ core \in [st : {"off", "starting", "on"}, mode : {"vpn", "proxy"}]

\* A channel result is answered at most once, over the threads, the executor
\* and the dialogs that may hold it (a second answer throws).
AnsweredOnce == \A r \in Reqs : answers[r] <= 1

\* Slots, flags and threads have their types, and no result is used twice.
HostOK == TypeOK /\ AnsweredOnce

\* Nothing is under way.
Settled ==
    /\ queue = <<>> /\ calling = NoTask /\ posts = <<>> /\ sys = <<>> /\ dialogs = 0
    /\ \A r \in Reqs : thr[r].pc \in {"none", "done"}
    /\ am.iface # 0 => fd[am.iface] = "open" \/ engineFd = am.iface

\* After a disconnect by the user, a revoke or the end of the VpnService, with
\* whatever faults before or after it, nothing is left once the work under way
\* is done: the engine has no TUN, and neither has a service.  (A disconnect
\* that the end of the proxy service requests leaves a TUN of the VpnService
\* alone.)
DisconnectReleasesTun ==
    Settled /\ over => engineFd = 0 /\ \A i \in Reqs : svc[i].tun = 0

\* Even with faults, a TUN that a service holds on to is one that the next
\* disconnect releases: the service is the current instance, and flagged.
HeldTunIsTracked ==
    Settled => \A i \in Reqs : svc[i].tun # 0 => active.vpn /\ instance = i /\ ~ svc[i].destroyed

\* A disconnect takes effect for good: when the user, a revoke or the end of the
\* VpnService has ended the connection and no new one is asked for, the core goes
\* off and stays off, its engine and every service let go of their TUN and take
\* none again: threads, dialogs and callbacks that are late bring nothing back.
\* (A descriptor that claimTun wrote over is nobody's, and stays open.)
DisconnectTakesEffect ==
    <>[]over => <>[](core.st = "off" /\ engineFd = 0 /\ \A i \in Reqs : svc[i].tun = 0)
=============================================================================
