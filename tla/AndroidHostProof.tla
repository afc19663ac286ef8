-------------------------- MODULE AndroidHostProof --------------------------
(***************************************************************************)
(* What AndroidHost promises, for any number of taps, faults and threads.  *)
(*                                                                         *)
(* It implements Switch: the last word wins (HostInv; only the executor's  *)
(* queue and the two counters of Bridge matter for that).  Its state is    *)
(* well formed (TypeInv).  Instances of the VpnService follow each other   *)
(* in the order of the system's messages, so a TUN is held by the current  *)
(* instance only (TunInv).  Once a connection is over, a TUN that is still *)
(* held is on its way to be released (ReleaseInv).  A channel result is in *)
(* one place at a time (ResultInv).                                        *)
(***************************************************************************)
EXTENDS AndroidHost, TLAPS

\* The intent is a count of disconnects that Bridge has seen.
Counters ==
    /\ disconnects \in Nat
    /\ intent \in Nat /\ intent <= disconnects

\* No connect was queued under a generation that no intent had recorded.
ConnectsFollowIntent ==
    /\ \E S : queue \in Seq(S)
    /\ \A i \in 1 .. Len(queue) :
          queue[i].op = "connect" => queue[i].gen \in Nat /\ queue[i].gen <= intent

\* A connect that has passed the comparison is still the last word, or the
\* disconnect that overtook it is behind it in the queue.
CallIsWanted == calling # NoTask => intent = disconnects \/ Owed

CoreIsRecord == core = [st |-> core.st, mode |-> core.mode]

HostInv == Counters /\ ConnectsFollowIntent /\ CallIsWanted /\ CoreIsRecord

-----------------------------------------------------------------------------
(* The steps, as far as the invariant can see them.                        *)

bridgeVars == <<queue, calling, intent, disconnects, core>>

Ask ==
    /\ intent' = disconnects
    /\ \/ UNCHANGED queue
       \/ \E r : queue' = Append(queue, Task("connect", r, r, disconnects, "proxy"))
    /\ UNCHANGED <<calling, disconnects, core>>

Count ==
    /\ \E r, then : SubmitDisconnect(r, then)
    /\ UNCHANGED <<calling, intent, core>>

Queue ==
    /\ \E r, result : queue' = Append(queue, Task("connect", r, result, intent, "vpn"))
    /\ UNCHANGED <<calling, intent, disconnects, core>>

\* Every step of the app, its services and the core leaves Bridge's queue and
\* counters alone, is a tap on Connect (Ask), a submitted disconnect (Count), a
\* thread that submits its connect (Queue), or a step of the executor or engine.
LEMMA StepCases ==
  ASSUME [Next]_vars
  PROVE  \/ UNCHANGED bridgeVars \/ Ask \/ Count \/ Queue
         \/ ExecConnect \/ CallConnect \/ ExecDisconnect
         \/ EngineStarts \/ EngineFails
<1> USE DEF bridgeVars, appVars, hostVars, coreVars
<1>1. ASSUME NEW mode \in TapModes, TapConnect(mode) PROVE Ask
  BY <1>1 DEF TapConnect, StartVpnHost, Ask
<1>2. ASSUME NEW ok \in BOOLEAN, ConsentResult(ok) PROVE UNCHANGED bridgeVars
  BY <1>2 DEF ConsentResult
<1>3. CASE TapDisconnect
  BY <1>3 DEF TapDisconnect, Count
<1>4. CASE OnRevoke
  BY <1>4 DEF OnRevoke, Count
<1>5. CASE OnDestroy
  BY <1>5 DEF OnDestroy, Count
<1>6. CASE ProxyMessage
  BY <1>6 DEF ProxyMessage, Count
<1>7. ASSUME NEW r \in Reqs, ThreadStep(r) PROVE UNCHANGED bridgeVars \/ Queue
  BY <1>7 DEF ThreadStep, Establish, EstablishFails, ClaimTun, SetTunFd, SubmitConnect, Queue
<1>8. CASE InterfaceRemoved \/ KillService \/ Observe \/ OnStartCommand
  BY <1>8 DEF InterfaceRemoved, KillService, Observe, OnStartCommand
<1>9. CASE PostedAbort \/ PostedAnswer \/ PostedStopSelf \/ StopConnectionHosts
  BY <1>9 DEF PostedAbort, PostedAnswer, PostedStopSelf, StopConnectionHosts
<1>10. CASE UNCHANGED vars
  BY <1>10 DEF vars
<1> QED
  BY <1>1, <1>2, <1>3, <1>4, <1>5, <1>6, <1>7, <1>8, <1>9, <1>10 DEF Next, MainStep, ExecStep

-----------------------------------------------------------------------------
(* What Append and Tail do to the queue.                                   *)

\* A submitted task goes behind the ones that are queued.
LEMMA AppendFacts ==
  ASSUME NEW S, NEW s \in Seq(S), NEW e
  PROVE  /\ Append(s, e) \in Seq(S \cup {e})
         /\ Len(Append(s, e)) = Len(s) + 1
         /\ \A i \in 1 .. Len(s) : Append(s, e)[i] = s[i]
         /\ Append(s, e)[Len(s) + 1] = e
<1>1. s \in Seq(S \cup {e})
  OBVIOUS
<1> QED
  BY <1>1

\* The executor takes the first task and leaves the others in their order.
LEMMA TailFacts ==
  ASSUME NEW S, NEW s \in Seq(S), s # <<>>
  PROVE  /\ Tail(s) \in Seq(S) /\ Len(Tail(s)) = Len(s) - 1
         /\ \A i \in 1 .. Len(s) - 1 : Tail(s)[i] = s[i + 1]
         /\ Head(s) = s[1] /\ Len(s) \in Nat \ {0}
  OBVIOUS

\* Behind a queue that has a disconnect, or with one, there is one.
LEMMA OwedAppend ==
  ASSUME NEW S, queue \in Seq(S), NEW e, queue' = Append(queue, e)
  PROVE  Owed' <=> Owed \/ e.op = "disconnect"
<1>1. /\ Len(queue) \in Nat /\ Len(queue') = Len(queue) + 1
      /\ \A i \in 1 .. Len(queue) : queue'[i] = queue[i]
      /\ queue'[Len(queue) + 1] = e
  BY AppendFacts
<1> QED
  BY <1>1 DEF Owed

\* Taking a task off the queue forgets no disconnect but the one that is taken.
LEMMA OwedTail ==
  ASSUME NEW S, queue \in Seq(S), queue # <<>>, queue' = Tail(queue)
  PROVE  Owed <=> Owed' \/ Head(queue).op = "disconnect"
<1>1. /\ Len(queue) \in Nat \ {0} /\ Len(queue') = Len(queue) - 1
      /\ \A i \in 1 .. Len(queue) - 1 : queue'[i] = queue[i + 1]
      /\ Head(queue) = queue[1]
  BY TailFacts
<1>2. ASSUME Owed PROVE Owed' \/ Head(queue).op = "disconnect"
  <2>1. PICK i \in 1 .. Len(queue) : queue[i].op = "disconnect"
    BY <1>2 DEF Owed
  <2>2. CASE i = 1
    BY <1>1, <2>1, <2>2
  <2>3. CASE i # 1
    <3>1. i - 1 \in 1 .. Len(queue') /\ queue'[i - 1] = queue[i]
      BY <1>1, <2>1, <2>3
    <3> QED
      BY <2>1, <3>1 DEF Owed
  <2> QED
    BY <2>2, <2>3
<1>3. ASSUME Owed' PROVE Owed
  <2>1. PICK i \in 1 .. Len(queue') : queue'[i].op = "disconnect"
    BY <1>3 DEF Owed
  <2>2. i + 1 \in 1 .. Len(queue) /\ queue[i + 1] = queue'[i]
    BY <1>1, <2>1
  <2> QED
    BY <2>1, <2>2 DEF Owed
<1>4. ASSUME Head(queue).op = "disconnect" PROVE Owed
  BY <1>1, <1>4 DEF Owed
<1> QED
  BY <1>2, <1>3, <1>4

\* A connect is queued under a generation that is not ahead of the intent.
LEMMA ConnectAppend ==
  ASSUME ConnectsFollowIntent, NEW e, queue' = Append(queue, e),
         intent \in Nat, intent' \in Nat, intent <= intent',
         e.op = "connect" => e.gen \in Nat /\ e.gen <= intent'
  PROVE  ConnectsFollowIntent'
<1>1. PICK S : queue \in Seq(S)
  BY DEF ConnectsFollowIntent
<1>2. /\ queue' \in Seq(S \cup {e})
      /\ Len(queue) \in Nat /\ Len(queue') = Len(queue) + 1
      /\ \A i \in 1 .. Len(queue) : queue'[i] = queue[i]
      /\ queue'[Len(queue) + 1] = e
  BY <1>1, AppendFacts
<1>3. ASSUME NEW i \in 1 .. Len(queue'), queue'[i].op = "connect"
      PROVE  queue'[i].gen \in Nat /\ queue'[i].gen <= intent'
  <2>1. CASE i \in 1 .. Len(queue)
    BY <1>2, <1>3, <2>1 DEF ConnectsFollowIntent
  <2>2. CASE i = Len(queue) + 1
    BY <1>2, <1>3, <2>2
  <2> QED
    BY <1>2, <2>1, <2>2
<1> QED
  BY <1>2, <1>3 DEF ConnectsFollowIntent

-----------------------------------------------------------------------------

\* Nothing is queued or called when the app starts.
LEMMA HostInvInit == Init => HostInv
<1> SUFFICES ASSUME Init PROVE HostInv
  OBVIOUS
<1>1. queue \in Seq({})
  BY DEF Init
<1> QED
  BY <1>1 DEF Init, HostInv, Counters, ConnectsFollowIntent, CallIsWanted, CoreIsRecord

\* Every step keeps the counters, the queued connects and the called connect in
\* agreement.
LEMMA HostInvInductive == HostInv /\ [Next]_vars => HostInv'
<1> SUFFICES ASSUME HostInv, [Next]_vars PROVE HostInv'
  OBVIOUS
<1>0. PICK S : queue \in Seq(S)
  BY DEF HostInv, ConnectsFollowIntent
<1>1. CASE UNCHANGED bridgeVars
  BY <1>1 DEF bridgeVars, HostInv, Counters, ConnectsFollowIntent, CallIsWanted, CoreIsRecord, Owed
<1>2. CASE Ask
  <2>1. Counters' /\ CallIsWanted' /\ CoreIsRecord'
    BY <1>2 DEF Ask, HostInv, Counters, CallIsWanted, CoreIsRecord
  <2>2. CASE UNCHANGED queue
    BY <1>2, <2>1, <2>2 DEF Ask, HostInv, Counters, ConnectsFollowIntent
  <2>3. ASSUME NEW r, queue' = Append(queue, Task("connect", r, r, disconnects, "proxy"))
        PROVE  ConnectsFollowIntent'
    <3> DEFINE t == Task("connect", r, r, disconnects, "proxy")
    <3>1. t.gen = disconnects
      BY DEF Task
    <3> HIDE DEF t
    <3> QED
      BY <1>2, <2>3, <3>1, ConnectAppend DEF t, Ask, HostInv, Counters
  <2> QED
    BY <1>2, <2>1, <2>2, <2>3 DEF Ask, HostInv
<1>3. CASE Count
  <2>1. PICK r, then : SubmitDisconnect(r, then)
    BY <1>3 DEF Count
  <2> DEFINE t == Task("disconnect", r, 0, 0, then)
  <2>2. t.op = "disconnect"
    BY DEF Task
  <2>3. queue' = Append(queue, t)
    BY <2>1 DEF SubmitDisconnect
  <2> HIDE DEF t
  <2>4. ConnectsFollowIntent' /\ Owed'
    BY <1>0, <1>3, <2>2, <2>3, ConnectAppend, OwedAppend DEF Count, HostInv, Counters
  <2> QED
    BY <1>3, <2>1, <2>4 DEF Count, SubmitDisconnect, HostInv, Counters, CallIsWanted, CoreIsRecord
<1>4. CASE Queue
  <2>1. PICK r, result : queue' = Append(queue, Task("connect", r, result, intent, "vpn"))
    BY <1>4 DEF Queue
  <2> DEFINE t == Task("connect", r, result, intent, "vpn")
  <2>2. t.op = "connect" /\ t.gen = intent
    BY DEF Task
  <2> HIDE DEF t
  <2>3. ConnectsFollowIntent' /\ (Owed => Owed')
    BY <1>0, <1>4, <2>1, <2>2, ConnectAppend, OwedAppend DEF t, Queue, HostInv, Counters
  <2> QED
    BY <1>4, <2>3 DEF Queue, HostInv, Counters, CallIsWanted, CoreIsRecord
<1>5. CASE ExecConnect
  <2>1. ConnectsFollowIntent'
    BY <1>0, <1>5, TailFacts DEF ExecConnect, HostInv, ConnectsFollowIntent
  <2>2. Head(queue).gen = disconnects => intent = disconnects
    BY <1>0, <1>5, TailFacts DEF ExecConnect, HostInv, Counters, ConnectsFollowIntent
  <2> QED
    BY <1>5, <2>1, <2>2 DEF ExecConnect, HostInv, Counters, CallIsWanted, CoreIsRecord
<1>6. CASE CallConnect
  BY <1>6 DEF CallConnect, HostInv, Counters, ConnectsFollowIntent, CallIsWanted, CoreIsRecord
<1>7. CASE ExecDisconnect
  <2>1. ConnectsFollowIntent'
    BY <1>0, <1>7, TailFacts DEF ExecDisconnect, HostInv, ConnectsFollowIntent
  <2> QED
    BY <1>7, <2>1 DEF ExecDisconnect, HostInv, Counters, CallIsWanted, CoreIsRecord
<1>8. CASE EngineStarts \/ EngineFails
  BY <1>8 DEF EngineStarts, EngineFails, HostInv, Counters, ConnectsFollowIntent, CallIsWanted,
     CoreIsRecord, Owed
<1> QED
  BY StepCases, <1>1, <1>2, <1>3, <1>4, <1>5, <1>6, <1>7, <1>8

-----------------------------------------------------------------------------
(* Every step is one of Switch.                                            *)

\* A tap on Connect asks for on, a submitted disconnect for off, the executor's
\* calls turn on and serve off, a failed engine drops; the rest is a stutter.
LEMMA StepIsSwitchStep ==
  ASSUME HostInv, [Next]_vars
  PROVE  [Promise!SwitchNext]_(Promise!switchVars)
<1> DEFINE on == core.st # "off"
<1>0. PICK S : queue \in Seq(S)
  BY DEF HostInv, ConnectsFollowIntent
<1>1. CASE UNCHANGED bridgeVars
  BY <1>1 DEF bridgeVars, Owed, Promise!switchVars
<1>2. CASE Ask
  <2>1. Owed' <=> Owed
    <3>1. CASE UNCHANGED queue
      BY <3>1 DEF Owed
    <3>2. ASSUME NEW r, queue' = Append(queue, Task("connect", r, r, disconnects, "proxy"))
          PROVE  Owed' <=> Owed
      BY <1>0, <3>2, OwedAppend DEF Task
    <3> QED
      BY <1>2, <3>1, <3>2 DEF Ask
  <2> QED
    BY <1>2, <2>1 DEF Ask, Promise!SwitchNext, Promise!AskOn
<1>3. CASE Count
  <2>1. Owed'
    BY <1>0, <1>3, OwedAppend DEF Count, SubmitDisconnect, Task
  <2>2. intent' # disconnects'
    BY <1>3 DEF Count, SubmitDisconnect, HostInv, Counters
  <2> QED
    BY <1>3, <2>1, <2>2 DEF Count, Promise!SwitchNext, Promise!AskOff
<1>4. CASE Queue
  <2>1. Owed' <=> Owed
    BY <1>0, <1>4, OwedAppend DEF Queue, Task
  <2> QED
    BY <1>4, <2>1 DEF Queue, Promise!switchVars
<1>5. CASE ExecConnect
  <2>1. Owed' <=> Owed
    BY <1>0, <1>5, OwedTail DEF ExecConnect
  <2> QED
    BY <1>5, <2>1 DEF ExecConnect, Promise!switchVars
<1>6. CASE CallConnect
  <2>1. Owed' <=> Owed
    BY <1>6 DEF CallConnect, Owed
  <2>2. (intent = disconnects) \/ Owed
    BY <1>6 DEF CallConnect, HostInv, CallIsWanted
  <2> QED
    BY <1>6, <2>1, <2>2 DEF CallConnect, Promise!SwitchNext, Promise!TurnOn, Promise!switchVars
<1>7. CASE ExecDisconnect
  <2>1. Owed
    BY <1>0, <1>7, OwedTail DEF ExecDisconnect
  <2>2. core'.st = "off"
    BY <1>7 DEF ExecDisconnect, HostInv, CoreIsRecord
  <2>3. UNCHANGED <<intent, disconnects>>
    BY <1>7 DEF ExecDisconnect
  <2>4. Owed' \in BOOLEAN
    BY DEF Owed
  <2> QED
    BY <2>1, <2>2, <2>3, <2>4 DEF Promise!SwitchNext, Promise!ServeOff
<1>8. CASE EngineStarts
  <2>1. core.st # "off" /\ core'.st # "off"
    BY <1>8 DEF EngineStarts, HostInv, CoreIsRecord
  <2> QED
    BY <1>8, <2>1 DEF EngineStarts, Owed, Promise!switchVars
<1>9. CASE EngineFails
  <2>1. core.st # "off" /\ core'.st = "off"
    BY <1>9 DEF EngineFails, HostInv, CoreIsRecord
  <2> QED
    BY <1>9, <2>1 DEF EngineFails, Owed, Promise!SwitchNext, Promise!Drop
<1> QED
  BY StepCases, <1>1, <1>2, <1>3, <1>4, <1>5, <1>6, <1>7, <1>8, <1>9

-----------------------------------------------------------------------------

\* The counters of Bridge and its queue agree in every reachable state: no
\* queued connect is ahead of the last intent, and a connect that has passed
\* the comparison is wanted or about to be undone.
THEOREM Invariance == Spec => []HostInv
  BY HostInvInit, HostInvInductive, PTL DEF Spec

\* MainActivity, Bridge and the services implement Switch, for any number of
\* taps, revokes, killed services and threads, in any order.
THEOREM HostImplementsSwitch == Spec => ImplementsSwitch
<1>1. Init => Promise!SwitchInit
  BY DEF Init, Promise!SwitchInit, Owed
<1>2. HostInv /\ [Next]_vars => [Promise!SwitchNext]_(Promise!switchVars)
  BY StepIsSwitchStep
<1> QED
  BY <1>1, <1>2, Invariance, PTL DEF Spec, ImplementsSwitch, Promise!SwitchSpec

\* The last word wins: when the executor has served every disconnect and none
\* of the taps since was on Connect, the core is off.
THEOREM TheLastWordWins == Spec => []Promise!LastWordWins
<1>1. Promise!SwitchInit => Promise!LastWordWins
  BY DEF Promise!SwitchInit, Promise!LastWordWins
<1>2. Promise!LastWordWins /\ [Promise!SwitchNext]_(Promise!switchVars) => Promise!LastWordWins'
  BY DEF Promise!LastWordWins, Promise!SwitchNext, Promise!switchVars, Promise!AskOn, Promise!AskOff,
     Promise!TurnOn, Promise!ServeOff, Promise!Drop
<1> QED
  BY <1>1, <1>2, HostImplementsSwitch, PTL DEF ImplementsSwitch, Promise!SwitchSpec
-----------------------------------------------------------------------------
(* Types.                                                                  *)

\* What the queues hold: a start names its request and its instance, and a
\* connect its request.
GoodMessages ==
    {m \in Messages : /\ m.op \in {"start", "destroy"} => m.inst \in Reqs
                      /\ m.op = "start" => m.req \in Reqs}
GoodTasks ==
    {t \in Tasks : IF t.op = "connect" THEN t.req \in Reqs /\ t.then \in {"vpn", "proxy"}
                   ELSE t.then \in {"hosts", "stopSelf", "none"}}

Live(r) == thr[r].pc \in {"establish", "claim", "setFd", "submit"}

AmRecords == [inst : 0 .. MaxTaps, started : BOOLEAN, iface : 0 .. MaxTaps, proxy : BOOLEAN]

FlagTypes == ui \in BOOLEAN /\ consent \in BOOLEAN /\ over \in BOOLEAN

AppTypes ==
    /\ taps \in 0 .. MaxTaps /\ offs \in 0 .. MaxOff /\ faults \in 0 .. MaxFaults
    /\ dialogs \in Nat /\ dialogReq \in 0 .. MaxTaps /\ pending \in 0 .. MaxTaps

BridgeTypes ==
    /\ disconnects \in Nat /\ intent \in Nat /\ intent <= disconnects
    /\ active \in [vpn : BOOLEAN, proxy : BOOLEAN]
    /\ queue \in Seq(GoodTasks) /\ calling \in GoodTasks \cup {NoTask}
    /\ calling # NoTask => calling.op = "connect"
    /\ posts \in Seq(Posts) /\ answers \in [Reqs -> Nat]

HostTypes ==
    /\ sys \in Seq(GoodMessages)
    /\ am \in AmRecords
    /\ instance \in 0 .. MaxTaps
    /\ svc \in [Reqs -> [destroyed : BOOLEAN, tun : 0 .. MaxTaps]]
    /\ thr \in [Reqs -> Threads]
    /\ \A r \in Reqs : Live(r) => thr[r].inst \in Reqs
    /\ fd \in [Reqs -> {"none", "open", "closed"}]

CoreTypes ==
    /\ platFd \in 0 .. MaxTaps /\ engineFd \in 0 .. MaxTaps
    /\ core \in [st : {"off", "starting", "on"}, mode : {"vpn", "proxy"}]

TypeInv == FlagTypes /\ AppTypes /\ BridgeTypes /\ HostTypes /\ CoreTypes

\* The sets the records are drawn from.
LEMMA MakersFit ==
  /\ \A req \in Reqs, result \in 0 .. MaxTaps, gen \in Nat, then \in {"vpn", "proxy"} :
        Task("connect", req, result, gen, then) \in GoodTasks
  /\ \A req \in 0 .. MaxTaps, then \in {"hosts", "stopSelf", "none"} :
        Task("disconnect", req, 0, 0, then) \in GoodTasks
  /\ \A i \in Reqs, r \in Reqs : Msg("start", i, r) \in GoodMessages
  /\ \A i \in Reqs : Msg("destroy", i, 0) \in GoodMessages
  /\ \A r \in Reqs : Msg("startProxy", 0, r) \in GoodMessages
  /\ Msg("destroyProxy", 0, 0) \in GoodMessages
  /\ \A op \in {"answer", "abort", "hosts", "stopSelf"}, i \in 0 .. MaxTaps, r \in 0 .. MaxTaps :
        Post(op, i, r) \in Posts
BY AndroidAssumption DEF Task, Tasks, GoodTasks, Msg, Messages, GoodMessages, Post, Posts, Reqs

\* What the service manager records and sends is well formed.
LEMMA StoppedFits ==
  ASSUME HostTypes, NEW a \in AmRecords,
         NEW i \in 0 .. MaxTaps
  PROVE  /\ Stopped(a, i) \in AmRecords
         /\ StopMsg(a, i) \in Seq(GoodMessages)
<1>1. Stopped(a, i) \in AmRecords
  <2>1. CASE Bound(a)
    BY <2>1, AndroidAssumption DEF Stopped, AmRecords
  <2>2. CASE ~ Bound(a)
    <3>1. 0 \in 0 .. MaxTaps
      BY AndroidAssumption
    <3> DEFINE am1 == [a EXCEPT !.inst = 0]
    <3>2. am1 \in AmRecords
      BY <3>1 DEF AmRecords
    <3>3. [a EXCEPT !.started = FALSE, !.inst = 0] = [am1 EXCEPT !.started = FALSE]
      BY DEF AmRecords
    <3> HIDE DEF am1
    <3>4. [am1 EXCEPT !.started = FALSE]
             \in AmRecords
      BY <3>2 DEF AmRecords
    <3> QED
      BY <2>2, <3>3, <3>4 DEF Stopped
  <2> QED
    BY <2>1, <2>2
<1>2. i # 0 => i \in Reqs
  BY AndroidAssumption DEF Reqs
<1>3. i # 0 => <<Msg("destroy", i, 0)>> \in Seq(GoodMessages)
  BY <1>2, MakersFit
<1> QED
  BY <1>1, <1>3 DEF StopMsg

\* closeTun keeps the table of descriptors.
LEMMA ClosedFits ==
  ASSUME HostTypes, NEW i \in 0 .. MaxTaps
  PROVE  ClosedTun(i) \in [Reqs -> {"none", "open", "closed"}]
BY DEF ClosedTun, HostTypes

\* An answer is counted.
LEMMA AnsweredFits ==
  ASSUME BridgeTypes, NEW r \in 0 .. MaxTaps
  PROVE  Answered(r) \in [Reqs -> Nat]
BY AndroidAssumption DEF Answered, BridgeTypes, Reqs

\* The initial state is well formed.
LEMMA TypesBegin == Init => TypeInv
<1> SUFFICES ASSUME Init PROVE TypeInv
  OBVIOUS
<1>1. queue \in Seq(GoodTasks) /\ posts \in Seq(Posts) /\ sys \in Seq(GoodMessages)
  BY DEF Init
<1>2. AppTypes /\ CoreTypes
  BY AndroidAssumption DEF Init, AppTypes, CoreTypes
<1>5. FlagTypes
  BY Zenon DEF Init, FlagTypes
<1>3. BridgeTypes
  BY <1>1 DEF Init, BridgeTypes
<1>4. HostTypes
  BY <1>1, AndroidAssumption DEF Init, HostTypes, Threads, Live, AmRecords
<1> QED
  BY <1>2, <1>3, <1>4, <1>5 DEF TypeInv

\* What moves between the queues keeps them well formed.
LEMMA SeqsFit ==
  ASSUME NEW S, NEW s \in Seq(S)
  PROVE  /\ \A e \in S : Append(s, e) \in Seq(S)
         /\ s # <<>> => Tail(s) \in Seq(S) /\ Head(s) \in S
         /\ \A t \in Seq(S) : s \o t \in Seq(S)
OBVIOUS

\* A tap, or the end of a consent dialog, keeps the types.
LEMMA TapsKeepTypes ==
  ASSUME TypeInv,
         (\E mode \in TapModes : TapConnect(mode)) \/ (\E ok \in BOOLEAN : ConsentResult(ok))
  PROVE  TypeInv'
<1> USE DEF TypeInv
<1>1. ASSUME NEW r \in Reqs, NEW result \in 0 .. MaxTaps, StartVpnHost(r, result)
      PROVE  am' \in AmRecords /\ sys' \in Seq(GoodMessages) /\ pending' \in 0 .. MaxTaps
  <2> DEFINE i == IF am.inst = 0 THEN r ELSE am.inst
  <2>1. i \in Reqs /\ i \in 0 .. MaxTaps /\ am \in AmRecords
    BY AndroidAssumption DEF HostTypes, AmRecords, Reqs
  <2>2. am' = [am EXCEPT !.inst = i, !.started = TRUE] /\ sys' = Append(sys, Msg("start", i, r))
    BY <1>1 DEF StartVpnHost
  <2> HIDE DEF i
  <2>3. am' \in AmRecords
    BY <2>1, <2>2 DEF AmRecords
  <2>4. sys' \in Seq(GoodMessages)
    BY <2>1, <2>2, MakersFit, SeqsFit DEF HostTypes
  <2> QED
    BY <1>1, <2>3, <2>4 DEF StartVpnHost
<1>2. ASSUME NEW mode \in TapModes, TapConnect(mode) PROVE TypeInv'
  <2> DEFINE r == taps + 1
  <2>1. r \in Reqs /\ r \in 0 .. MaxTaps /\ taps' = r /\ 0 \in 0 .. MaxTaps
    BY <1>2, AndroidAssumption DEF TapConnect, AppTypes, Reqs
  <2>2. /\ UNCHANGED <<ui, offs, consent, faults, disconnects, active, posts, answers>>
        /\ UNCHANGED <<instance, svc, thr, fd, calling, platFd, core, engineFd>>
        /\ intent' = disconnects /\ over' = FALSE
    BY <1>2 DEF TapConnect, coreVars
  <2>3. /\ am' \in AmRecords /\ sys' \in Seq(GoodMessages)
        /\ queue' \in Seq(GoodTasks) /\ dialogs' \in Nat
        /\ dialogReq' \in 0 .. MaxTaps /\ pending' \in 0 .. MaxTaps
    <3> HIDE DEF r
    <3>1. CASE StartVpnHost(r, r) /\ UNCHANGED <<dialogs, dialogReq, queue>>
      BY <2>1, <3>1, <1>1 DEF AppTypes, BridgeTypes
    <3>2. CASE dialogReq' = r /\ pending' = r /\ dialogs' = dialogs + 1 /\ UNCHANGED <<am, sys, queue>>
      BY <2>1, <3>2 DEF AppTypes, BridgeTypes, HostTypes
    <3>3. CASE /\ am' = [am EXCEPT !.proxy = TRUE]
               /\ sys' = Append(sys, Msg("startProxy", 0, r))
               /\ queue' = Append(queue, Task("connect", r, r, disconnects, "proxy"))
               /\ UNCHANGED <<dialogs, dialogReq, pending>>
      <4>1. am' \in AmRecords
        BY <3>3 DEF HostTypes, AmRecords
      <4>2. sys' \in Seq(GoodMessages)
        BY <2>1, <3>3, MakersFit, SeqsFit DEF HostTypes
      <4>3. Task("connect", r, r, disconnects, "proxy") \in GoodTasks
        BY <2>1, MakersFit DEF BridgeTypes
      <4>4. queue' \in Seq(GoodTasks)
        BY <3>3, <4>3, SeqsFit DEF BridgeTypes
      <4> QED
        BY <3>3, <4>1, <4>2, <4>4 DEF AppTypes
    <3> QED
      BY <1>2, <3>1, <3>2, <3>3 DEF TapConnect, r
  <2> HIDE DEF r
  <2>4. FlagTypes'
    BY <2>2, Zenon DEF FlagTypes
  <2>5. AppTypes' /\ BridgeTypes'
    BY <2>1, <2>2, <2>3 DEF AppTypes, BridgeTypes
  <2>6. HostTypes' /\ CoreTypes'
    BY <2>2, <2>3 DEF HostTypes, CoreTypes, Live
  <2> QED
    BY <2>4, <2>5, <2>6
<1>3. ASSUME NEW ok \in BOOLEAN, ConsentResult(ok) PROVE TypeInv'
  <2>1. /\ UNCHANGED <<ui, taps, offs, over, faults, disconnects, intent, active, queue, posts>>
        /\ UNCHANGED <<instance, svc, thr, fd, calling, platFd, core, engineFd>>
        /\ dialogs > 0 /\ dialogs' = dialogs - 1 /\ dialogReq' = 0
    BY <1>3 DEF ConsentResult, coreVars
  <2>2. FlagTypes'
    <3>1. consent' = (ok \/ consent)
      BY <1>3 DEF ConsentResult
    <3> QED
      BY <2>1, <3>1, Zenon DEF FlagTypes
  <2>3. /\ am' \in AmRecords /\ sys' \in Seq(GoodMessages)
        /\ answers' \in [Reqs -> Nat] /\ pending' \in 0 .. MaxTaps
    <3>1. CASE dialogReq # 0 /\ StartVpnHost(dialogReq, pending) /\ UNCHANGED answers
      <4>1. dialogReq \in Reqs /\ pending \in 0 .. MaxTaps
        BY <3>1, AndroidAssumption DEF AppTypes, Reqs
      <4> QED
        BY <3>1, <4>1, <1>1 DEF BridgeTypes
    <3>2. CASE pending' = 0 /\ answers' = Answered(pending) /\ UNCHANGED <<am, sys>>
      BY <3>2, AnsweredFits, AndroidAssumption DEF AppTypes, BridgeTypes, HostTypes
    <3> QED
      BY <1>3, <3>1, <3>2 DEF ConsentResult
  <2>4. AppTypes' /\ BridgeTypes'
    BY <2>1, <2>3, AndroidAssumption DEF AppTypes, BridgeTypes
  <2>5. HostTypes' /\ CoreTypes'
    BY <2>1, <2>3 DEF HostTypes, CoreTypes, Live
  <2> QED
    BY <2>2, <2>4, <2>5
<1> QED
  BY <1>2, <1>3

\* The table of the services after a TUN is claimed or let go.
LEMMA SvcFits ==
  ASSUME HostTypes, NEW i, NEW t \in 0 .. MaxTaps
  PROVE  [svc EXCEPT ![i].tun = t] \in [Reqs -> [destroyed : BOOLEAN, tun : 0 .. MaxTaps]]
<1>1. i \in Reqs => [svc[i] EXCEPT !.tun = t] \in [destroyed : BOOLEAN, tun : 0 .. MaxTaps]
  BY DEF HostTypes
<1> QED
  BY <1>1 DEF HostTypes

\* The thread of a VPN start keeps the types.
LEMMA ThreadsKeepTypes ==
  ASSUME TypeInv, NEW r \in Reqs, ThreadStep(r)
  PROVE  TypeInv'
<1> USE DEF TypeInv
<1> DEFINE i == thr[r].inst
<1>0. /\ UNCHANGED <<ui, taps, offs, consent, dialogs, dialogReq, pending, over, faults>>
      /\ UNCHANGED <<disconnects, intent, active, posts, instance, calling, core, engineFd>>
  BY DEF ThreadStep, Establish, EstablishFails, ClaimTun, SetTunFd, SubmitConnect, appVars, coreVars
<1>1. FlagTypes' /\ AppTypes'
  BY <1>0 DEF FlagTypes, AppTypes
<1>2. /\ thr[r] \in Threads /\ i \in 0 .. MaxTaps /\ thr[r].result \in 0 .. MaxTaps
      /\ r \in 0 .. MaxTaps
  BY AndroidAssumption DEF HostTypes, Threads, Reqs
<1>3. ASSUME NEW pc \in {"claim", "setFd", "submit", "done"}, Live(r),
             thr' = [thr EXCEPT ![r].pc = pc]
      PROVE  thr' \in [Reqs -> Threads] /\ \A x \in Reqs : Live(x)' => thr'[x].inst \in Reqs
  BY <1>3 DEF HostTypes, Threads, Live
<1> HIDE DEF i
<1>4. CASE Establish(r)
  <2>1. /\ thr[r].pc = "establish" /\ fd' = [fd EXCEPT ![r] = "open"]
        /\ am' = [am EXCEPT !.iface = r] /\ thr' = [thr EXCEPT ![r].pc = "claim"]
        /\ UNCHANGED <<queue, answers, sys, svc, platFd>>
    BY <1>4 DEF Establish, coreVars
  <2>2. am' \in AmRecords
    BY <1>2, <2>1 DEF HostTypes, AmRecords
  <2>3. thr' \in [Reqs -> Threads] /\ \A x \in Reqs : Live(x)' => thr'[x].inst \in Reqs
    BY <1>3, <2>1 DEF Live
  <2> QED
    BY <1>0, <1>1, <2>1, <2>2, <2>3 DEF HostTypes, BridgeTypes, CoreTypes
<1>5. CASE EstablishFails(r)
  <2>1. /\ thr[r].pc \in {"establish", "setFd"} /\ thr' = [thr EXCEPT ![r].pc = "done"]
        /\ answers' = Answered(thr[r].result) /\ fd' = ClosedTun(i)
        /\ svc' = [svc EXCEPT ![i].tun = 0] /\ am' = Stopped(am, i) /\ sys' = sys \o StopMsg(am, i)
        /\ UNCHANGED <<queue, platFd>>
    BY <1>5 DEF EstablishFails, coreVars, i
  <2>2. am' \in AmRecords /\ sys' \in Seq(GoodMessages)
    BY <1>2, <2>1, StoppedFits, SeqsFit DEF HostTypes
  <2>3. thr' \in [Reqs -> Threads] /\ \A x \in Reqs : Live(x)' => thr'[x].inst \in Reqs
    BY <1>3, <2>1 DEF Live
  <2>4. /\ answers' \in [Reqs -> Nat] /\ fd' \in [Reqs -> {"none", "open", "closed"}]
        /\ svc' \in [Reqs -> [destroyed : BOOLEAN, tun : 0 .. MaxTaps]]
    <3>1. 0 \in 0 .. MaxTaps
      BY AndroidAssumption
    <3>2. svc' \in [Reqs -> [destroyed : BOOLEAN, tun : 0 .. MaxTaps]]
      BY <2>1, <3>1, SvcFits
    <3> QED
      BY <1>2, <2>1, <3>2, AnsweredFits, ClosedFits
  <2> QED
    BY <1>0, <1>1, <2>1, <2>2, <2>3, <2>4 DEF HostTypes, BridgeTypes, CoreTypes
<1>6. CASE ClaimTun(r)
  <2>1. /\ thr[r].pc = "claim"
        /\ \/ fd' = [fd EXCEPT ![r] = "closed"] /\ thr' = [thr EXCEPT ![r].pc = "done"] /\ UNCHANGED svc
           \/ svc' = [svc EXCEPT ![i].tun = r] /\ thr' = [thr EXCEPT ![r].pc = "setFd"] /\ UNCHANGED fd
        /\ UNCHANGED <<queue, answers, am, sys, platFd>>
    BY <1>6 DEF ClaimTun, coreVars, i
  <2>2. thr' \in [Reqs -> Threads] /\ \A x \in Reqs : Live(x)' => thr'[x].inst \in Reqs
    BY <1>3, <2>1 DEF Live
  <2>3. /\ fd' \in [Reqs -> {"none", "open", "closed"}]
        /\ svc' \in [Reqs -> [destroyed : BOOLEAN, tun : 0 .. MaxTaps]]
    <3>1. [svc EXCEPT ![i].tun = r] \in [Reqs -> [destroyed : BOOLEAN, tun : 0 .. MaxTaps]]
      BY <1>2, SvcFits
    <3>2. svc \in [Reqs -> [destroyed : BOOLEAN, tun : 0 .. MaxTaps]]
      BY DEF HostTypes
    <3>3. fd' \in [Reqs -> {"none", "open", "closed"}]
      BY <2>1 DEF HostTypes
    <3>4. svc' = svc \/ svc' = [svc EXCEPT ![i].tun = r]
      BY <2>1
    <3> QED
      BY <3>1, <3>2, <3>3, <3>4
  <2> QED
    BY <1>0, <1>1, <2>1, <2>2, <2>3 DEF HostTypes, BridgeTypes, CoreTypes
<1>7. CASE SetTunFd(r)
  <2>1. /\ thr[r].pc = "setFd" /\ platFd' = r /\ thr' = [thr EXCEPT ![r].pc = "submit"]
        /\ UNCHANGED <<queue, answers, am, sys, svc, fd>>
    BY <1>7 DEF SetTunFd
  <2>2. thr' \in [Reqs -> Threads] /\ \A x \in Reqs : Live(x)' => thr'[x].inst \in Reqs
    BY <1>3, <2>1 DEF Live
  <2> QED
    BY <1>0, <1>1, <1>2, <2>1, <2>2 DEF HostTypes, BridgeTypes, CoreTypes
<1>8. CASE SubmitConnect(r)
  <2>1. /\ thr[r].pc = "submit" /\ thr' = [thr EXCEPT ![r].pc = "done"]
        /\ queue' = Append(queue, Task("connect", r, thr[r].result, intent, "vpn"))
        /\ UNCHANGED <<answers, am, sys, svc, fd, platFd>>
    BY <1>8 DEF SubmitConnect, coreVars
  <2>2. thr' \in [Reqs -> Threads] /\ \A x \in Reqs : Live(x)' => thr'[x].inst \in Reqs
    BY <1>3, <2>1 DEF Live
  <2>3. queue' \in Seq(GoodTasks)
    <3>1. Task("connect", r, thr[r].result, intent, "vpn") \in GoodTasks
      BY <1>2, MakersFit DEF BridgeTypes
    <3> QED
      BY <2>1, <3>1, SeqsFit DEF BridgeTypes
  <2> QED
    BY <1>0, <1>1, <2>1, <2>2, <2>3 DEF HostTypes, BridgeTypes, CoreTypes
<1> QED
  BY <1>4, <1>5, <1>6, <1>7, <1>8 DEF ThreadStep

\* A disconnect that is submitted keeps the queue and the counter well formed.
LEMMA SubmitFits ==
  ASSUME BridgeTypes, NEW req \in 0 .. MaxTaps, NEW then \in {"hosts", "stopSelf", "none"},
         SubmitDisconnect(req, then)
  PROVE  disconnects' \in Nat /\ disconnects' = disconnects + 1 /\ queue' \in Seq(GoodTasks)
<1>1. Task("disconnect", req, 0, 0, then) \in GoodTasks
  BY MakersFit
<1> QED
  BY <1>1, SeqsFit DEF SubmitDisconnect, BridgeTypes

\* So do the messages of the system, revokes, killed services and a tap on
\* Disconnect.
LEMMA MessagesKeepTypes ==
  ASSUME TypeInv,
         \/ Observe \/ TapDisconnect \/ InterfaceRemoved \/ KillService \/ OnRevoke
         \/ OnStartCommand \/ OnDestroy \/ ProxyMessage
  PROVE  TypeInv'
<1> USE DEF TypeInv
<1>0. /\ 0 \in 0 .. MaxTaps /\ am \in AmRecords /\ am.inst \in 0 .. MaxTaps
      /\ sys \in Seq(GoodMessages)
  BY AndroidAssumption DEF HostTypes, AmRecords
<1>1. CASE Observe
  <2>1. FlagTypes'
    BY <1>1, Zenon DEF Observe, FlagTypes
  <2> QED
    BY <1>1, <2>1 DEF Observe, AppTypes, BridgeTypes, HostTypes, CoreTypes, Live, hostVars, coreVars
<1>2. CASE TapDisconnect
  <2>1. FlagTypes'
    BY <1>2, Zenon DEF TapDisconnect, FlagTypes
  <2>2. disconnects' = disconnects + 1 /\ queue' \in Seq(GoodTasks)
    BY <1>0, <1>2, SubmitFits DEF TapDisconnect
  <2> QED
    BY <1>2, <2>1, <2>2, AndroidAssumption DEF TapDisconnect, AppTypes, BridgeTypes, HostTypes,
       CoreTypes, Live, hostVars, coreVars
<1>3. CASE InterfaceRemoved
  <2> DEFINE a == [am EXCEPT !.iface = 0]
  <2>1. a \in AmRecords /\ a.inst = am.inst
    BY <1>0 DEF AmRecords
  <2>2. /\ am' = a \/ am' = Stopped(a, am.inst)
        /\ sys' = sys \/ sys' = sys \o StopMsg(a, am.inst)
    BY <1>3 DEF InterfaceRemoved
  <2> HIDE DEF a
  <2>3. am' \in AmRecords /\ sys' \in Seq(GoodMessages)
    BY <1>0, <2>1, <2>2, StoppedFits, SeqsFit
  <2> QED
    BY <1>3, <2>3 DEF InterfaceRemoved, FlagTypes, AppTypes, BridgeTypes, HostTypes,
       CoreTypes, Live, appVars, coreVars
<1>4. CASE KillService
  <2>1. am' \in AmRecords /\ sys' \in Seq(GoodMessages)
    <3>1. CASE /\ am.inst # 0 /\ am' = [am EXCEPT !.inst = 0, !.started = FALSE]
               /\ sys' = Append(sys, Msg("destroy", am.inst, 0))
      <4>1. am' \in AmRecords
        <5> DEFINE a == [am EXCEPT !.inst = 0]
        <5>1. a \in AmRecords
          BY <1>0 DEF AmRecords
        <5>2. am' = [a EXCEPT !.started = FALSE]
          BY <1>0, <3>1 DEF AmRecords
        <5> HIDE DEF a
        <5> QED
          BY <5>1, <5>2 DEF AmRecords
      <4>2. am.inst \in Reqs
        BY <1>0, <3>1, AndroidAssumption DEF Reqs
      <4> QED
        BY <1>0, <3>1, <4>1, <4>2, MakersFit, SeqsFit
    <3>2. CASE am' = [am EXCEPT !.proxy = FALSE] /\ sys' = Append(sys, Msg("destroyProxy", 0, 0))
      <4>1. am' \in AmRecords
        BY <1>0, <3>2 DEF AmRecords
      <4> QED
        BY <1>0, <3>2, <4>1, MakersFit, SeqsFit
    <3> QED
      BY <1>4, <3>1, <3>2 DEF KillService
  <2>2. FlagTypes'
    BY <1>4 DEF KillService, FlagTypes, appVars
  <2>3. faults' \in 0 .. MaxFaults
    BY <1>4, AndroidAssumption DEF KillService, AppTypes
  <2> QED
    BY <1>4, <2>1, <2>2, <2>3 DEF KillService, AppTypes, BridgeTypes, HostTypes,
       CoreTypes, Live, appVars, coreVars
<1>5. CASE OnRevoke
  <2> DEFINE i == am.inst
             a == [am EXCEPT !.iface = 0]
  <2>1. a \in AmRecords /\ a.inst = i
    BY <1>0 DEF AmRecords
  <2>2. /\ fd' = ClosedTun(i) /\ svc' = [svc EXCEPT ![i].tun = 0] /\ SubmitDisconnect(i, "stopSelf")
        /\ am' = Stopped(a, i) /\ sys' = sys \o StopMsg(a, i)
        /\ faults < MaxFaults /\ faults' = faults + 1 /\ consent' = FALSE /\ over' = TRUE
        /\ UNCHANGED <<ui, taps, offs, dialogs, dialogReq, pending, intent, active, posts, answers>>
        /\ UNCHANGED <<instance, thr, calling, platFd, core, engineFd>>
    BY <1>5 DEF OnRevoke, coreVars
  <2> HIDE DEF a
  <2>3. am' \in AmRecords /\ sys' \in Seq(GoodMessages)
    BY <1>0, <2>1, <2>2, StoppedFits, SeqsFit
  <2>4. fd' \in [Reqs -> {"none", "open", "closed"}]
    BY <1>0, <2>2, ClosedFits
  <2>5. svc' \in [Reqs -> [destroyed : BOOLEAN, tun : 0 .. MaxTaps]]
    BY <1>0, <2>2 DEF HostTypes
  <2>6. disconnects' = disconnects + 1 /\ queue' \in Seq(GoodTasks)
    BY <1>0, <2>2, SubmitFits
  <2>7. FlagTypes'
    BY <2>2, Zenon DEF FlagTypes
  <2>8. AppTypes' /\ BridgeTypes'
    <3>1. faults' \in 0 .. MaxFaults
      BY <2>2, AndroidAssumption DEF AppTypes
    <3>2. /\ UNCHANGED <<taps, offs, dialogs, dialogReq, pending>>
          /\ UNCHANGED <<intent, active, posts, answers, calling>>
      BY <2>2
    <3> QED
      BY <2>6, <3>1, <3>2 DEF AppTypes, BridgeTypes
  <2>9. HostTypes' /\ CoreTypes'
    BY <2>2, <2>3, <2>4, <2>5 DEF HostTypes, CoreTypes, Live
  <2> QED
    BY <2>7, <2>8, <2>9
<1>6. CASE OnStartCommand
  <2> DEFINE m == Head(sys)
             new == [pc |-> "establish", inst |-> m.inst, result |-> pending]
  <2>1. m \in GoodMessages /\ Tail(sys) \in Seq(GoodMessages)
    BY <1>0, <1>6, SeqsFit DEF OnStartCommand
  <2>2. m.inst \in Reqs /\ m.req \in Reqs /\ m.inst \in 0 .. MaxTaps
    BY <1>6, <2>1 DEF OnStartCommand, GoodMessages, Messages
  <2>3. /\ sys' = Tail(sys) /\ instance' = (IF m.inst = m.req THEN m.inst ELSE instance)
        /\ active' = [active EXCEPT !.vpn = TRUE] /\ thr' = [thr EXCEPT ![m.req] = new] /\ pending' = 0
        /\ UNCHANGED <<ui, taps, offs, consent, dialogs, dialogReq, over, faults, disconnects, intent>>
        /\ UNCHANGED <<queue, posts, answers, am, svc, fd, calling, platFd, core, engineFd>>
    BY <1>6 DEF OnStartCommand, coreVars
  <2>4. new \in Threads /\ new.inst \in Reqs
    BY <2>2 DEF Threads, AppTypes
  <2> HIDE DEF m, new
  <2>5. thr' \in [Reqs -> Threads] /\ \A x \in Reqs : Live(x)' => thr'[x].inst \in Reqs
    BY <2>2, <2>3, <2>4 DEF HostTypes, Live
  <2>6. active' \in [vpn : BOOLEAN, proxy : BOOLEAN]
    BY <2>3 DEF BridgeTypes
  <2> QED
    BY <1>0, <2>1, <2>2, <2>3, <2>5, <2>6 DEF FlagTypes, AppTypes, BridgeTypes, HostTypes, CoreTypes
<1>7. CASE OnDestroy
  <2> DEFINE m == Head(sys)
  <2>1. m \in GoodMessages /\ Tail(sys) \in Seq(GoodMessages)
    BY <1>0, <1>7, SeqsFit DEF OnDestroy
  <2>2. m.inst \in Reqs /\ m.inst \in 0 .. MaxTaps
    BY <1>7, <2>1 DEF OnDestroy, GoodMessages, Messages
  <2>3. /\ sys' = Tail(sys) /\ instance' = (IF instance = m.inst THEN 0 ELSE instance)
        /\ svc' = [svc EXCEPT ![m.inst] = [destroyed |-> TRUE, tun |-> 0]] /\ fd' = ClosedTun(m.inst)
        /\ active' = [active EXCEPT !.vpn = FALSE]
        /\ SubmitDisconnect(0, "none") \/ UNCHANGED <<disconnects, queue>>
        /\ UNCHANGED <<ui, taps, offs, consent, dialogs, dialogReq, pending, faults, intent>>
        /\ UNCHANGED <<posts, answers, am, thr, calling, platFd, core, engineFd>>
    BY <1>7 DEF OnDestroy, coreVars
  <2>4. over' = (over \/ active.vpn)
    BY <1>7 DEF OnDestroy
  <2>5. FlagTypes'
    BY <2>3, <2>4, Zenon DEF FlagTypes
  <2> HIDE DEF m
  <2>6. disconnects' \in Nat /\ disconnects' >= disconnects /\ queue' \in Seq(GoodTasks)
    BY <1>0, <2>3, SubmitFits DEF BridgeTypes
  <2>7. active' \in [vpn : BOOLEAN, proxy : BOOLEAN]
    BY <2>3 DEF BridgeTypes
  <2>8. BridgeTypes'
    BY <2>3, <2>6, <2>7 DEF BridgeTypes
  <2>9. svc' \in [Reqs -> [destroyed : BOOLEAN, tun : 0 .. MaxTaps]] /\ instance' \in 0 .. MaxTaps
    BY <1>0, <2>2, <2>3 DEF HostTypes
  <2>10. HostTypes'
    BY <2>1, <2>2, <2>3, <2>9, ClosedFits DEF HostTypes, Live
  <2> QED
    BY <2>3, <2>5, <2>8, <2>10 DEF AppTypes, CoreTypes
<1>8. CASE ProxyMessage
  <2>1. Tail(sys) \in Seq(GoodMessages)
    BY <1>0, <1>8, SeqsFit DEF ProxyMessage
  <2>2. /\ sys' = Tail(sys)
        /\ active' = [active EXCEPT !.proxy = TRUE] \/ active' = [active EXCEPT !.proxy = FALSE]
        /\ SubmitDisconnect(0, "none") \/ UNCHANGED <<disconnects, queue>>
        /\ UNCHANGED <<ui, taps, offs, consent, dialogs, dialogReq, pending, over, faults, intent>>
        /\ UNCHANGED <<posts, answers, am, instance, svc, thr, fd, calling, platFd, core, engineFd>>
    BY <1>8 DEF ProxyMessage, appVars, coreVars
  <2>3. disconnects' \in Nat /\ disconnects' >= disconnects /\ queue' \in Seq(GoodTasks)
    <3>1. CASE SubmitDisconnect(0, "none")
      BY <1>0, <3>1, SubmitFits DEF BridgeTypes
    <3>2. CASE UNCHANGED <<disconnects, queue>>
      BY <3>2 DEF BridgeTypes
    <3> QED
      BY <2>2, <3>1, <3>2
  <2>4. active' \in [vpn : BOOLEAN, proxy : BOOLEAN]
    BY <2>2 DEF BridgeTypes
  <2>5. BridgeTypes'
    BY <2>2, <2>3, <2>4 DEF BridgeTypes
  <2> QED
    BY <2>1, <2>2, <2>5 DEF FlagTypes, AppTypes, HostTypes, CoreTypes, Live
<1> QED
  BY <1>1, <1>2, <1>3, <1>4, <1>5, <1>6, <1>7, <1>8

\* So do the callbacks on the main thread, the executor and the core.
LEMMA CallbacksKeepTypes ==
  ASSUME TypeInv,
         \/ PostedAbort \/ PostedAnswer \/ PostedStopSelf \/ StopConnectionHosts
         \/ ExecConnect \/ CallConnect \/ ExecDisconnect \/ EngineStarts \/ EngineFails
  PROVE  TypeInv'
<1> USE DEF TypeInv
<1> DEFINE p == Head(posts)
           t == Head(queue)
<1>0. /\ UNCHANGED <<ui, taps, offs, consent, dialogs, dialogReq, pending, over, faults>>
      /\ UNCHANGED <<disconnects, intent, instance, thr, platFd>>
  BY DEF PostedAbort, PostedAnswer, PostedStopSelf, StopConnectionHosts, ExecConnect, CallConnect,
     ExecDisconnect, EngineStarts, EngineFails, appVars, hostVars, coreVars
<1>1. FlagTypes' /\ AppTypes'
  BY <1>0 DEF FlagTypes, AppTypes
<1>2. posts # <<>> => /\ Tail(posts) \in Seq(Posts)
                      /\ p.inst \in 0 .. MaxTaps /\ p.result \in 0 .. MaxTaps
  <2> HAVE posts # <<>>
  <2>1. Tail(posts) \in Seq(Posts) /\ p \in Posts
    BY SeqsFit DEF BridgeTypes
  <2> QED
    BY <2>1 DEF Posts
<1>3. queue # <<>> => /\ t \in GoodTasks /\ t \in Tasks /\ Tail(queue) \in Seq(GoodTasks)
                      /\ t.req \in 0 .. MaxTaps /\ t.result \in 0 .. MaxTaps
  <2> HAVE queue # <<>>
  <2>1. Tail(queue) \in Seq(GoodTasks) /\ t \in GoodTasks
    BY SeqsFit DEF BridgeTypes
  <2> QED
    BY <2>1 DEF GoodTasks, Tasks
<1>4. 0 \in 0 .. MaxTaps /\ am \in AmRecords /\ am.inst \in 0 .. MaxTaps
  BY AndroidAssumption DEF HostTypes, AmRecords
<1> HIDE DEF p, t
<1>5. CASE PostedAbort
  <2>1. /\ posts # <<>> /\ posts' = Tail(posts) /\ fd' = ClosedTun(p.inst)
        /\ svc' = [svc EXCEPT ![p.inst].tun = 0] /\ am' = Stopped(am, p.inst)
        /\ sys' = sys \o StopMsg(am, p.inst) /\ answers' = Answered(p.result)
        /\ UNCHANGED <<active, queue, calling, core, engineFd>>
    BY <1>5 DEF PostedAbort, coreVars, p
  <2>2. am' \in AmRecords /\ sys' \in Seq(GoodMessages)
    BY <1>2, <1>4, <2>1, StoppedFits, SeqsFit DEF HostTypes
  <2>3. svc' \in [Reqs -> [destroyed : BOOLEAN, tun : 0 .. MaxTaps]]
    BY <1>4, <2>1, SvcFits
  <2>4. fd' \in [Reqs -> {"none", "open", "closed"}] /\ answers' \in [Reqs -> Nat]
    BY <1>2, <2>1, ClosedFits, AnsweredFits
  <2>5. BridgeTypes' /\ CoreTypes'
    BY <1>0, <1>2, <2>1, <2>4 DEF BridgeTypes, CoreTypes
  <2>6. HostTypes'
    BY <1>0, <2>2, <2>3, <2>4 DEF HostTypes, Live
  <2> QED
    BY <1>1, <2>5, <2>6
<1>6. CASE PostedAnswer
  <2>1. /\ posts # <<>> /\ posts' = Tail(posts) /\ answers' = Answered(p.result)
        /\ UNCHANGED <<active, queue, am, sys, svc, fd, calling, core, engineFd>>
    BY <1>6 DEF PostedAnswer, hostVars, coreVars, p
  <2> QED
    BY <1>0, <1>1, <1>2, <2>1, AnsweredFits DEF BridgeTypes, CoreTypes, HostTypes, Live
<1>7. CASE PostedStopSelf
  <2>1. /\ posts # <<>> /\ posts' = Tail(posts) /\ am' = Stopped(am, p.inst)
        /\ sys' = sys \o StopMsg(am, p.inst)
        /\ UNCHANGED <<active, queue, answers, svc, fd, calling, core, engineFd>>
    BY <1>7 DEF PostedStopSelf, coreVars, p
  <2>2. am' \in AmRecords /\ sys' \in Seq(GoodMessages)
    BY <1>2, <1>4, <2>1, StoppedFits, SeqsFit DEF HostTypes
  <2> QED
    BY <1>0, <1>1, <1>2, <2>1, <2>2 DEF BridgeTypes, CoreTypes, HostTypes, Live
<1>8. CASE StopConnectionHosts
  <2> DEFINE i == IF active.vpn THEN instance ELSE 0
             a == IF active.vpn THEN Stopped(am, am.inst) ELSE am
             one == IF active.vpn THEN StopMsg(am, am.inst) ELSE <<>>
             two == IF active.proxy /\ am.proxy THEN <<Msg("destroyProxy", 0, 0)>> ELSE <<>>
  <2>1. /\ posts # <<>> /\ posts' = Tail(posts) /\ active' = [vpn |-> FALSE, proxy |-> FALSE]
        /\ fd' = ClosedTun(i)
        /\ svc' = IF i = 0 THEN svc ELSE [svc EXCEPT ![i] = [destroyed |-> TRUE, tun |-> 0]]
        /\ am' = IF active.proxy THEN [a EXCEPT !.proxy = FALSE] ELSE a
        /\ sys' = sys \o one \o two
        /\ UNCHANGED <<queue, answers, calling, core, engineFd>>
    BY <1>8 DEF StopConnectionHosts, coreVars
  <2>2. i \in 0 .. MaxTaps
    BY <1>4 DEF HostTypes
  <2>3. a \in AmRecords
    BY <1>4, StoppedFits
  <2>4. one \in Seq(GoodMessages)
    BY <1>4, StoppedFits
  <2>5. two \in Seq(GoodMessages)
    BY MakersFit
  <2>6. active' \in [vpn : BOOLEAN, proxy : BOOLEAN]
    BY <2>1
  <2> HIDE DEF i, a, one, two
  <2>7. sys' \in Seq(GoodMessages)
    BY <2>1, <2>4, <2>5, SeqsFit DEF HostTypes
  <2>8. am' \in AmRecords
    BY <2>1, <2>3 DEF AmRecords
  <2>9. svc' \in [Reqs -> [destroyed : BOOLEAN, tun : 0 .. MaxTaps]]
    BY <1>4, <2>1 DEF HostTypes
  <2>10. fd' \in [Reqs -> {"none", "open", "closed"}]
    BY <2>1, <2>2, ClosedFits
  <2>11. BridgeTypes' /\ CoreTypes'
    BY <1>0, <1>2, <2>1, <2>6 DEF BridgeTypes, CoreTypes
  <2>12. HostTypes'
    BY <1>0, <2>7, <2>8, <2>9, <2>10 DEF HostTypes, Live
  <2> QED
    BY <1>1, <2>11, <2>12
<1>9. CASE ExecConnect
  <2>1. /\ queue # <<>> /\ t.op = "connect" /\ queue' = Tail(queue)
        /\ \/ /\ posts' = Append(posts, Post(IF t.then = "vpn" THEN "abort" ELSE "answer",
                                             thr[t.req].inst, t.result))
              /\ UNCHANGED calling
           \/ calling' = t /\ UNCHANGED posts
        /\ UNCHANGED <<active, answers, am, sys, svc, fd, core, engineFd>>
    BY <1>9 DEF ExecConnect, hostVars, t
  <2>2. thr[t.req].inst \in 0 .. MaxTaps
    BY <1>3, <2>1 DEF GoodTasks, HostTypes, Threads
  <2> DEFINE post == Post(IF t.then = "vpn" THEN "abort" ELSE "answer", thr[t.req].inst, t.result)
  <2>3. post \in Posts
    BY <1>3, <2>1, <2>2, MakersFit
  <2> HIDE DEF post
  <2>4. posts' \in Seq(Posts) /\ calling' \in GoodTasks \cup {NoTask}
        /\ (calling' # NoTask => calling'.op = "connect")
    <3>1. CASE posts' = Append(posts, post) /\ UNCHANGED calling
      BY <2>3, <3>1, SeqsFit DEF BridgeTypes
    <3>2. CASE calling' = t /\ UNCHANGED posts
      BY <1>3, <2>1, <3>2 DEF BridgeTypes
    <3> QED
      BY <2>1, <3>1, <3>2 DEF post
  <2> QED
    BY <1>0, <1>1, <1>3, <2>1, <2>4 DEF BridgeTypes, CoreTypes, HostTypes, Live
<1>10. CASE CallConnect
  <2>1. /\ calling # NoTask /\ calling' = NoTask
        /\ posts' = Append(posts, Post("answer", 0, calling.result))
        /\ core' = [st |-> "starting", mode |-> calling.then] \/ UNCHANGED core
        /\ UNCHANGED <<active, queue, answers, am, sys, svc, fd, engineFd>>
    BY <1>10 DEF CallConnect, hostVars
  <2>2. calling.result \in 0 .. MaxTaps
    BY <2>1 DEF BridgeTypes, GoodTasks, Tasks
  <2>3. posts' \in Seq(Posts)
    BY <1>4, <2>1, <2>2, MakersFit, SeqsFit DEF BridgeTypes
  <2>4. calling.then \in {"vpn", "proxy"}
    BY <2>1 DEF BridgeTypes, GoodTasks
  <2>5. CoreTypes'
    BY <1>0, <2>1, <2>4 DEF CoreTypes
  <2> QED
    BY <1>0, <1>1, <2>1, <2>3, <2>5 DEF BridgeTypes, HostTypes, Live
<1>11. CASE ExecDisconnect
  <2>1. /\ queue # <<>> /\ t.op = "disconnect" /\ queue' = Tail(queue)
        /\ core' = [core EXCEPT !.st = "off"] /\ engineFd' = 0
        /\ posts' = IF t.then = "none" THEN posts ELSE Append(posts, Post(t.then, t.req, 0))
        /\ UNCHANGED <<active, answers, am, sys, svc, fd, calling>>
    BY <1>11 DEF ExecDisconnect, hostVars, t
  <2>2. posts' \in Seq(Posts)
    <3>1. t.then \in {"hosts", "stopSelf", "none"}
      BY <1>3, <2>1 DEF GoodTasks
    <3>2. t.then # "none" => Post(t.then, t.req, 0) \in Posts
      <4>1. t.req \in 0 .. MaxTaps
        BY <1>3, <2>1
      <4>2. \A op \in {"hosts", "stopSelf"} : Post(op, t.req, 0) \in Posts
        BY <1>4, <4>1, MakersFit
      <4> QED
        BY <3>1, <4>2
    <3> QED
      BY <2>1, <3>2, SeqsFit DEF BridgeTypes
  <2> QED
    BY <1>0, <1>1, <1>3, <1>4, <2>1, <2>2 DEF BridgeTypes, CoreTypes, HostTypes, Live
<1>12. CASE EngineStarts \/ EngineFails
  <2>1. /\ core' = [core EXCEPT !.st = "on"] \/ core' = [core EXCEPT !.st = "off"]
        /\ engineFd' \in {engineFd, platFd, 0}
        /\ UNCHANGED <<active, queue, posts, answers, am, sys, svc, fd, calling>>
    BY <1>12 DEF EngineStarts, EngineFails, hostVars
  <2> QED
    BY <1>0, <1>1, <1>4, <2>1 DEF BridgeTypes, CoreTypes, HostTypes, Live
<1> QED
  BY <1>5, <1>6, <1>7, <1>8, <1>9, <1>10, <1>11, <1>12

\* Every step keeps the types.
LEMMA TypesKept == TypeInv /\ [Next]_vars => TypeInv'
<1> SUFFICES ASSUME TypeInv, [Next]_vars PROVE TypeInv'
  OBVIOUS
<1>1. CASE UNCHANGED vars
  BY <1>1 DEF TypeInv, FlagTypes, AppTypes, BridgeTypes, HostTypes, CoreTypes, Live, vars, appVars,
     hostVars, coreVars
<1> QED
  BY <1>1, TapsKeepTypes, ThreadsKeepTypes, MessagesKeepTypes, CallbacksKeepTypes
     DEF Next, MainStep, ExecStep

-----------------------------------------------------------------------------
(* The lives of the VpnService.  The messages that create and destroy its  *)
(* instances are delivered in the order in which they were sent, so they   *)
(* lead from the instance the app sees to the one the system sees.         *)

\* Message m makes instance b the current one after a.
Moves(m, a, b) ==
    /\ m.op = "destroy" => a = m.inst /\ b = 0
    /\ m.op = "start" => b = m.inst /\ a = (IF m.inst = m.req THEN 0 ELSE m.inst)
    /\ m.op \notin {"start", "destroy"} => a = b

\* The messages s lead from a to b, over instances of T.
Chain(s, a, b, T) ==
    \E cur \in [0 .. Len(s) -> T] :
        /\ cur[0] = a /\ cur[Len(s)] = b
        /\ \A n \in 1 .. Len(s) : Moves(s[n], cur[n - 1], cur[n])

\* The instances that can exist: a request that still waits for consent has
\* created none.
Issued == {i \in 0 .. taps : i = 0 \/ i # dialogReq}

OrderOfLives == Chain(sys, instance, am.inst, Issued) /\ dialogReq <= taps

\* A thread that is under way belongs to the current instance, or to one that
\* was torn down.
ThreadsAreCurrent ==
    \A r \in Reqs : Live(r) /\ ~ svc[thr[r].inst].destroyed => instance = thr[r].inst

HeldByCurrent == \A i \in Reqs : svc[i].tun # 0 => ~ svc[i].destroyed /\ instance = i

CurrentIsActive == instance # 0 /\ ~ svc[instance].destroyed => active.vpn

TunInv == OrderOfLives /\ ThreadsAreCurrent /\ HeldByCurrent /\ CurrentIsActive

\* A message that is sent extends the chain.
LEMMA ChainAppend ==
  ASSUME NEW S, NEW s \in Seq(S), NEW m, NEW T, NEW a, NEW b, NEW c \in T,
         Chain(s, a, b, T), Moves(m, b, c)
  PROVE  Chain(Append(s, m), a, c, T)
<1>1. PICK cur \in [0 .. Len(s) -> T] :
        /\ cur[0] = a /\ cur[Len(s)] = b
        /\ \A n \in 1 .. Len(s) : Moves(s[n], cur[n - 1], cur[n])
  BY DEF Chain
<1> DEFINE t == Append(s, m)
           nxt == [n \in 0 .. Len(s) + 1 |-> IF n = Len(s) + 1 THEN c ELSE cur[n]]
<1>2. /\ Len(s) \in Nat /\ Len(t) = Len(s) + 1 /\ t[Len(s) + 1] = m
      /\ \A n \in 1 .. Len(s) : t[n] = s[n]
  BY AppendFacts
<1>3. nxt \in [0 .. Len(t) -> T] /\ nxt[0] = a /\ nxt[Len(t)] = c
  BY <1>1, <1>2
<1>4. ASSUME NEW n \in 1 .. Len(t) PROVE Moves(t[n], nxt[n - 1], nxt[n])
  <2>1. CASE n = Len(s) + 1
    <3>1. t[n] = m /\ nxt[n - 1] = b /\ nxt[n] = c
      BY <1>1, <1>2, <2>1
    <3> QED
      BY <3>1
  <2>2. CASE n \in 1 .. Len(s)
    <3>1. t[n] = s[n] /\ nxt[n - 1] = cur[n - 1] /\ nxt[n] = cur[n]
      BY <1>2, <2>2
    <3> QED
      BY <1>1, <2>2, <3>1
  <2> QED
    BY <1>2, <2>1, <2>2
<1> HIDE DEF t, nxt
<1> QED
  BY <1>3, <1>4 DEF Chain, t

\* The message that is delivered makes the first step of the chain.
LEMMA ChainTail ==
  ASSUME NEW S, NEW s \in Seq(S), s # <<>>, NEW T, NEW a, NEW b, Chain(s, a, b, T)
  PROVE  \E c \in T : Moves(Head(s), a, c) /\ Chain(Tail(s), c, b, T)
<1>1. PICK cur \in [0 .. Len(s) -> T] :
        /\ cur[0] = a /\ cur[Len(s)] = b
        /\ \A n \in 1 .. Len(s) : Moves(s[n], cur[n - 1], cur[n])
  BY DEF Chain
<1> DEFINE t == Tail(s)
           nxt == [n \in 0 .. Len(s) - 1 |-> cur[n + 1]]
<1>2. /\ Len(s) \in Nat \ {0} /\ Len(t) = Len(s) - 1 /\ Head(s) = s[1]
      /\ \A n \in 1 .. Len(s) - 1 : t[n] = s[n + 1]
  BY TailFacts
<1>3. nxt \in [0 .. Len(t) -> T] /\ nxt[0] = cur[1] /\ nxt[Len(t)] = b
  BY <1>1, <1>2
<1>4. ASSUME NEW n \in 1 .. Len(t) PROVE Moves(t[n], nxt[n - 1], nxt[n])
  <2>1. t[n] = s[n + 1] /\ nxt[n - 1] = cur[n] /\ nxt[n] = cur[n + 1] /\ n + 1 \in 1 .. Len(s)
    BY <1>2
  <2>2. Moves(s[n + 1], cur[n + 1 - 1], cur[n + 1])
    BY <1>1, <2>1
  <2>3. n + 1 - 1 = n
    BY <1>2
  <2> QED
    BY <2>1, <2>2, <2>3
<1>5. Moves(Head(s), a, cur[1]) /\ cur[1] \in T
  <2>1. 1 \in 1 .. Len(s) /\ 1 - 1 = 0 /\ 1 \in 0 .. Len(s)
    BY <1>2
  <2>2. Moves(s[1], cur[1 - 1], cur[1])
    BY <1>1, <2>1
  <2> QED
    BY <1>1, <1>2, <2>1, <2>2
<1> HIDE DEF t, nxt
<1>6. Chain(t, cur[1], b, T)
  BY <1>3, <1>4 DEF Chain
<1> QED
  BY <1>5, <1>6 DEF t

\* No message: the app and the system see the same instance.
LEMMA ChainEmpty ==
  ASSUME NEW T, NEW a, NEW b
  PROVE  (Chain(<<>>, a, b, T) => a = b) /\ (a = b /\ a \in T => Chain(<<>>, a, b, T))
<1>1. Len(<<>>) = 0 /\ 0 .. 0 = {0} /\ 1 .. 0 = {}
  OBVIOUS
<1>2. ASSUME a = b, a \in T PROVE Chain(<<>>, a, b, T)
  <2> DEFINE cur == [n \in 0 .. 0 |-> a]
  <2>1. cur \in [0 .. Len(<<>>) -> T] /\ cur[0] = a /\ cur[Len(<<>>)] = b
    BY <1>1, <1>2
  <2> HIDE DEF cur
  <2> QED
    BY <1>1, <2>1 DEF Chain
<1>3. ASSUME Chain(<<>>, a, b, T) PROVE a = b
  BY <1>1, <1>3 DEF Chain
<1> QED
  BY <1>2, <1>3

\* A chain of some instances is one of more.
LEMMA ChainWider ==
  ASSUME NEW s, NEW a, NEW b, NEW T, NEW U, T \subseteq U, Chain(s, a, b, T)
  PROVE  Chain(s, a, b, U)
<1>1. PICK cur \in [0 .. Len(s) -> T] :
        /\ cur[0] = a /\ cur[Len(s)] = b
        /\ \A n \in 1 .. Len(s) : Moves(s[n], cur[n - 1], cur[n])
  BY DEF Chain
<1>2. cur \in [0 .. Len(s) -> U]
  OBVIOUS
<1> QED
  BY <1>1, <1>2 DEF Chain

\* A queue behind which nothing, or one message, is put.
LEMMA ConcatFacts ==
  ASSUME NEW S, NEW s \in Seq(S)
  PROVE  s \o <<>> = s /\ \A m \in S : s \o <<m>> = Append(s, m)
OBVIOUS

\* stopSelf and stopService: the instance goes with a message, or stays.
LEMMA ChainStop ==
  ASSUME HostTypes, NEW T, 0 \in T, NEW x, NEW a \in AmRecords, NEW i \in 0 .. MaxTaps,
         Chain(sys, x, a.inst, T)
  PROVE  /\ Chain(sys \o StopMsg(a, i), x, Stopped(a, i).inst, T)
         /\ Stopped(a, i).inst \in {a.inst, 0}
         /\ Stopped(a, i).proxy = a.proxy
<1>1. sys \in Seq(GoodMessages) /\ sys \o <<>> = sys
  BY ConcatFacts DEF HostTypes
<1>2. CASE i = 0 \/ a.inst # i
  <2>1. Stopped(a, i) = a /\ StopMsg(a, i) = <<>>
    BY <1>2 DEF Stopped, StopMsg
  <2> QED
    BY <1>1, <2>1
<1>3. CASE i # 0 /\ a.inst = i /\ Bound(a)
  <2>1. Stopped(a, i) = [a EXCEPT !.started = FALSE] /\ StopMsg(a, i) = <<>>
    BY <1>3 DEF Stopped, StopMsg
  <2>2. Stopped(a, i).inst = a.inst /\ Stopped(a, i).proxy = a.proxy
    BY <2>1 DEF AmRecords
  <2> QED
    BY <1>1, <2>1, <2>2
<1>4. CASE i # 0 /\ a.inst = i /\ ~ Bound(a)
  <2> DEFINE m == Msg("destroy", i, 0)
  <2>1. Stopped(a, i) = [a EXCEPT !.started = FALSE, !.inst = 0] /\ StopMsg(a, i) = <<m>>
    BY <1>4 DEF Stopped, StopMsg
  <2>2. Stopped(a, i).inst = 0 /\ Stopped(a, i).proxy = a.proxy
    BY <2>1 DEF AmRecords
  <2>3. Moves(m, a.inst, 0)
    BY <1>4 DEF Moves, Msg
  <2>4. m \in GoodMessages
    BY <1>4, MakersFit, AndroidAssumption DEF Reqs
  <2> HIDE DEF m
  <2>5. sys \o StopMsg(a, i) = Append(sys, m)
    BY <1>1, <2>1, <2>4, ConcatFacts
  <2> QED
    BY <1>1, <2>2, <2>3, <2>5, ChainAppend
<1> QED
  BY <1>2, <1>3, <1>4

\* What the invariant is about.
tunVars == <<sys, instance, am, svc, thr, active, taps, dialogReq>>

\* Starting the VpnService for a request that has created no instance yet.
LEMMA StartMoves ==
  ASSUME HostTypes, NEW T, NEW r \in Reqs, NEW result, StartVpnHost(r, result), NEW x,
         Chain(sys, x, am.inst, T), am.inst \in T, r \in T, am.inst # r
  PROVE  Chain(sys', x, am'.inst, T)
<1> DEFINE i == IF am.inst = 0 THEN r ELSE am.inst
           m == Msg("start", i, r)
<1>1. am' = [am EXCEPT !.inst = i, !.started = TRUE] /\ sys' = Append(sys, m)
  BY DEF StartVpnHost
<1>2. i \in T /\ Moves(m, am.inst, i)
  BY AndroidAssumption DEF Moves, Msg, Reqs
<1> HIDE DEF i, m
<1>3. am'.inst = i
  BY <1>1 DEF HostTypes, AmRecords
<1> QED
  BY <1>1, <1>2, <1>3, ChainAppend DEF HostTypes

\* The two ends of a chain are instances.
LEMMA ChainEnds ==
  ASSUME NEW S, NEW s \in Seq(S), NEW a, NEW b, NEW T, Chain(s, a, b, T)
  PROVE  a \in T /\ b \in T
<1>1. PICK cur \in [0 .. Len(s) -> T] : cur[0] = a /\ cur[Len(s)] = b
  BY DEF Chain
<1>2. 0 \in 0 .. Len(s) /\ Len(s) \in 0 .. Len(s)
  OBVIOUS
<1> QED
  BY <1>1, <1>2

\* A tap on Connect, and the end of a consent dialog, keep it.
LEMMA TapsKeepTun ==
  ASSUME TypeInv, TunInv,
         (\E mode \in TapModes : TapConnect(mode)) \/ (\E ok \in BOOLEAN : ConsentResult(ok))
  PROVE  TunInv'
<1> USE DEF TypeInv
<1>0. /\ Chain(sys, instance, am.inst, Issued) /\ dialogReq <= taps
      /\ sys \in Seq(GoodMessages) /\ am.inst \in Issued /\ taps \in Nat /\ 0 \in Issued
  <2>1. Chain(sys, instance, am.inst, Issued) /\ dialogReq <= taps /\ sys \in Seq(GoodMessages)
    BY DEF TunInv, OrderOfLives, HostTypes
  <2> QED
    BY <2>1, ChainEnds, AndroidAssumption DEF AppTypes, Issued
<1>1. UNCHANGED <<instance, svc, thr, active>>
  BY DEF TapConnect, ConsentResult
<1>2. ThreadsAreCurrent' /\ HeldByCurrent' /\ CurrentIsActive'
  BY <1>1 DEF TunInv, ThreadsAreCurrent, HeldByCurrent, CurrentIsActive, Live
<1>3. ASSUME NEW mode \in TapModes, TapConnect(mode) PROVE OrderOfLives'
  <2> DEFINE r == taps + 1
  <2>1. taps' = r /\ r \in Reqs /\ taps < MaxTaps
    BY <1>3, AndroidAssumption DEF TapConnect, AppTypes, Reqs
  <2>2. CASE StartVpnHost(r, r) /\ UNCHANGED dialogReq
    <3>1. Issued \subseteq Issued' /\ r \in Issued' /\ am.inst # r /\ dialogReq' <= taps'
      BY <1>0, <2>1, <2>2 DEF Issued, AppTypes
    <3>2. Chain(sys, instance, am.inst, Issued')
      BY <1>0, <3>1, ChainWider
    <3> HIDE DEF r
    <3>3. Chain(sys', instance, am'.inst, Issued')
      BY <1>0, <2>1, <2>2, <3>1, <3>2, StartMoves
    <3> QED
      BY <1>1, <3>1, <3>3 DEF OrderOfLives
  <2>3. CASE dialogReq' = r /\ UNCHANGED <<am, sys>>
    <3>1. Issued \subseteq Issued' /\ dialogReq' <= taps'
      BY <1>0, <2>1, <2>3 DEF Issued, AppTypes
    <3>2. Chain(sys, instance, am.inst, Issued')
      BY <1>0, <3>1, ChainWider
    <3> QED
      BY <1>1, <2>3, <3>1, <3>2 DEF OrderOfLives
  <2>4. CASE /\ am' = [am EXCEPT !.proxy = TRUE] /\ sys' = Append(sys, Msg("startProxy", 0, r))
             /\ UNCHANGED dialogReq
    <3>1. Issued \subseteq Issued' /\ dialogReq' <= taps'
      BY <1>0, <2>1, <2>4 DEF Issued, AppTypes
    <3>2. Chain(sys, instance, am.inst, Issued')
      BY <1>0, <3>1, ChainWider
    <3>3. am'.inst = am.inst
      BY <2>4 DEF HostTypes, AmRecords
    <3> DEFINE m == Msg("startProxy", 0, r)
    <3>4. Moves(m, am.inst, am.inst) /\ sys' = Append(sys, m)
      BY <2>4 DEF Moves, Msg
    <3> HIDE DEF m
    <3>5. Chain(sys', instance, am'.inst, Issued')
      BY <1>0, <3>1, <3>2, <3>3, <3>4, ChainAppend
    <3> QED
      BY <1>1, <3>1, <3>5 DEF OrderOfLives
  <2> QED
    BY <1>3, <2>2, <2>3, <2>4 DEF TapConnect
<1>4. ASSUME NEW ok \in BOOLEAN, ConsentResult(ok) PROVE OrderOfLives'
  <2>1. dialogReq' = 0 /\ taps' = taps
    BY <1>4 DEF ConsentResult
  <2>2. Issued \subseteq Issued' /\ dialogReq' <= taps'
    BY <1>0, <2>1 DEF Issued
  <2>3. Chain(sys, instance, am.inst, Issued')
    BY <1>0, <2>2, ChainWider
  <2>4. CASE dialogReq # 0 /\ StartVpnHost(dialogReq, pending)
    <3>1. dialogReq \in Issued' /\ am.inst # dialogReq /\ dialogReq \in Reqs /\ am.inst \in Issued'
      BY <1>0, <2>1, <2>4, AndroidAssumption DEF Issued, AppTypes, Reqs
    <3>2. Chain(sys', instance, am'.inst, Issued')
      BY <2>3, <2>4, <3>1, StartMoves
    <3> QED
      BY <1>1, <2>2, <3>2 DEF OrderOfLives
  <2>5. CASE UNCHANGED <<am, sys>>
    BY <1>1, <2>2, <2>3, <2>5 DEF OrderOfLives
  <2> QED
    BY <1>4, <2>4, <2>5 DEF ConsentResult
<1> QED
  BY <1>2, <1>3, <1>4 DEF TunInv

\* A step that stops a service, lets a TUN go or ends a thread keeps it.
LEMMA StopsKeepTun ==
  ASSUME TypeInv, TunInv, UNCHANGED <<instance, taps, dialogReq>>,
         Chain(sys', instance, am'.inst, Issued),
         svc' \in [Reqs -> [destroyed : BOOLEAN, tun : 0 .. MaxTaps]],
         \A i \in Reqs : /\ svc[i].destroyed => svc'[i].destroyed
                         /\ svc'[i].tun # 0 => svc'[i].tun = svc[i].tun /\ svc'[i].destroyed = svc[i].destroyed,
         \A r \in Reqs : Live(r)' => Live(r) /\ thr'[r].inst = thr[r].inst,
         instance # 0 /\ ~ svc'[instance].destroyed => active'.vpn
  PROVE  TunInv'
<1>1. OrderOfLives'
  <2>1. Issued' = Issued
    BY DEF Issued
  <2> QED
    BY <2>1 DEF TunInv, OrderOfLives
<1>2. ThreadsAreCurrent'
  BY DEF TunInv, ThreadsAreCurrent, TypeInv, HostTypes
<1>3. HeldByCurrent'
  BY DEF TunInv, HeldByCurrent
<1>4. CurrentIsActive'
  BY DEF CurrentIsActive
<1> QED
  BY <1>1, <1>2, <1>3, <1>4 DEF TunInv

\* The steps of the invariant below that leave its variables alone.
LEMMA QuietKeepsTun ==
  ASSUME TunInv, UNCHANGED tunVars
  PROVE  TunInv'
BY DEF TunInv, tunVars, OrderOfLives, Chain, Moves, Issued, ThreadsAreCurrent, Live, HeldByCurrent,
   CurrentIsActive

\* At the start there is no instance.
LEMMA TunBegins == Init => TunInv
<1> SUFFICES ASSUME Init PROVE TunInv
  OBVIOUS
<1>1. sys = <<>> /\ instance = 0 /\ am.inst = 0 /\ taps = 0 /\ dialogReq = 0
  BY DEF Init
<1>2. OrderOfLives
  BY <1>1, ChainEmpty DEF OrderOfLives, Issued
<1>3. ThreadsAreCurrent /\ HeldByCurrent /\ CurrentIsActive
  BY <1>1 DEF Init, ThreadsAreCurrent, HeldByCurrent, CurrentIsActive, Live
<1> QED
  BY <1>2, <1>3 DEF TunInv

\* What the system does on its own keeps it.
LEMMA SystemKeepsTun ==
  ASSUME TypeInv, TunInv, InterfaceRemoved \/ KillService \/ OnRevoke
  PROVE  TunInv'
<1>0. /\ Chain(sys, instance, am.inst, Issued) /\ sys \in Seq(GoodMessages)
      /\ am \in AmRecords /\ am.inst \in 0 .. MaxTaps /\ 0 \in Issued /\ HostTypes
      /\ svc \in [Reqs -> [destroyed : BOOLEAN, tun : 0 .. MaxTaps]]
  <2>1. taps \in Nat
    BY AndroidAssumption DEF TypeInv, AppTypes
  <2> QED
    BY <2>1 DEF TypeInv, TunInv, OrderOfLives, HostTypes, AmRecords, Issued
<1>1. UNCHANGED <<instance, taps, dialogReq, thr, active>>
  BY DEF InterfaceRemoved, KillService, OnRevoke, appVars
<1> DEFINE a == [am EXCEPT !.iface = 0]
<1>2. a \in AmRecords /\ a.inst = am.inst
  BY <1>0, AndroidAssumption DEF AmRecords
<1> HIDE DEF a
<1>3. Chain(sys \o StopMsg(a, am.inst), instance, Stopped(a, am.inst).inst, Issued)
  BY <1>0, <1>2, ChainStop
<1>4. ASSUME Chain(sys', instance, am'.inst, Issued),
             svc' = svc \/ \E i \in Reqs : svc' = [svc EXCEPT ![i].tun = 0]
      PROVE  TunInv'
  <2>1. svc' \in [Reqs -> [destroyed : BOOLEAN, tun : 0 .. MaxTaps]]
    BY <1>0, <1>4, AndroidAssumption
  <2>2. \A i \in Reqs : svc'[i].destroyed = svc[i].destroyed
    BY <1>0, <1>4
  <2>3. \A i \in Reqs : svc'[i].tun # 0 => svc'[i].tun = svc[i].tun
    BY <1>0, <1>4
  <2>4. instance # 0 /\ ~ svc'[instance].destroyed => active'.vpn
    <3>1. instance # 0 => instance \in Reqs
      BY <1>0, AndroidAssumption DEF HostTypes, Reqs
    <3> QED
      BY <1>1, <2>2, <3>1 DEF TunInv, CurrentIsActive
  <2>5. \A r \in Reqs : Live(r)' => Live(r) /\ thr'[r].inst = thr[r].inst
    BY <1>1 DEF Live
  <2> QED
    BY <1>1, <1>4, <2>1, <2>2, <2>3, <2>4, <2>5, StopsKeepTun
<1>5. CASE InterfaceRemoved
  <2>1. svc' = svc
    BY <1>5 DEF InterfaceRemoved
  <2>2. CASE am.started
    <3>1. am' = a /\ sys' = sys
      BY <1>5, <2>2 DEF InterfaceRemoved, a
    <3> QED
      BY <1>0, <1>2, <1>4, <2>1, <3>1
  <2>3. CASE ~ am.started
    <3>1. am' = Stopped(a, am.inst) /\ sys' = sys \o StopMsg(a, am.inst)
      BY <1>5, <2>3 DEF InterfaceRemoved, a
    <3> QED
      BY <1>3, <1>4, <2>1, <3>1
  <2> QED
    BY <2>2, <2>3
<1>6. CASE KillService
  <2>1. svc' = svc
    BY <1>6 DEF KillService
  <2>2. CASE am.inst # 0 /\ am' = [am EXCEPT !.inst = 0, !.started = FALSE]
             /\ sys' = Append(sys, Msg("destroy", am.inst, 0))
    <3>1. am'.inst = 0
      BY <1>0, <2>2 DEF AmRecords
    <3> DEFINE m == Msg("destroy", am.inst, 0)
    <3>2. Moves(m, am.inst, 0) /\ sys' = Append(sys, m)
      BY <2>2 DEF Moves, Msg
    <3> HIDE DEF m
    <3>3. Chain(sys', instance, am'.inst, Issued)
      BY <1>0, <3>1, <3>2, ChainAppend
    <3> QED
      BY <1>4, <2>1, <3>3
  <2>3. CASE /\ am' = [am EXCEPT !.proxy = FALSE]
             /\ sys' = Append(sys, Msg("destroyProxy", 0, 0))
    <3>1. am'.inst = am.inst /\ am.inst \in Issued
      BY <1>0, <2>3, ChainEnds DEF AmRecords
    <3> DEFINE m == Msg("destroyProxy", 0, 0)
    <3>2. Moves(m, am.inst, am.inst) /\ sys' = Append(sys, m)
      BY <2>3 DEF Moves, Msg
    <3> HIDE DEF m
    <3>3. Chain(sys', instance, am'.inst, Issued)
      BY <1>0, <3>1, <3>2, ChainAppend
    <3> QED
      BY <1>4, <2>1, <3>3
  <2> QED
    BY <1>6, <2>2, <2>3 DEF KillService
<1>7. CASE OnRevoke
  <2>1. am' = Stopped(a, am.inst) /\ sys' = sys \o StopMsg(a, am.inst)
    BY <1>7 DEF OnRevoke, a
  <2>2. am.inst \in Reqs /\ svc' = [svc EXCEPT ![am.inst].tun = 0]
    BY <1>0, <1>7, AndroidAssumption DEF OnRevoke, Reqs
  <2> QED
    BY <1>3, <1>4, <2>1, <2>2
<1> QED
  BY <1>5, <1>6, <1>7

\* The threads of the VpnService keep it: a TUN is claimed for the current
\* instance.
LEMMA ThreadsKeepTun ==
  ASSUME TypeInv, TunInv, NEW r \in Reqs, ThreadStep(r)
  PROVE  TunInv'
<1>0. /\ Chain(sys, instance, am.inst, Issued) /\ sys \in Seq(GoodMessages)
      /\ am \in AmRecords /\ 0 \in Issued /\ HostTypes
      /\ svc \in [Reqs -> [destroyed : BOOLEAN, tun : 0 .. MaxTaps]]
      /\ thr \in [Reqs -> Threads]
  <2>1. taps \in Nat
    BY AndroidAssumption DEF TypeInv, AppTypes
  <2> QED
    BY <2>1 DEF TypeInv, TunInv, OrderOfLives, HostTypes, Issued
<1>1. UNCHANGED <<instance, taps, dialogReq, active>>
  BY DEF ThreadStep, Establish, EstablishFails, ClaimTun, SetTunFd, SubmitConnect, appVars
<1> DEFINE i == thr[r].inst
<1>2. i \in Reqs
  BY DEF ThreadStep, Establish, EstablishFails, ClaimTun, SetTunFd, SubmitConnect, Live, TypeInv,
     HostTypes
<1>3. \A t \in Reqs : Live(t)' => Live(t) /\ thr'[t].inst = thr[t].inst
  <2>1. Live(r) /\ \E pc : thr' = [thr EXCEPT ![r].pc = pc]
    BY DEF ThreadStep, Establish, EstablishFails, ClaimTun, SetTunFd, SubmitConnect, Live
  <2> QED
    BY <1>0, <2>1 DEF Live, Threads
<1>4. instance # 0 => instance \in Reqs
  BY <1>0, AndroidAssumption DEF HostTypes, Reqs
<1>5. ASSUME svc' = svc, Chain(sys', instance, am'.inst, Issued) PROVE TunInv'
  BY <1>0, <1>1, <1>3, <1>5, StopsKeepTun DEF TunInv, CurrentIsActive
<1>6. ASSUME sys' = sys, am'.inst = am.inst PROVE Chain(sys', instance, am'.inst, Issued)
  BY <1>0, <1>6
<1>7. CASE Establish(r)
  <2>1. am'.inst = am.inst /\ svc' = svc /\ sys' = sys
    BY <1>0, <1>7 DEF Establish, AmRecords
  <2> QED
    BY <1>5, <1>6, <2>1
<1>8. CASE EstablishFails(r)
  <2>1. /\ am' = Stopped(am, i) /\ sys' = sys \o StopMsg(am, i)
        /\ svc' = [svc EXCEPT ![i].tun = 0]
    BY <1>8 DEF EstablishFails
  <2>2. i \in 0 .. MaxTaps
    BY <1>2 DEF Reqs
  <2>3. Chain(sys', instance, am'.inst, Issued)
    BY <1>0, <2>1, <2>2, ChainStop
  <2> HIDE DEF i
  <2>4. /\ svc' \in [Reqs -> [destroyed : BOOLEAN, tun : 0 .. MaxTaps]]
        /\ \A j \in Reqs : svc'[j].destroyed = svc[j].destroyed
    <3>1. svc' \in [Reqs -> [destroyed : BOOLEAN, tun : 0 .. MaxTaps]]
      <4>1. 0 \in 0 .. MaxTaps
        BY AndroidAssumption
      <4> QED
        BY <1>0, <2>1, <4>1, SvcFits
    <3>2. \A j \in Reqs : svc'[j].destroyed = svc[j].destroyed
      BY <1>0, <2>1
    <3> QED
      BY <3>1, <3>2
  <2>5. \A j \in Reqs : svc'[j].tun # 0 => svc'[j].tun = svc[j].tun
    BY <1>0, <2>1
  <2>6. instance # 0 /\ ~ svc'[instance].destroyed => active'.vpn
    BY <1>1, <1>4, <2>4 DEF TunInv, CurrentIsActive
  <2> QED
    BY <1>1, <1>3, <2>3, <2>4, <2>5, <2>6, StopsKeepTun
<1>9. CASE ClaimTun(r)
  <2>1. Live(r) /\ UNCHANGED <<am, sys>>
    BY <1>9 DEF ClaimTun, Live
  <2>2. CASE svc' = svc
    BY <1>5, <1>6, <2>1, <2>2
  <2>3. CASE ~ svc[i].destroyed /\ svc' = [svc EXCEPT ![i].tun = r]
    <3>1. instance = i
      BY <2>1, <2>3 DEF TunInv, ThreadsAreCurrent
    <3>2. \A j \in Reqs : svc'[j].destroyed = svc[j].destroyed
      BY <1>0, <2>3
    <3>3. \A j \in Reqs : j # i => svc'[j].tun = svc[j].tun
      BY <1>0, <2>3
    <3>4. OrderOfLives'
      BY <1>1, <2>1 DEF TunInv, OrderOfLives, Issued, Chain, Moves
    <3>5. ThreadsAreCurrent'
      BY <1>0, <1>1, <1>3, <3>2 DEF TunInv, ThreadsAreCurrent, HostTypes
    <3>6. HeldByCurrent'
      BY <1>1, <2>3, <3>1, <3>2, <3>3 DEF TunInv, HeldByCurrent
    <3>7. CurrentIsActive'
      BY <1>1, <1>4, <3>2 DEF TunInv, CurrentIsActive
    <3> QED
      BY <3>4, <3>5, <3>6, <3>7 DEF TunInv
  <2> QED
    BY <1>9, <2>2, <2>3 DEF ClaimTun
<1>10. CASE SetTunFd(r) \/ SubmitConnect(r)
  <2>1. UNCHANGED <<am, sys, svc>>
    BY <1>10 DEF SetTunFd, SubmitConnect
  <2> QED
    BY <1>5, <1>6, <2>1
<1> QED
  BY <1>7, <1>8, <1>9, <1>10 DEF ThreadStep

\* The messages of the system keep it: they create and destroy instances.
LEMMA MessagesKeepTun ==
  ASSUME TypeInv, TunInv, OnStartCommand \/ OnDestroy \/ ProxyMessage
  PROVE  TunInv'
<1> DEFINE m == Head(sys)
<1>1. /\ Chain(sys, instance, am.inst, Issued) /\ sys \in Seq(GoodMessages)
      /\ sys # <<>> /\ sys' = Tail(sys) /\ HostTypes
      /\ svc \in [Reqs -> [destroyed : BOOLEAN, tun : 0 .. MaxTaps]] /\ thr \in [Reqs -> Threads]
  BY DEF TypeInv, TunInv, OrderOfLives, HostTypes, OnStartCommand, OnDestroy, ProxyMessage
<1>2. m \in GoodMessages
  BY <1>1, SeqsFit
<1>3. UNCHANGED <<taps, dialogReq, am>>
  BY DEF OnStartCommand, OnDestroy, ProxyMessage, appVars
<1>4. PICK c \in Issued : Moves(m, instance, c) /\ Chain(sys', c, am.inst, Issued)
  BY <1>1, ChainTail
<1>5. ASSUME instance' = c PROVE OrderOfLives'
  <2>1. Issued' = Issued
    BY <1>3 DEF Issued
  <2> QED
    BY <1>3, <1>4, <1>5, <2>1 DEF TunInv, OrderOfLives
<1>6. instance # 0 => instance \in Reqs
  BY <1>1, AndroidAssumption DEF HostTypes, Reqs
<1> HIDE DEF m
<1>7. CASE OnStartCommand
  <2>1. /\ m.op = "start" /\ m.inst \in Reqs /\ m.req \in Reqs
        /\ instance' = (IF m.inst = m.req THEN m.inst ELSE instance)
        /\ thr' = [thr EXCEPT ![m.req] = [pc |-> "establish", inst |-> m.inst, result |-> pending]]
        /\ svc' = svc /\ active' = [active EXCEPT !.vpn = TRUE]
    BY <1>2, <1>7 DEF OnStartCommand, m, GoodMessages
  <2>2. /\ c = m.inst /\ instance = (IF m.inst = m.req THEN 0 ELSE m.inst)
        /\ instance' = c
    BY <1>4, <2>1 DEF Moves
  <2>3. /\ thr'[m.req].inst = m.inst
        /\ \A r \in Reqs : r # m.req => thr'[r] = thr[r]
    BY <1>1, <2>1
  <2>4. ThreadsAreCurrent'
    <3> SUFFICES ASSUME NEW r \in Reqs, Live(r)', ~ svc[thr'[r].inst].destroyed
                 PROVE  instance' = thr'[r].inst
      BY <2>1 DEF ThreadsAreCurrent
    <3>1. CASE r = m.req
      BY <2>2, <2>3, <3>1
    <3>2. CASE r # m.req
      <4>1. Live(r) /\ thr'[r].inst = thr[r].inst
        BY <2>3, <3>2 DEF Live
      <4>2. instance = thr[r].inst /\ thr[r].inst \in Reqs
        BY <1>1, <4>1 DEF TunInv, ThreadsAreCurrent, HostTypes
      <4> QED
        BY <2>2, <4>1, <4>2, AndroidAssumption DEF Reqs
    <3> QED
      BY <3>1, <3>2
  <2>5. HeldByCurrent'
    BY <2>1, <2>2, AndroidAssumption DEF TunInv, HeldByCurrent, Reqs
  <2>6. CurrentIsActive'
    BY <2>1 DEF CurrentIsActive, TypeInv, BridgeTypes
  <2> QED
    BY <1>5, <2>2, <2>4, <2>5, <2>6 DEF TunInv
<1>8. CASE OnDestroy
  <2>1. /\ m.op = "destroy" /\ m.inst \in Reqs /\ thr' = thr
        /\ instance' = (IF instance = m.inst THEN 0 ELSE instance)
        /\ svc' = [svc EXCEPT ![m.inst] = [destroyed |-> TRUE, tun |-> 0]]
    BY <1>2, <1>8 DEF OnDestroy, m, GoodMessages
  <2>2. c = 0 /\ instance = m.inst /\ instance' = 0
    BY <1>4, <2>1 DEF Moves
  <2>3. /\ svc'[m.inst].destroyed /\ svc'[m.inst].tun = 0
        /\ \A i \in Reqs : i # m.inst => svc'[i] = svc[i]
    BY <1>1, <2>1
  <2>4. ThreadsAreCurrent'
    <3> SUFFICES ASSUME NEW r \in Reqs, Live(r), ~ svc'[thr[r].inst].destroyed PROVE FALSE
      BY <2>1 DEF ThreadsAreCurrent, Live
    <3>1. thr[r].inst \in Reqs /\ thr[r].inst # m.inst
      BY <1>1, <2>3 DEF HostTypes
    <3>2. ~ svc[thr[r].inst].destroyed
      BY <2>3, <3>1
    <3> QED
      BY <2>2, <3>1, <3>2 DEF TunInv, ThreadsAreCurrent
  <2>5. HeldByCurrent'
    <3> SUFFICES ASSUME NEW i \in Reqs, svc'[i].tun # 0 PROVE FALSE
      BY DEF HeldByCurrent
    <3>1. i # m.inst /\ svc[i].tun # 0
      BY <2>3
    <3> QED
      BY <2>2, <3>1 DEF TunInv, HeldByCurrent
  <2>6. CurrentIsActive'
    BY <2>2 DEF CurrentIsActive
  <2> QED
    BY <1>5, <2>2, <2>4, <2>5, <2>6 DEF TunInv
<1>9. CASE ProxyMessage
  <2>1. m.op \in {"startProxy", "destroyProxy"} /\ UNCHANGED <<instance, svc, thr>>
    BY <1>9 DEF ProxyMessage, m
  <2>2. c = instance
    BY <1>4, <2>1 DEF Moves
  <2>3. active'.vpn = active.vpn
    BY <1>9 DEF ProxyMessage, TypeInv, BridgeTypes
  <2>4. ThreadsAreCurrent' /\ HeldByCurrent'
    BY <2>1 DEF TunInv, ThreadsAreCurrent, HeldByCurrent, Live
  <2>5. CurrentIsActive'
    BY <2>1, <2>3 DEF TunInv, CurrentIsActive
  <2> QED
    BY <1>5, <2>1, <2>2, <2>4, <2>5 DEF TunInv
<1> QED
  BY <1>7, <1>8, <1>9

\* The callbacks of the executor keep it.
LEMMA CallbacksKeepTun ==
  ASSUME TypeInv, TunInv, PostedAbort \/ PostedStopSelf \/ StopConnectionHosts
  PROVE  TunInv'
<1> DEFINE p == Head(posts)
<1>0. /\ Chain(sys, instance, am.inst, Issued) /\ sys \in Seq(GoodMessages)
      /\ am \in AmRecords /\ am.inst \in 0 .. MaxTaps /\ 0 \in Issued /\ HostTypes
      /\ svc \in [Reqs -> [destroyed : BOOLEAN, tun : 0 .. MaxTaps]]
      /\ 0 \in 0 .. MaxTaps
  <2>1. taps \in Nat
    BY AndroidAssumption DEF TypeInv, AppTypes
  <2> QED
    BY <2>1, AndroidAssumption DEF TypeInv, TunInv, OrderOfLives, HostTypes, AmRecords, Issued
<1>1. UNCHANGED <<instance, taps, dialogReq, thr>>
  BY DEF PostedAbort, PostedStopSelf, StopConnectionHosts, appVars
<1>2. p.inst \in 0 .. MaxTaps
  <2>1. posts # <<>> /\ posts \in Seq(Posts)
    BY DEF PostedAbort, PostedStopSelf, StopConnectionHosts, TypeInv, BridgeTypes
  <2>2. p \in Posts
    BY <2>1, SeqsFit
  <2> HIDE DEF p
  <2> QED
    BY <2>2 DEF Posts
<1>3. instance # 0 => instance \in Reqs
  BY <1>0, AndroidAssumption DEF HostTypes, Reqs
<1>4. \A r \in Reqs : Live(r)' => Live(r) /\ thr'[r].inst = thr[r].inst
  BY <1>1 DEF Live
<1> HIDE DEF p
<1>5. CASE PostedAbort \/ PostedStopSelf
  <2>1. /\ am' = Stopped(am, p.inst) /\ sys' = sys \o StopMsg(am, p.inst) /\ active' = active
        /\ svc' = svc \/ svc' = [svc EXCEPT ![p.inst].tun = 0]
    BY <1>5 DEF PostedAbort, PostedStopSelf, p
  <2>2. Chain(sys', instance, am'.inst, Issued)
    BY <1>0, <1>2, <2>1, ChainStop
  <2>3. svc' \in [Reqs -> [destroyed : BOOLEAN, tun : 0 .. MaxTaps]]
    BY <1>0, <2>1, SvcFits
  <2>4. \A i \in Reqs : svc'[i].destroyed = svc[i].destroyed
    BY <1>0, <2>1
  <2>5. \A i \in Reqs : svc'[i].tun # 0 => svc'[i].tun = svc[i].tun
    BY <1>0, <2>1
  <2>6. instance # 0 /\ ~ svc'[instance].destroyed => active'.vpn
    BY <1>3, <2>1, <2>4 DEF TunInv, CurrentIsActive
  <2> QED
    BY <1>1, <1>4, <2>2, <2>3, <2>4, <2>5, <2>6, StopsKeepTun
<1>6. CASE StopConnectionHosts
  <2> DEFINE i == IF active.vpn THEN instance ELSE 0
             a == IF active.vpn THEN Stopped(am, am.inst) ELSE am
             one == sys \o (IF active.vpn THEN StopMsg(am, am.inst) ELSE <<>>)
             two == IF active.proxy /\ am.proxy THEN <<Msg("destroyProxy", 0, 0)>> ELSE <<>>
  <2>1. /\ am' = (IF active.proxy THEN [a EXCEPT !.proxy = FALSE] ELSE a)
        /\ svc' = (IF i = 0 THEN svc ELSE [svc EXCEPT ![i] = [destroyed |-> TRUE, tun |-> 0]])
        /\ sys' = one \o two
        /\ active' = [vpn |-> FALSE, proxy |-> FALSE]
    BY <1>6 DEF StopConnectionHosts
  <2>2. a \in AmRecords /\ one \in Seq(GoodMessages) /\ Chain(one, instance, a.inst, Issued)
    <3>1. CASE active.vpn
      <4>1. a = Stopped(am, am.inst) /\ one = sys \o StopMsg(am, am.inst)
        BY <3>1
      <4>2. Stopped(am, am.inst) \in AmRecords /\ StopMsg(am, am.inst) \in Seq(GoodMessages)
        BY <1>0, StoppedFits
      <4>3. Chain(sys \o StopMsg(am, am.inst), instance, Stopped(am, am.inst).inst, Issued)
        BY <1>0, ChainStop
      <4>4. sys \o StopMsg(am, am.inst) \in Seq(GoodMessages)
        BY <1>0, <4>2, SeqsFit
      <4> QED
        BY <4>1, <4>2, <4>3, <4>4
    <3>2. CASE ~ active.vpn
      <4>1. a = am /\ one = sys
        BY <1>0, <3>2, ConcatFacts
      <4> QED
        BY <1>0, <4>1
    <3> QED
      BY <3>1, <3>2
  <2>3. i # 0 => i \in Reqs
    BY <1>3
  <2>4. ~ active.vpn => instance = 0 \/ svc[instance].destroyed
    BY DEF TunInv, CurrentIsActive
  <2>5. i = IF active.vpn THEN instance ELSE 0
    OBVIOUS
  <2>6. two = <<>> \/ two = <<Msg("destroyProxy", 0, 0)>>
    OBVIOUS
  <2> HIDE DEF i, a, one, two
  <2>7. a.inst \in Issued /\ am'.inst = a.inst
    BY <2>1, <2>2, ChainEnds DEF AmRecords
  <2>8. Chain(sys', instance, am'.inst, Issued)
    <3>1. CASE two = <<>>
      BY <2>1, <2>2, <2>7, <3>1, ConcatFacts
    <3>2. CASE two = <<Msg("destroyProxy", 0, 0)>>
      <4> DEFINE m == Msg("destroyProxy", 0, 0)
      <4>1. m \in GoodMessages /\ Moves(m, a.inst, a.inst)
        BY MakersFit DEF Moves, Msg
      <4>2. two = <<m>>
        BY <3>2
      <4> HIDE DEF m
      <4>3. one \o two = Append(one, m)
        BY <2>2, <4>1, <4>2, ConcatFacts
      <4> QED
        BY <2>1, <2>2, <2>7, <4>1, <4>3, ChainAppend
    <3> QED
      BY <2>6, <3>1, <3>2
  <2>9. svc' \in [Reqs -> [destroyed : BOOLEAN, tun : 0 .. MaxTaps]]
    BY <1>0, <2>1
  <2>10. \A j \in Reqs : IF i = j THEN svc'[j].destroyed /\ svc'[j].tun = 0 ELSE svc'[j] = svc[j]
    BY <1>0, <2>1, <2>3, AndroidAssumption DEF Reqs
  <2>11. instance # 0 => svc'[instance].destroyed
    <3> SUFFICES ASSUME instance # 0 PROVE svc'[instance].destroyed
      OBVIOUS
    <3>1. CASE active.vpn
      BY <1>3, <2>5, <2>10, <3>1
    <3>2. CASE ~ active.vpn
      <4>1. svc'[instance] = svc[instance]
        BY <1>3, <2>5, <2>10, <3>2
      <4> QED
        BY <2>4, <3>2, <4>1
    <3> QED
      BY <3>1, <3>2
  <2> QED
    BY <1>1, <1>4, <2>8, <2>9, <2>10, <2>11, StopsKeepTun
<1> QED
  BY <1>5, <1>6

\* Every step keeps the order of the lives.
LEMMA TunKept == TypeInv /\ TunInv /\ [Next]_vars => TunInv'
<1> SUFFICES ASSUME TypeInv, TunInv, [Next]_vars PROVE TunInv'
  OBVIOUS
<1>1. CASE \/ UNCHANGED vars \/ Observe \/ TapDisconnect \/ ExecStep \/ PostedAnswer
           \/ EngineStarts \/ EngineFails
  <2>1. UNCHANGED tunVars
    BY <1>1 DEF vars, tunVars, appVars, hostVars, coreVars, Observe, TapDisconnect, ExecStep,
       ExecConnect, CallConnect, ExecDisconnect, PostedAnswer, EngineStarts, EngineFails
  <2> QED
    BY <2>1, QuietKeepsTun
<1> QED
  BY <1>1, TapsKeepTun, SystemKeepsTun, ThreadsKeepTun, MessagesKeepTun, CallbacksKeepTun
     DEF Next, MainStep

\* A TUN that a service holds is one that the next disconnect releases: the
\* service is the current instance, not torn down, and flagged as active, so
\* stopConnectionHosts finds it, for any number of taps and faults.  (It holds
\* at every moment, not only once the work under way is done.)
THEOREM HeldIsTracked == Spec => []HeldTunIsTracked
<1>1. TypeInv /\ TunInv => HeldTunIsTracked
  BY AndroidAssumption DEF TunInv, HeldByCurrent, CurrentIsActive, HeldTunIsTracked, Reqs
<1> QED
  BY <1>1, TypesBegin, TypesKept, TunBegins, TunKept, PTL DEF Spec

-----------------------------------------------------------------------------
(* The end of a connection.  Once it is over, whoever holds on to a TUN    *)
(* can name who is going to take it away.                                  *)

Elems(s) == {s[n] : n \in 1 .. Len(s)}

\* A task of the executor that will have the TUN of instance i released: the
\* disconnect that stops the hosts, or a connect of i that will be refused.
QueuedFor(i) ==
    \E t \in Elems(queue) : \/ t.op = "disconnect" /\ t.then = "hosts"
                            \/ t.op = "connect" /\ t.then = "vpn" /\ thr[t.req].inst = i

\* A callback that will release it.
PostedFor(i) ==
    \E p \in Elems(posts) : \/ p.op = "hosts"
                            \/ p.op = "abort" /\ p.inst = i

\* A thread that will queue such a connect.
StartingFor(i) == \E r \in Reqs : Live(r) /\ thr[r].inst = i

\* The first disjunct: the system has sent instance i its destroy.
Releasing(i) == am.inst # i \/ QueuedFor(i) \/ PostedFor(i) \/ StartingFor(i)

HeldIsReleased == \A i \in Reqs : svc[i].tun # 0 => Releasing(i)

ReleaseInv == over => intent # disconnects /\ HeldIsReleased

EngineHolds == engineFd # 0 => core.st = "on"

\* What a queue holds after a task is added or taken.
LEMMA ElemsFacts ==
  ASSUME NEW S, NEW s \in Seq(S)
  PROVE  /\ \A e : Elems(Append(s, e)) = Elems(s) \cup {e}
         /\ s # <<>> => Elems(s) = {Head(s)} \cup Elems(Tail(s))
         /\ s = <<>> => Elems(s) = {}
<1>1. ASSUME NEW e PROVE Elems(Append(s, e)) = Elems(s) \cup {e}
  <2> DEFINE t == Append(s, e)
  <2>1. /\ Len(s) \in Nat /\ Len(t) = Len(s) + 1 /\ t[Len(s) + 1] = e
        /\ \A n \in 1 .. Len(s) : t[n] = s[n]
    BY AppendFacts
  <2> HIDE DEF t
  <2>2. 1 .. Len(t) = (1 .. Len(s)) \cup {Len(s) + 1}
    BY <2>1
  <2>3. Elems(t) = Elems(s) \cup {e}
    BY <2>1, <2>2 DEF Elems
  <2> QED
    BY <2>3 DEF t
<1>2. ASSUME s # <<>> PROVE Elems(s) = {Head(s)} \cup Elems(Tail(s))
  <2> DEFINE t == Tail(s)
  <2>1. /\ Len(s) \in Nat \ {0} /\ Len(t) = Len(s) - 1 /\ Head(s) = s[1]
        /\ \A n \in 1 .. Len(s) - 1 : t[n] = s[n + 1]
    BY <1>2, TailFacts
  <2> HIDE DEF t
  <2>2. ASSUME NEW x \in Elems(s) PROVE x \in {Head(s)} \cup Elems(t)
    <3>1. PICK n \in 1 .. Len(s) : x = s[n]
      BY DEF Elems
    <3>2. CASE n = 1
      BY <2>1, <3>1, <3>2
    <3>3. CASE n # 1
      <4>1. n - 1 \in 1 .. Len(t) /\ n - 1 \in 1 .. Len(s) - 1 /\ n - 1 + 1 = n
        BY <2>1, <3>3
      <4>2. t[n - 1] = x
        BY <2>1, <3>1, <4>1
      <4> QED
        BY <4>1, <4>2 DEF Elems
    <3> QED
      BY <3>2, <3>3
  <2>3. ASSUME NEW n \in 1 .. Len(t) PROVE t[n] \in Elems(s)
    <3>1. n \in 1 .. Len(s) - 1 /\ n + 1 \in 1 .. Len(s)
      BY <2>1
    <3> QED
      BY <2>1, <3>1 DEF Elems
  <2>4. Head(s) \in Elems(s)
    BY <2>1 DEF Elems
  <2>5. Elems(s) = {Head(s)} \cup Elems(t)
    BY <2>2, <2>3, <2>4 DEF Elems
  <2> QED
    BY <2>5 DEF t
<1>3. s = <<>> => Elems(s) = {}
  BY DEF Elems
<1> QED
  BY <1>1, <1>2, <1>3

\* A step that takes nothing out of the queues, starts no service and leaves
\* every thread its instance keeps what was released so.
LEMMA ReleaseStays ==
  ASSUME NEW i \in Reqs, Releasing(i),
         am.inst # i => am'.inst # i,
         Elems(queue) \subseteq Elems(queue'), Elems(posts) \subseteq Elems(posts'),
         queue \in Seq(GoodTasks),
         \A r \in Reqs : thr'[r].inst = thr[r].inst,
         StartingFor(i) => Releasing(i)'
  PROVE  Releasing(i)'
<1>1. CASE am.inst # i
  BY <1>1 DEF Releasing
<1>2. CASE QueuedFor(i)
  <2>1. PICK t \in Elems(queue) : \/ t.op = "disconnect" /\ t.then = "hosts"
                                  \/ t.op = "connect" /\ t.then = "vpn" /\ thr[t.req].inst = i
    BY <1>2 DEF QueuedFor
  <2>2. t \in GoodTasks
    BY DEF Elems
  <2>3. t.op = "connect" => thr'[t.req].inst = thr[t.req].inst
    BY <2>2 DEF GoodTasks
  <2>4. QueuedFor(i)'
    BY <2>1, <2>3 DEF QueuedFor
  <2> QED
    BY <2>4 DEF Releasing
<1>3. CASE PostedFor(i)
  <2>1. PostedFor(i)'
    BY <1>3 DEF PostedFor
  <2> QED
    BY <2>1 DEF Releasing
<1> QED
  BY <1>1, <1>2, <1>3 DEF Releasing

\* Once the connection is over, a disconnect was counted that no intent has
\* recorded.
LEMMA OverIsCounted ==
  ASSUME Counters, over => intent # disconnects, [Next]_vars
  PROVE  over' => intent' # disconnects'
<1> USE DEF appVars, hostVars, coreVars
<1>1. CASE \E mode \in TapModes : TapConnect(mode)
  BY <1>1 DEF TapConnect
<1>2. CASE TapDisconnect \/ OnRevoke
  BY <1>2 DEF TapDisconnect, OnRevoke, SubmitDisconnect, Counters
<1>3. CASE OnDestroy
  <2>1. CASE active.vpn
    BY <1>3, <2>1 DEF OnDestroy, SubmitDisconnect, Counters
  <2>2. CASE ~ active.vpn
    <3>1. UNCHANGED <<disconnects, intent>>
      BY <1>3, <2>2 DEF OnDestroy
    <3>2. over' => over
      BY <1>3, <2>2, Zenon DEF OnDestroy
    <3> QED
      BY <3>1, <3>2
  <2> QED
    BY <2>1, <2>2
<1>4. CASE ProxyMessage
  <2>1. UNCHANGED <<over, intent>> /\ (disconnects' = disconnects \/ disconnects' = disconnects + 1)
    BY <1>4 DEF ProxyMessage, SubmitDisconnect
  <2> QED
    BY <2>1 DEF Counters
<1>5. CASE (\E ok \in BOOLEAN : ConsentResult(ok)) \/ Observe \/ InterfaceRemoved \/ KillService
  BY <1>5 DEF ConsentResult, Observe, InterfaceRemoved, KillService
<1>6. CASE \E r \in Reqs : ThreadStep(r)
  BY <1>6 DEF ThreadStep, Establish, EstablishFails, ClaimTun, SetTunFd, SubmitConnect
<1>7. CASE OnStartCommand \/ PostedAbort \/ PostedAnswer \/ PostedStopSelf \/ StopConnectionHosts
  BY <1>7 DEF OnStartCommand, PostedAbort, PostedAnswer, PostedStopSelf, StopConnectionHosts
<1>8. CASE ExecStep \/ EngineStarts \/ EngineFails \/ UNCHANGED vars
  BY <1>8 DEF ExecStep, ExecConnect, CallConnect, ExecDisconnect, EngineStarts, EngineFails, vars
<1> QED
  BY <1>1, <1>2, <1>3, <1>4, <1>5, <1>6, <1>7, <1>8 DEF Next, MainStep

\* The engine has a descriptor only while it is up.
LEMMA EngineKept ==
  ASSUME CoreTypes, EngineHolds, [Next]_vars
  PROVE  EngineHolds'
<1> USE DEF appVars, hostVars, coreVars, EngineHolds
<1>1. CASE ExecStep
  BY <1>1 DEF ExecStep, ExecConnect, CallConnect, ExecDisconnect
<1>2. CASE EngineStarts \/ EngineFails
  BY <1>2 DEF EngineStarts, EngineFails, CoreTypes
<1>3. CASE (\E r \in Reqs : ThreadStep(r)) \/ UNCHANGED vars
  BY <1>3 DEF ThreadStep, Establish, EstablishFails, ClaimTun, SetTunFd, SubmitConnect, vars
<1>4. CASE MainStep
  BY <1>4 DEF MainStep, OnStartCommand, OnDestroy, ProxyMessage, PostedAbort, PostedAnswer,
     PostedStopSelf, StopConnectionHosts
<1>5. CASE \/ Observe \/ TapDisconnect \/ (\E mode \in TapModes : TapConnect(mode))
           \/ (\E ok \in BOOLEAN : ConsentResult(ok))
           \/ InterfaceRemoved \/ KillService \/ OnRevoke
  BY <1>5 DEF Observe, TapDisconnect, TapConnect, ConsentResult, InterfaceRemoved, KillService,
     OnRevoke
<1> QED
  BY <1>1, <1>2, <1>3, <1>4, <1>5 DEF Next

\* A tap, the end of a dialog and the system's own steps leave nobody with a
\* TUN that is not being released.
LEMMA TapsRelease ==
  ASSUME TypeInv, TunInv, ReleaseInv, over',
         \/ TapDisconnect \/ (\E mode \in TapModes : TapConnect(mode))
         \/ (\E ok \in BOOLEAN : ConsentResult(ok))
         \/ InterfaceRemoved \/ KillService \/ OnRevoke
  PROVE  HeldIsReleased'
<1>0. /\ queue \in Seq(GoodTasks) /\ am \in AmRecords /\ HostTypes
      /\ svc \in [Reqs -> [destroyed : BOOLEAN, tun : 0 .. MaxTaps]]
  BY DEF TypeInv, BridgeTypes, HostTypes
<1>1. CASE TapDisconnect
  <2> DEFINE t == Task("disconnect", 0, 0, 0, "hosts")
  <2>1. queue' = Append(queue, t)
    BY <1>1 DEF TapDisconnect, SubmitDisconnect
  <2>2. t.op = "disconnect" /\ t.then = "hosts"
    BY DEF Task
  <2> HIDE DEF t
  <2>3. t \in Elems(queue')
    BY <1>0, <2>1, ElemsFacts
  <2> QED
    BY <2>2, <2>3 DEF HeldIsReleased, Releasing, QueuedFor
<1>2. CASE \E mode \in TapModes : TapConnect(mode)
  BY <1>2 DEF TapConnect
<1>3. CASE OnRevoke
  <2>1. svc' = [svc EXCEPT ![am.inst].tun = 0] /\ am' = Stopped([am EXCEPT !.iface = 0], am.inst)
    BY <1>3 DEF OnRevoke
  <2> DEFINE a == [am EXCEPT !.iface = 0]
  <2>2. a.inst = am.inst /\ a \in AmRecords
    BY <1>0, AndroidAssumption DEF AmRecords
  <2> HIDE DEF a
  <2>3. Stopped(a, am.inst).inst \in {am.inst, 0}
    BY <2>2 DEF Stopped, AmRecords
  <2>4. am'.inst \in {am.inst, 0}
    BY <2>1, <2>3 DEF a
  <2> SUFFICES ASSUME NEW i \in Reqs, svc'[i].tun # 0 PROVE am'.inst # i
    BY DEF HeldIsReleased, Releasing
  <2>5. am.inst # i
    BY <1>0, <2>1
  <2> QED
    BY <2>4, <2>5, AndroidAssumption DEF Reqs
<1>4. CASE (\E ok \in BOOLEAN : ConsentResult(ok)) \/ InterfaceRemoved \/ KillService
  <2>1. UNCHANGED <<over, svc, queue, posts, thr, instance>>
    BY <1>4 DEF ConsentResult, InterfaceRemoved, KillService, appVars
  <2>2. ASSUME NEW i \in Reqs, svc[i].tun # 0, am.inst # i PROVE am'.inst # i
    <3>1. i # 0
      BY AndroidAssumption DEF Reqs
    <3>2. CASE InterfaceRemoved
      <4> DEFINE a == [am EXCEPT !.iface = 0]
      <4>0. 0 \in 0 .. MaxTaps
        BY AndroidAssumption
      <4>1. a.inst = am.inst /\ a \in AmRecords
        BY <1>0, <4>0 DEF AmRecords
      <4>2. am' = a \/ am' = Stopped(a, am.inst)
        BY <3>2 DEF InterfaceRemoved
      <4> HIDE DEF a
      <4>3. Stopped(a, am.inst).inst \in {am.inst, 0}
        BY <4>1 DEF Stopped, AmRecords
      <4> QED
        BY <2>2, <3>1, <4>1, <4>2, <4>3
    <3>3. CASE KillService
      BY <1>0, <2>2, <3>1, <3>3 DEF KillService, AmRecords
    <3>4. CASE \E ok \in BOOLEAN : ConsentResult(ok)
      <4>1. CASE am' = am
        BY <2>2, <4>1
      <4>2. CASE StartVpnHost(dialogReq, pending) /\ dialogReq # 0
        <5>1. instance = i
          BY <2>2 DEF TunInv, HeldByCurrent
        <5>2. instance \in Issued
          BY ChainEnds DEF TunInv, OrderOfLives, TypeInv, HostTypes
        <5>3. i # dialogReq
          BY <3>1, <5>1, <5>2 DEF Issued
        <5>4. am'.inst \in {am.inst, dialogReq}
          BY <1>0, <4>2 DEF StartVpnHost, AmRecords
        <5> QED
          BY <2>2, <5>3, <5>4
      <4> QED
        BY <3>4, <4>1, <4>2 DEF ConsentResult
    <3> QED
      BY <1>4, <3>2, <3>3, <3>4
  <2>3. ASSUME NEW i \in Reqs PROVE StartingFor(i) => Releasing(i)'
    BY <2>1 DEF StartingFor, Live, Releasing
  <2> SUFFICES ASSUME NEW i \in Reqs, svc[i].tun # 0 PROVE Releasing(i)'
    BY <2>1 DEF HeldIsReleased
  <2>4. Releasing(i)
    BY <2>1 DEF ReleaseInv, HeldIsReleased
  <2>5. am.inst # i => am'.inst # i
    BY <2>2
  <2> QED
    BY <1>0, <2>1, <2>3, <2>4, <2>5, ReleaseStays
<1> QED
  BY <1>1, <1>2, <1>3, <1>4

\* A thread that claims a TUN will queue a connect that is refused.
LEMMA ThreadsRelease ==
  ASSUME TypeInv, TunInv, ReleaseInv, over', NEW r \in Reqs, ThreadStep(r)
  PROVE  HeldIsReleased'
<1>0. /\ queue \in Seq(GoodTasks) /\ am \in AmRecords /\ HostTypes /\ thr \in [Reqs -> Threads]
      /\ svc \in [Reqs -> [destroyed : BOOLEAN, tun : 0 .. MaxTaps]]
  BY DEF TypeInv, BridgeTypes, HostTypes
<1>1. over /\ posts' = posts
  BY DEF ThreadStep, Establish, EstablishFails, ClaimTun, SetTunFd, SubmitConnect, appVars
<1>2. PICK i \in Reqs : i = thr[r].inst /\ Live(r) /\ \E pc : thr' = [thr EXCEPT ![r].pc = pc]
  <2>1. Live(r) /\ \E pc : thr' = [thr EXCEPT ![r].pc = pc]
    BY DEF ThreadStep, Establish, EstablishFails, ClaimTun, SetTunFd, SubmitConnect, Live
  <2> QED
    BY <1>0, <2>1 DEF HostTypes
<1>3. \A t \in Reqs : thr'[t].inst = thr[t].inst /\ (t # r => thr'[t] = thr[t])
  BY <1>0, <1>2 DEF Threads
<1>4. \A j \in Reqs : j # i => (StartingFor(j) => Releasing(j)')
  BY <1>2, <1>3 DEF StartingFor, Live, Releasing
<1>5. Elems(queue) \subseteq Elems(queue')
  <2>1. queue' = queue \/ \E t : queue' = Append(queue, t)
    BY DEF ThreadStep, Establish, EstablishFails, ClaimTun, SetTunFd, SubmitConnect
  <2>2. ASSUME NEW t, queue' = Append(queue, t) PROVE Elems(queue') = Elems(queue) \cup {t}
    BY <1>0, <2>2, ElemsFacts
  <2> QED
    BY <2>1, <2>2
<1>6. \A j \in Reqs : am.inst # j => am'.inst # j
  <2>1. CASE EstablishFails(r)
    <3>1. am' = Stopped(am, i)
      BY <1>2, <2>1 DEF EstablishFails
    <3>2. am'.inst \in {am.inst, 0}
      BY <1>0, <3>1 DEF Stopped, AmRecords
    <3> QED
      BY <3>2, AndroidAssumption DEF Reqs
  <2>2. CASE ~ EstablishFails(r)
    <3>1. am'.inst = am.inst
      BY <1>0, <2>2 DEF ThreadStep, Establish, ClaimTun, SetTunFd, SubmitConnect, AmRecords
    <3> QED
      BY <3>1
  <2> QED
    BY <2>1, <2>2
<1>7. \A j \in Reqs : j # i => svc'[j] = svc[j]
  BY <1>0, <1>2 DEF ThreadStep, Establish, EstablishFails, ClaimTun, SetTunFd, SubmitConnect
<1>8. svc'[i].tun # 0 => Releasing(i)'
  <2>1. CASE Live(r)'
    BY <1>2, <1>3, <2>1 DEF Releasing, StartingFor
  <2>2. CASE ~ Live(r)'
    <3>1. CASE EstablishFails(r)
      <4>1. svc' = [svc EXCEPT ![i].tun = 0]
        BY <1>2, <3>1 DEF EstablishFails
      <4>2. svc'[i].tun = 0
        BY <1>0, <1>2, <4>1
      <4> QED
        BY <4>2
    <3>2. CASE ClaimTun(r) /\ svc[i].destroyed
      <4>1. svc' = svc
        BY <1>2, <3>2 DEF ClaimTun
      <4> QED
        BY <1>2, <3>2, <4>1 DEF TunInv, HeldByCurrent
    <3>3. CASE SubmitConnect(r)
      <4> DEFINE t == Task("connect", r, thr[r].result, intent, "vpn")
      <4>1. queue' = Append(queue, t)
        BY <3>3 DEF SubmitConnect
      <4>2. t.op = "connect" /\ t.then = "vpn" /\ t.req = r
        BY DEF Task
      <4> HIDE DEF t
      <4>3. t \in Elems(queue')
        BY <1>0, <4>1, ElemsFacts
      <4>4. QueuedFor(i)'
        BY <1>2, <1>3, <4>2, <4>3 DEF QueuedFor
      <4> QED
        BY <4>4 DEF Releasing
    <3>4. \/ EstablishFails(r) \/ (ClaimTun(r) /\ svc[i].destroyed) \/ SubmitConnect(r)
      BY <1>0, <1>2, <2>2 DEF ThreadStep, Establish, ClaimTun, SetTunFd, Live, Threads
    <3> QED
      BY <3>1, <3>2, <3>3, <3>4
  <2> QED
    BY <2>1, <2>2
<1> SUFFICES ASSUME NEW j \in Reqs, svc'[j].tun # 0 PROVE Releasing(j)'
  BY DEF HeldIsReleased
<1>9. CASE j = i
  BY <1>8, <1>9
<1>10. CASE j # i
  <2>1. Releasing(j)
    BY <1>1, <1>7, <1>10 DEF ReleaseInv, HeldIsReleased
  <2> QED
    BY <1>0, <1>1, <1>3, <1>4, <1>5, <1>6, <1>10, <2>1, ReleaseStays
<1> QED
  BY <1>9, <1>10

\* A message of the system starts a thread, ends an instance, or concerns the
\* proxy service.
LEMMA MessagesRelease ==
  ASSUME TypeInv, TunInv, TunInv', ReleaseInv, over', OnStartCommand \/ OnDestroy \/ ProxyMessage
  PROVE  HeldIsReleased'
<1> DEFINE m == Head(sys)
<1>0. /\ queue \in Seq(GoodTasks) /\ sys \in Seq(GoodMessages) /\ sys # <<>>
      /\ thr \in [Reqs -> Threads] /\ Chain(sys, instance, am.inst, Issued)
  BY DEF TypeInv, BridgeTypes, HostTypes, TunInv, OrderOfLives, OnStartCommand, OnDestroy, ProxyMessage
<1>1. PICK c : Moves(m, instance, c)
  BY <1>0, ChainTail
<1>2. m \in GoodMessages
  BY <1>0, SeqsFit
<1> HIDE DEF m
<1> SUFFICES ASSUME NEW i \in Reqs, svc'[i].tun # 0 PROVE Releasing(i)'
  BY DEF HeldIsReleased
<1>3. i # 0 /\ instance' = i
  BY AndroidAssumption DEF TunInv, HeldByCurrent, Reqs
<1>4. CASE OnStartCommand
  <2>1. /\ m.op = "start" /\ m.inst \in Reqs /\ m.req \in Reqs
        /\ thr' = [thr EXCEPT ![m.req] = [pc |-> "establish", inst |-> m.inst, result |-> pending]]
        /\ svc' = svc
    BY <1>2, <1>4 DEF OnStartCommand, m, GoodMessages
  <2>2. instance = i
    BY <2>1 DEF TunInv, HeldByCurrent
  <2>3. m.inst = i
    BY <1>1, <1>3, <2>1, <2>2 DEF Moves
  <2>4. PICK r \in Reqs : r = m.req
    BY <2>1
  <2>5. Live(r)' /\ thr'[r].inst = i
    BY <1>0, <2>1, <2>3, <2>4 DEF Live
  <2> QED
    BY <2>5 DEF Releasing, StartingFor
<1>5. CASE OnDestroy
  <2>1. m.op = "destroy" /\ instance' = (IF instance = m.inst THEN 0 ELSE instance)
    BY <1>5 DEF OnDestroy, m
  <2> QED
    BY <1>1, <1>3, <2>1 DEF Moves
<1>6. CASE ProxyMessage
  <2>1. UNCHANGED <<over, svc, thr, am, posts>>
        /\ (queue' = queue \/ \E t : queue' = Append(queue, t))
    BY <1>6 DEF ProxyMessage, SubmitDisconnect, appVars
  <2>2. ASSUME NEW t, queue' = Append(queue, t) PROVE Elems(queue') = Elems(queue) \cup {t}
    BY <1>0, <2>2, ElemsFacts
  <2>3. Elems(queue) \subseteq Elems(queue')
    BY <2>1, <2>2
  <2>4. Releasing(i) /\ (StartingFor(i) => Releasing(i)')
    BY <2>1 DEF ReleaseInv, HeldIsReleased, Releasing, StartingFor, Live
  <2> QED
    BY <1>0, <2>1, <2>3, <2>4, ReleaseStays
<1> QED
  BY <1>4, <1>5, <1>6

\* The executor refuses a connect once the connection is over, and posts the
\* callback of the disconnect.
LEMMA ExecutorReleases ==
  ASSUME TypeInv, HostInv, ReleaseInv, over', ExecStep
  PROVE  HeldIsReleased'
<1>0. queue \in Seq(GoodTasks) /\ posts \in Seq(Posts)
  BY DEF TypeInv, BridgeTypes
<1>1. UNCHANGED <<over, svc, thr, am>>
  BY DEF ExecStep, ExecConnect, CallConnect, ExecDisconnect, appVars, hostVars
<1>2. intent # disconnects /\ HeldIsReleased
  BY <1>1 DEF ReleaseInv
<1>3. posts' = posts \/ \E p : posts' = Append(posts, p)
  BY DEF ExecStep, ExecConnect, CallConnect, ExecDisconnect
<1>4. ASSUME NEW p, posts' = Append(posts, p) PROVE Elems(posts') = Elems(posts) \cup {p}
  BY <1>0, <1>4, ElemsFacts
<1>5. Elems(posts) \subseteq Elems(posts')
  BY <1>3, <1>4
<1> SUFFICES ASSUME NEW i \in Reqs, svc[i].tun # 0 PROVE Releasing(i)'
  BY <1>1 DEF HeldIsReleased
<1>6. Releasing(i)
  BY <1>2 DEF HeldIsReleased
<1>7. CASE am.inst # i \/ PostedFor(i) \/ StartingFor(i)
  <2>1. am.inst # i => am'.inst # i
    BY <1>1
  <2>2. PostedFor(i) => PostedFor(i)'
    BY <1>5 DEF PostedFor
  <2>3. StartingFor(i) => StartingFor(i)'
    BY <1>1 DEF StartingFor, Live
  <2> QED
    BY <1>7, <2>1, <2>2, <2>3 DEF Releasing
<1>8. CASE QueuedFor(i)
  <2>1. PICK t \in Elems(queue) : \/ t.op = "disconnect" /\ t.then = "hosts"
                                  \/ t.op = "connect" /\ t.then = "vpn" /\ thr[t.req].inst = i
    BY <1>8 DEF QueuedFor
  <2>2. CASE t \in Elems(queue')
    <3>1. QueuedFor(i)'
      BY <1>1, <2>1, <2>2 DEF QueuedFor
    <3> QED
      BY <3>1 DEF Releasing
  <2>3. CASE t \notin Elems(queue')
    <3>1. queue # <<>> /\ queue' = Tail(queue)
      BY <2>3 DEF ExecStep, ExecConnect, CallConnect, ExecDisconnect
    <3>2. t = Head(queue)
      BY <1>0, <2>3, <3>1, ElemsFacts
    <3>3. CASE ExecConnect
      <4>1. t.op = "connect" /\ t.then = "vpn" /\ thr[t.req].inst = i
        BY <2>1, <3>2, <3>3 DEF ExecConnect
      <4>2. t.gen # disconnects
        <5>1. 1 \in 1 .. Len(queue) /\ queue[1] = t
          BY <1>0, <3>1, <3>2, TailFacts
        <5>2. t.gen \in Nat /\ t.gen <= intent
          BY <4>1, <5>1 DEF HostInv, ConnectsFollowIntent
        <5> QED
          BY <1>2, <5>2 DEF HostInv, Counters
      <4> DEFINE p == Post("abort", i, t.result)
      <4>3. posts' = Append(posts, p)
        BY <3>2, <3>3, <4>1, <4>2 DEF ExecConnect
      <4>4. p.op = "abort" /\ p.inst = i
        BY DEF Post
      <4> HIDE DEF p
      <4>5. PostedFor(i)'
        BY <1>4, <4>3, <4>4 DEF PostedFor
      <4> QED
        BY <4>5 DEF Releasing
    <3>4. CASE ExecDisconnect
      <4>1. t.op = "disconnect" /\ t.then = "hosts"
        BY <2>1, <3>2, <3>4 DEF ExecDisconnect
      <4> DEFINE p == Post("hosts", t.req, 0)
      <4>2. posts' = Append(posts, p)
        BY <3>2, <3>4, <4>1 DEF ExecDisconnect
      <4>3. p.op = "hosts"
        BY DEF Post
      <4> HIDE DEF p
      <4>4. PostedFor(i)'
        BY <1>4, <4>2, <4>3 DEF PostedFor
      <4> QED
        BY <4>4 DEF Releasing
    <3>5. CASE CallConnect
      BY <2>3, <3>5 DEF CallConnect
    <3> QED
      BY <3>3, <3>4, <3>5 DEF ExecStep
  <2> QED
    BY <2>2, <2>3
<1> QED
  BY <1>6, <1>7, <1>8 DEF Releasing

\* A callback releases the TUN it was posted for.
LEMMA CallbacksRelease ==
  ASSUME TypeInv, TunInv, TunInv', ReleaseInv, over',
         PostedAbort \/ PostedAnswer \/ PostedStopSelf \/ StopConnectionHosts
  PROVE  HeldIsReleased'
<1>0. /\ queue \in Seq(GoodTasks) /\ posts \in Seq(Posts) /\ am \in AmRecords
      /\ svc \in [Reqs -> [destroyed : BOOLEAN, tun : 0 .. MaxTaps]]
  BY DEF TypeInv, BridgeTypes, HostTypes
<1>1. over /\ UNCHANGED <<queue, thr>> /\ posts # <<>> /\ posts' = Tail(posts)
  BY DEF PostedAbort, PostedAnswer, PostedStopSelf, StopConnectionHosts, appVars, hostVars
<1>2. HeldIsReleased
  BY <1>1 DEF ReleaseInv
<1> DEFINE p == Head(posts)
<1>3. Elems(posts) = {p} \cup Elems(posts')
  BY <1>0, <1>1, ElemsFacts
<1> HIDE DEF p
<1> SUFFICES ASSUME NEW i \in Reqs, svc'[i].tun # 0 PROVE Releasing(i)'
  BY DEF HeldIsReleased
<1>4. i # 0 /\ instance' = i /\ ~ svc'[instance'].destroyed
  BY AndroidAssumption DEF TunInv, HeldByCurrent, Reqs
<1>5. CASE StopConnectionHosts
  <2>1. ~ active'.vpn
    BY <1>5 DEF StopConnectionHosts
  <2> QED
    BY <1>4, <2>1 DEF TunInv, CurrentIsActive
<1>6. CASE PostedAbort \/ PostedAnswer \/ PostedStopSelf
  <2>1. /\ p.op # "hosts"
        /\ svc' = svc \/ (svc' = [svc EXCEPT ![p.inst].tun = 0] /\ p.op = "abort")
        /\ p.op = "abort" => svc' = [svc EXCEPT ![p.inst].tun = 0]
        /\ am' = am \/ am' = Stopped(am, p.inst)
    BY <1>6 DEF PostedAbort, PostedAnswer, PostedStopSelf, hostVars, p
  <2>2. svc[i].tun # 0 /\ ~ (p.op = "abort" /\ p.inst = i)
    BY <1>0, <2>1
  <2>3. Releasing(i)
    BY <1>2, <2>2 DEF HeldIsReleased
  <2>4. am'.inst \in {am.inst, 0}
    BY <1>0, <2>1 DEF Stopped, AmRecords
  <2>5. am.inst # i => am'.inst # i
    BY <1>4, <2>4
  <2>6. PostedFor(i) => PostedFor(i)'
    BY <1>3, <2>1, <2>2 DEF PostedFor
  <2>7. (QueuedFor(i) => QueuedFor(i)') /\ (StartingFor(i) => StartingFor(i)')
    BY <1>1 DEF QueuedFor, StartingFor, Live
  <2> QED
    BY <2>3, <2>5, <2>6, <2>7 DEF Releasing
<1> QED
  BY <1>5, <1>6

\* Every step keeps what is held on its way to be released.
LEMMA ReleaseKept ==
  ASSUME TypeInv, HostInv, TunInv, TunInv', ReleaseInv, [Next]_vars
  PROVE  ReleaseInv'
<1>1. over' => intent' # disconnects'
  BY OverIsCounted DEF HostInv, ReleaseInv
<1>2. ASSUME over' PROVE HeldIsReleased'
  <2>1. CASE UNCHANGED vars \/ Observe \/ EngineStarts \/ EngineFails
    <3>1. UNCHANGED <<over, svc, thr, am, queue, posts>>
      BY <2>1 DEF vars, appVars, hostVars, coreVars, Observe, EngineStarts, EngineFails
    <3> QED
      BY <1>2, <3>1 DEF ReleaseInv, HeldIsReleased, Releasing, QueuedFor, PostedFor, StartingFor, Live,
         Elems
  <2> QED
    BY <1>2, <2>1, TapsRelease, ThreadsRelease, MessagesRelease, ExecutorReleases, CallbacksRelease
       DEF Next, MainStep
<1> QED
  BY <1>1, <1>2 DEF ReleaseInv

\* A connection that is over leaves nothing behind: after a disconnect by the
\* user, a revoke or the end of the VpnService, and once the work under way is
\* done, the engine has no TUN and no service holds one, for any number of
\* taps, faults and threads (stopConnectionHosts, onAbort, onDestroy, claimTun).
THEOREM TunIsReleased == Spec => []DisconnectReleasesTun
<1>1. Init => ReleaseInv /\ EngineHolds
  BY DEF Init, ReleaseInv, EngineHolds
<1>2. /\ TypeInv /\ TunInv /\ ReleaseInv /\ EngineHolds /\ Promise!LastWordWins
      => DisconnectReleasesTun
  <2> SUFFICES ASSUME TypeInv, TunInv, ReleaseInv, EngineHolds, Promise!LastWordWins, Settled, over
               PROVE  engineFd = 0 /\ \A i \in Reqs : svc[i].tun = 0
    BY DEF DisconnectReleasesTun
  <2>1. queue = <<>> /\ posts = <<>> /\ sys = <<>>
    BY DEF Settled
  <2>2. ~ Owed
    BY <2>1 DEF Owed
  <2>3. engineFd = 0
    BY <2>2 DEF Promise!LastWordWins, ReleaseInv, EngineHolds
  <2>4. instance = am.inst
    BY <2>1, ChainEmpty DEF TunInv, OrderOfLives
  <2>5. Elems(queue) = {} /\ Elems(posts) = {}
    BY <2>1, ElemsFacts DEF TypeInv, BridgeTypes
  <2>6. \A i \in Reqs : ~ QueuedFor(i) /\ ~ PostedFor(i) /\ ~ StartingFor(i)
    BY <2>5 DEF QueuedFor, PostedFor, StartingFor, Settled, Live
  <2>7. \A i \in Reqs : svc[i].tun = 0
    BY <2>4, <2>6 DEF TunInv, HeldByCurrent, ReleaseInv, HeldIsReleased, Releasing
  <2> QED
    BY <2>3, <2>7
<1>3. /\ TypeInv /\ HostInv /\ TunInv /\ TunInv' /\ ReleaseInv /\ EngineHolds /\ [Next]_vars
      => ReleaseInv' /\ EngineHolds'
  BY ReleaseKept, EngineKept DEF TypeInv
<1> QED
  BY <1>1, <1>2, <1>3, TypesBegin, TypesKept, TunBegins, TunKept, Invariance, TheLastWordWins, PTL
     DEF Spec

-----------------------------------------------------------------------------
(* The channel results.  A result wanders from Bridge.pendingConnect or    *)
(* the executor's queue to the answer, and is in one place at a time.      *)

HeldByThread(r) == \E t \in Reqs : Live(t) /\ thr[t].result = r

HeldIn(s, r) == \E n \in 1 .. Len(s) : s[n].result = r

Places == {"pending", "thread", "queue", "calling", "posts", "answered"}

Held(x, r) ==
    \/ x = "pending" /\ pending = r
    \/ x = "thread" /\ HeldByThread(r)
    \/ x = "queue" /\ HeldIn(queue, r)
    \/ x = "calling" /\ calling.result = r
    \/ x = "posts" /\ HeldIn(posts, r)
    \/ x = "answered" /\ answers[r] # 0

OneHolder == \A r \in Reqs : \A x, y \in Places : Held(x, r) /\ Held(y, r) => x = y

\* Nobody has the result of a tap that has not happened.
NoneAhead == \A r \in Reqs : r > taps => \A x \in Places : ~ Held(x, r)

\* No place has a result twice.
Distinct(s) ==
    \A n, k \in 1 .. Len(s) : s[n].result # 0 /\ s[n].result = s[k].result => n = k

DistinctThreads ==
    \A t, u \in Reqs :
        Live(t) /\ Live(u) /\ thr[t].result # 0 /\ thr[t].result = thr[u].result => t = u

ResultInv ==
    /\ OneHolder /\ NoneAhead
    /\ Distinct(queue) /\ Distinct(posts) /\ DistinctThreads
    /\ AnsweredOnce

\* A task behind the others, or the first one taken.
LEMMA HeldFacts ==
  ASSUME NEW S, NEW s \in Seq(S), Distinct(s)
  PROVE  /\ \A e, r : HeldIn(Append(s, e), r) <=> HeldIn(s, r) \/ e.result = r
         /\ \A e : (e.result # 0 => ~ HeldIn(s, e.result)) => Distinct(Append(s, e))
         /\ s # <<>> => /\ Distinct(Tail(s))
                        /\ HeldIn(s, Head(s).result)
                        /\ \A r : HeldIn(Tail(s), r) => HeldIn(s, r)
                        /\ Head(s).result # 0 => ~ HeldIn(Tail(s), Head(s).result)
<1>1. ASSUME NEW e
      PROVE  /\ \A r : HeldIn(Append(s, e), r) <=> HeldIn(s, r) \/ e.result = r
             /\ (e.result # 0 => ~ HeldIn(s, e.result)) => Distinct(Append(s, e))
  <2> DEFINE t == Append(s, e)
  <2>1. /\ Len(s) \in Nat /\ Len(t) = Len(s) + 1 /\ t[Len(s) + 1] = e
        /\ \A n \in 1 .. Len(s) : t[n] = s[n]
    BY AppendFacts
  <2> HIDE DEF t
  <2>2. 1 .. Len(t) = (1 .. Len(s)) \cup {Len(s) + 1} /\ Len(s) + 1 \notin 1 .. Len(s)
    BY <2>1
  <2>3. \A r : HeldIn(t, r) <=> HeldIn(s, r) \/ e.result = r
    BY <2>1, <2>2 DEF HeldIn
  <2>4. ASSUME e.result # 0 => ~ HeldIn(s, e.result) PROVE Distinct(t)
    <3> SUFFICES ASSUME NEW n \in 1 .. Len(t), NEW k \in 1 .. Len(t),
                        t[n].result # 0, t[n].result = t[k].result
                 PROVE  n = k
      BY DEF Distinct
    <3>1. CASE n \in 1 .. Len(s) /\ k \in 1 .. Len(s)
      BY <2>1, <3>1 DEF Distinct
    <3>2. CASE n = Len(s) + 1 /\ k \in 1 .. Len(s)
      BY <2>1, <2>4, <3>2 DEF HeldIn
    <3>3. CASE k = Len(s) + 1 /\ n \in 1 .. Len(s)
      BY <2>1, <2>4, <3>3 DEF HeldIn
    <3> QED
      BY <2>2, <3>1, <3>2, <3>3
  <2> QED
    BY <2>3, <2>4 DEF t
<1>2. ASSUME s # <<>>
      PROVE  /\ Distinct(Tail(s)) /\ HeldIn(s, Head(s).result)
             /\ \A r : HeldIn(Tail(s), r) => HeldIn(s, r)
             /\ Head(s).result # 0 => ~ HeldIn(Tail(s), Head(s).result)
  <2> DEFINE t == Tail(s)
             h == Head(s)
  <2>1. /\ Len(s) \in Nat \ {0} /\ Len(t) = Len(s) - 1 /\ h = s[1]
        /\ \A n \in 1 .. Len(s) - 1 : t[n] = s[n + 1]
    BY <1>2, TailFacts
  <2> HIDE DEF t, h
  <2>2. \A n \in 1 .. Len(t) : t[n] = s[n + 1] /\ n + 1 \in 1 .. Len(s) /\ n + 1 # 1
    BY <2>1
  <2>3. Distinct(t)
    <3> SUFFICES ASSUME NEW n \in 1 .. Len(t), NEW k \in 1 .. Len(t),
                        t[n].result # 0, t[n].result = t[k].result
                 PROVE  n = k
      BY DEF Distinct
    <3>1. /\ n + 1 \in 1 .. Len(s) /\ k + 1 \in 1 .. Len(s)
          /\ s[n + 1].result # 0 /\ s[n + 1].result = s[k + 1].result
      BY <2>2
    <3>2. n + 1 = k + 1
      BY <3>1 DEF Distinct
    <3> QED
      BY <2>1, <3>2
  <2>4. 1 \in 1 .. Len(s)
    BY <2>1
  <2>5. HeldIn(s, h.result)
    BY <2>1, <2>4 DEF HeldIn
  <2>6. \A r : HeldIn(t, r) => HeldIn(s, r)
    BY <2>2 DEF HeldIn
  <2>7. ASSUME h.result # 0, HeldIn(t, h.result) PROVE FALSE
    <3>1. PICK n \in 1 .. Len(t) : t[n].result = h.result
      BY <2>7 DEF HeldIn
    <3>2. s[n + 1].result = s[1].result /\ n + 1 \in 1 .. Len(s) /\ n + 1 # 1 /\ s[1].result # 0
      BY <2>1, <2>2, <2>7, <3>1
    <3> QED
      BY <2>4, <3>2 DEF Distinct
  <2> QED
    BY <2>3, <2>5, <2>6, <2>7 DEF t, h
<1> QED
  BY <1>1, <1>2

\* A step that hands result c from place x to place y, if c is one.
LEMMA OneMove ==
  ASSUME ResultInv, NEW c, NEW x \in Places, NEW y \in Places, UNCHANGED taps,
         c \in Reqs => Held(x, c) /\ ~ Held(x, c)',
         \A r \in Reqs, z \in Places : Held(z, r)' => Held(z, r) \/ (z = y /\ r = c)
  PROVE  OneHolder' /\ NoneAhead'
<1>1. OneHolder'
  BY DEF ResultInv, OneHolder
<1>2. NoneAhead'
  BY DEF ResultInv, NoneAhead
<1> QED
  BY <1>1, <1>2

\* A step that may lose a result, and hands none on.
LEMMA NoMove ==
  ASSUME ResultInv, UNCHANGED taps,
         \A r \in Reqs, z \in Places : Held(z, r)' => Held(z, r)
  PROVE  OneHolder' /\ NoneAhead'
BY DEF ResultInv, OneHolder, NoneAhead

\* The first answer of a result is the only one.
LEMMA FirstAnswer ==
  ASSUME TypeInv, ResultInv, NEW c \in 0 .. MaxTaps, c # 0 => answers[c] = 0, answers' = Answered(c)
  PROVE  /\ AnsweredOnce'
         /\ \A r \in Reqs : answers'[r] # 0 => answers[r] # 0 \/ r = c
<1>1. answers \in [Reqs -> Nat] /\ (c # 0 => c \in Reqs)
  BY AndroidAssumption DEF TypeInv, BridgeTypes, Reqs
<1>2. CASE c = 0
  BY <1>2 DEF Answered, ResultInv, AnsweredOnce
<1>3. CASE c # 0
  <2>1. answers' = [answers EXCEPT ![c] = @ + 1] /\ answers[c] = 0
    BY <1>3 DEF Answered
  <2>2. \A r \in Reqs : answers'[r] = IF r = c THEN 1 ELSE answers[r]
    BY <1>1, <2>1
  <2> QED
    BY <2>2 DEF AnsweredOnce, ResultInv
<1> QED
  BY <1>2, <1>3

\* What a step leaves alone holds what it held.
LEMMA HeldStays ==
  ASSUME NEW r \in Reqs
  PROVE  /\ UNCHANGED pending => (Held("pending", r)' <=> Held("pending", r))
         /\ UNCHANGED thr => (Held("thread", r)' <=> Held("thread", r))
         /\ UNCHANGED queue => (Held("queue", r)' <=> Held("queue", r))
         /\ UNCHANGED calling => (Held("calling", r)' <=> Held("calling", r))
         /\ UNCHANGED posts => (Held("posts", r)' <=> Held("posts", r))
         /\ UNCHANGED answers => (Held("answered", r)' <=> Held("answered", r))
<1>1. UNCHANGED thr => (HeldByThread(r)' <=> HeldByThread(r))
  BY DEF HeldByThread, Live
<1>2. UNCHANGED queue => (HeldIn(queue, r)' <=> HeldIn(queue, r))
  BY DEF HeldIn
<1>3. UNCHANGED posts => (HeldIn(posts, r)' <=> HeldIn(posts, r))
  BY DEF HeldIn
<1> QED
  BY <1>1, <1>2, <1>3 DEF Held

\* What a step leaves alone holds nothing twice.
LEMMA DistinctStays ==
  ASSUME ResultInv
  PROVE  /\ UNCHANGED queue => Distinct(queue)'
         /\ UNCHANGED posts => Distinct(posts)'
         /\ UNCHANGED thr => DistinctThreads'
         /\ UNCHANGED answers => AnsweredOnce'
BY DEF ResultInv, Distinct, DistinctThreads, Live, AnsweredOnce

\* A result put at the end of the executor's queue.
LEMMA QueueGrows ==
  ASSUME TypeInv, ResultInv, NEW e, queue' = Append(queue, e), e.result \in 0 .. MaxTaps,
         e.result # 0 => ~ Held("queue", e.result)
  PROVE  /\ Distinct(queue)'
         /\ \A r \in Reqs : Held("queue", r)' => Held("queue", r) \/ r = e.result
<1>1. queue \in Seq(GoodTasks) /\ Distinct(queue)
  BY DEF TypeInv, BridgeTypes, ResultInv
<1>2. e.result # 0 => ~ HeldIn(queue, e.result)
  BY DEF Held
<1>3. Distinct(Append(queue, e)) /\ \A r : HeldIn(Append(queue, e), r) <=> HeldIn(queue, r) \/ e.result = r
  BY <1>1, <1>2, HeldFacts
<1> QED
  BY <1>3 DEF Held

\* The same for the posted callbacks.
LEMMA PostsGrow ==
  ASSUME TypeInv, ResultInv, NEW e, posts' = Append(posts, e), e.result \in 0 .. MaxTaps,
         e.result # 0 => ~ Held("posts", e.result)
  PROVE  /\ Distinct(posts)'
         /\ \A r \in Reqs : Held("posts", r)' => Held("posts", r) \/ r = e.result
<1>1. posts \in Seq(Posts) /\ Distinct(posts)
  BY DEF TypeInv, BridgeTypes, ResultInv
<1>2. e.result # 0 => ~ HeldIn(posts, e.result)
  BY DEF Held
<1>3. Distinct(Append(posts, e)) /\ \A r : HeldIn(Append(posts, e), r) <=> HeldIn(posts, r) \/ e.result = r
  BY <1>1, <1>2, HeldFacts
<1> QED
  BY <1>3 DEF Held

\* A result taken from the head of the queue.
LEMMA QueueShrinks ==
  ASSUME TypeInv, ResultInv, queue # <<>>, queue' = Tail(queue)
  PROVE  /\ Distinct(queue)' /\ Head(queue) \in GoodTasks
         /\ \A r \in Reqs : /\ Held("queue", r)' => Held("queue", r)
                            /\ r = Head(queue).result => Held("queue", r) /\ ~ Held("queue", r)'
<1>1. queue \in Seq(GoodTasks) /\ Distinct(queue)
  BY DEF TypeInv, BridgeTypes, ResultInv
<1>2. Head(queue) \in GoodTasks
  BY <1>1, SeqsFit
<1>3. \A r \in Reqs : r # 0
  BY AndroidAssumption DEF Reqs
<1>4. /\ Distinct(Tail(queue)) /\ HeldIn(queue, Head(queue).result)
      /\ \A r : HeldIn(Tail(queue), r) => HeldIn(queue, r)
      /\ Head(queue).result # 0 => ~ HeldIn(Tail(queue), Head(queue).result)
  BY <1>1, HeldFacts
<1> QED
  BY <1>2, <1>3, <1>4 DEF Held

\* The same for the posted callbacks.
LEMMA PostsShrink ==
  ASSUME TypeInv, ResultInv, posts # <<>>, posts' = Tail(posts)
  PROVE  /\ Distinct(posts)' /\ Head(posts) \in Posts
         /\ \A r \in Reqs : /\ Held("posts", r)' => Held("posts", r)
                            /\ r = Head(posts).result => Held("posts", r) /\ ~ Held("posts", r)'
<1>1. posts \in Seq(Posts) /\ Distinct(posts)
  BY DEF TypeInv, BridgeTypes, ResultInv
<1>2. Head(posts) \in Posts
  BY <1>1, SeqsFit
<1>3. \A r \in Reqs : r # 0
  BY AndroidAssumption DEF Reqs
<1>4. /\ Distinct(Tail(posts)) /\ HeldIn(posts, Head(posts).result)
      /\ \A r : HeldIn(Tail(posts), r) => HeldIn(posts, r)
      /\ Head(posts).result # 0 => ~ HeldIn(Tail(posts), Head(posts).result)
  BY <1>1, HeldFacts
<1> QED
  BY <1>2, <1>3, <1>4 DEF Held

\* A result that is somewhere else was not answered yet.
LEMMA HeldIsOpen ==
  ASSUME TypeInv, ResultInv, NEW c \in Reqs, NEW x \in Places, Held(x, c)
  PROVE  \A y \in Places : y # x => ~ Held(y, c)
BY DEF ResultInv, OneHolder

\* A result that is answered from the place that had it is answered first.
LEMMA AnswerMoves ==
  ASSUME TypeInv, ResultInv, NEW c \in 0 .. MaxTaps, NEW x \in Places, x # "answered",
         answers' = Answered(c), c \in Reqs => Held(x, c)
  PROVE  /\ AnsweredOnce'
         /\ \A r \in Reqs : Held("answered", r)' => Held("answered", r) \/ r = c
<1>1. c # 0 => c \in Reqs
  BY AndroidAssumption DEF Reqs
<1>2. c \in Reqs => ~ Held("answered", c)
  BY HeldIsOpen DEF Places
<1>3. c # 0 => answers[c] = 0
  BY <1>1, <1>2 DEF Held
<1>4. AnsweredOnce' /\ \A r \in Reqs : answers'[r] # 0 => answers[r] # 0 \/ r = c
  BY <1>3, FirstAnswer
<1> QED
  BY <1>4 DEF Held

\* A tap brings a result that nobody has.
LEMMA NewResult ==
  ASSUME TypeInv, ResultInv, taps' = taps + 1, NEW y \in Places,
         \A r \in Reqs, z \in Places : Held(z, r)' => Held(z, r) \/ (z = y /\ r = taps + 1)
  PROVE  OneHolder' /\ NoneAhead'
<1>1. taps \in Nat /\ \A r \in Reqs : r \in Nat
  BY AndroidAssumption DEF TypeInv, AppTypes, Reqs
<1>2. \A z \in Places : \A r \in Reqs : r > taps => ~ Held(z, r)
  BY DEF ResultInv, NoneAhead
<1>3. OneHolder'
  <2> SUFFICES ASSUME NEW r \in Reqs, NEW x \in Places, NEW z \in Places, Held(x, r)', Held(z, r)'
               PROVE  x = z
    BY DEF OneHolder
  <2>1. CASE r = taps + 1
    BY <1>1, <1>2, <2>1
  <2>2. CASE r # taps + 1
    BY <2>2 DEF ResultInv, OneHolder
  <2> QED
    BY <2>1, <2>2
<1>4. NoneAhead'
  <2> SUFFICES ASSUME NEW r \in Reqs, r > taps', NEW z \in Places, Held(z, r)' PROVE FALSE
    BY DEF NoneAhead
  <2>1. r # taps + 1 /\ r > taps
    BY <1>1
  <2> QED
    BY <1>2, <2>1
<1> QED
  BY <1>3, <1>4

\* Taps on Connect and the ends of dialogs.
LEMMA TapsKeepResults ==
  ASSUME TypeInv, ResultInv,
         (\E mode \in TapModes : TapConnect(mode)) \/ (\E ok \in BOOLEAN : ConsentResult(ok))
  PROVE  ResultInv'
<1>1. UNCHANGED <<posts, thr, calling>>
  BY DEF TapConnect, ConsentResult, coreVars
<1>2. Distinct(posts)' /\ DistinctThreads'
  BY <1>1, DistinctStays
<1>3. \A r \in Reqs : r # 0
  BY AndroidAssumption DEF Reqs
<1>4. ASSUME NEW mode \in TapModes, TapConnect(mode) PROVE ResultInv'
  <2>1. taps' = taps + 1 /\ taps + 1 \in Reqs /\ UNCHANGED answers
    BY <1>4, AndroidAssumption DEF TapConnect, TypeInv, AppTypes, Reqs
  <2>2. CASE \E t : /\ t.result = taps + 1 /\ queue' = Append(queue, t)
                    /\ UNCHANGED pending
    <3>1. PICK t : /\ t.result = taps + 1 /\ queue' = Append(queue, t)
      BY <2>2
    <3>2. ~ Held("queue", taps + 1)
      BY <2>1 DEF ResultInv, NoneAhead, Places, TypeInv, AppTypes
    <3>3. t.result \in 0 .. MaxTaps
      BY <2>1, <3>1, AndroidAssumption DEF Reqs
    <3>4. /\ Distinct(queue)'
          /\ \A r \in Reqs : Held("queue", r)' => Held("queue", r) \/ r = taps + 1
      BY <3>1, <3>2, <3>3, QueueGrows
    <3>5. \A r \in Reqs, z \in Places : Held(z, r)' => Held(z, r) \/ (z = "queue" /\ r = taps + 1)
      BY <1>1, <2>1, <2>2, <3>4, HeldStays DEF Places
    <3>6. OneHolder' /\ NoneAhead'
      BY <2>1, <3>5, NewResult DEF Places
    <3> QED
      BY <1>2, <2>1, <3>4, <3>6, DistinctStays DEF ResultInv
  <2>3. CASE pending' = taps + 1 /\ UNCHANGED queue
    <3>1. \A r \in Reqs : Held("pending", r)' => r = taps + 1
      BY <2>3 DEF Held
    <3>2. \A r \in Reqs, z \in Places : Held(z, r)' => Held(z, r) \/ (z = "pending" /\ r = taps + 1)
      BY <1>1, <2>1, <2>3, <3>1, HeldStays DEF Places
    <3>3. OneHolder' /\ NoneAhead'
      BY <2>1, <3>2, NewResult DEF Places
    <3> QED
      BY <1>2, <2>1, <2>3, <3>3, DistinctStays DEF ResultInv
  <2>4. \/ (pending' = taps + 1 /\ UNCHANGED queue)
        \/ /\ queue' = Append(queue, Task("connect", taps + 1, taps + 1, disconnects, "proxy"))
           /\ UNCHANGED pending
    BY <1>4 DEF TapConnect, StartVpnHost
  <2>5. Task("connect", taps + 1, taps + 1, disconnects, "proxy").result = taps + 1
    BY DEF Task
  <2> QED
    BY <2>2, <2>3, <2>4, <2>5
<1>5. ASSUME NEW ok \in BOOLEAN, ConsentResult(ok) PROVE ResultInv'
  <2>1. UNCHANGED <<taps, queue>>
    BY <1>5 DEF ConsentResult
  <2>2. CASE UNCHANGED <<pending, answers>>
    <3>1. \A r \in Reqs, z \in Places : Held(z, r)' => Held(z, r)
      BY <1>1, <2>1, <2>2, HeldStays DEF Places
    <3> QED
      BY <1>2, <2>1, <2>2, <3>1, NoMove, DistinctStays DEF ResultInv
  <2>3. CASE pending' = 0 /\ answers' = Answered(pending)
    <3>1. PICK c \in 0 .. MaxTaps : c = pending
      BY DEF TypeInv, AppTypes
    <3>2. c \in Reqs => Held("pending", c) /\ ~ Held("pending", c)'
      BY <1>3, <2>3, <3>1 DEF Held
    <3>4. AnsweredOnce' /\ \A r \in Reqs : Held("answered", r)' => Held("answered", r) \/ r = c
      BY <2>3, <3>1, <3>2, AnswerMoves DEF Places
    <3>5. \A r \in Reqs : ~ Held("pending", r)'
      BY <1>3, <2>3 DEF Held
    <3>6. \A r \in Reqs, z \in Places : Held(z, r)' => Held(z, r) \/ (z = "answered" /\ r = c)
      BY <1>1, <2>1, <3>4, <3>5, HeldStays DEF Places
    <3>7. OneHolder' /\ NoneAhead'
      BY <2>1, <3>2, <3>6, OneMove DEF Places
    <3> QED
      BY <1>2, <2>1, <3>4, <3>7, DistinctStays DEF ResultInv
  <2> QED
    BY <1>5, <2>2, <2>3 DEF ConsentResult, StartVpnHost
<1> QED
  BY <1>4, <1>5

\* A thread that moves on keeps its result until it is done.
LEMMA ThreadMoves ==
  ASSUME TypeInv, ResultInv, NEW t \in Reqs, NEW pc, thr' = [thr EXCEPT ![t].pc = pc], Live(t)
  PROVE  /\ DistinctThreads'
         /\ \A r \in Reqs : Held("thread", r)' => Held("thread", r)
         /\ \A r \in Reqs : pc = "done" /\ r = thr[t].result
                            => Held("thread", r) /\ ~ Held("thread", r)'
<1>1. thr \in [Reqs -> Threads]
  BY DEF TypeInv, HostTypes
<1>2. /\ \A u \in Reqs : thr'[u].result = thr[u].result /\ (u # t => thr'[u] = thr[u])
      /\ thr'[t].pc = pc
  BY <1>1 DEF Threads
<1>3. \A u \in Reqs : Live(u)' => Live(u) /\ (pc = "done" => u # t)
  BY <1>2 DEF Live
<1>4. DistinctThreads'
  BY <1>2, <1>3 DEF ResultInv, DistinctThreads
<1>5. \A r \in Reqs : HeldByThread(r)' => HeldByThread(r)
  BY <1>2, <1>3 DEF HeldByThread
<1>6. ASSUME NEW r \in Reqs, pc = "done", r = thr[t].result
      PROVE  HeldByThread(r) /\ ~ HeldByThread(r)'
  <2>1. HeldByThread(r)
    BY <1>6 DEF HeldByThread
  <2>2. ASSUME HeldByThread(r)' PROVE FALSE
    <3>1. PICK u \in Reqs : Live(u)' /\ thr'[u].result = r
      BY <2>2 DEF HeldByThread
    <3>2. Live(u) /\ u # t /\ thr[u].result = r
      BY <1>2, <1>3, <1>6, <3>1
    <3>3. r # 0
      BY AndroidAssumption DEF Reqs
    <3> QED
      BY <1>6, <3>2, <3>3 DEF ResultInv, DistinctThreads
  <2> QED
    BY <2>1, <2>2
<1> QED
  BY <1>4, <1>5, <1>6 DEF Held

\* The threads.
LEMMA ThreadsKeepResults ==
  ASSUME TypeInv, ResultInv, NEW t \in Reqs, ThreadStep(t)
  PROVE  ResultInv'
<1>1. UNCHANGED <<taps, pending, posts, calling>>
  BY DEF ThreadStep, Establish, EstablishFails, ClaimTun, SetTunFd, SubmitConnect, appVars, coreVars
<1>2. PICK pc : thr' = [thr EXCEPT ![t].pc = pc] /\ Live(t)
             /\ (EstablishFails(t) \/ SubmitConnect(t) => pc = "done")
  <2>1. CASE Establish(t) \/ ClaimTun(t) \/ SetTunFd(t)
    BY <2>1 DEF Establish, EstablishFails, ClaimTun, SetTunFd, SubmitConnect, Live
  <2>2. CASE EstablishFails(t) \/ SubmitConnect(t)
    BY <2>2 DEF EstablishFails, SubmitConnect, Live
  <2> QED
    BY <2>1, <2>2 DEF ThreadStep
<1>3. PICK c \in 0 .. MaxTaps : c = thr[t].result
  BY DEF TypeInv, HostTypes, Threads
<1>4. /\ DistinctThreads' /\ \A r \in Reqs : Held("thread", r)' => Held("thread", r)
      /\ c \in Reqs /\ pc = "done" => Held("thread", c) /\ ~ Held("thread", c)'
  BY <1>2, <1>3, ThreadMoves
<1>5. Distinct(posts)'
  BY <1>1, DistinctStays
<1>6. CASE UNCHANGED <<queue, answers>>
  <2>1. \A r \in Reqs, z \in Places : Held(z, r)' => Held(z, r)
    BY <1>1, <1>4, <1>6, HeldStays DEF Places
  <2> QED
    BY <1>1, <1>4, <1>5, <1>6, <2>1, NoMove, DistinctStays DEF ResultInv
<1>7. CASE EstablishFails(t)
  <2>1. answers' = Answered(c) /\ UNCHANGED queue
    BY <1>3, <1>7 DEF EstablishFails
  <2>2. AnsweredOnce' /\ \A r \in Reqs : Held("answered", r)' => Held("answered", r) \/ r = c
    BY <1>2, <1>4, <1>7, <2>1, AnswerMoves DEF Places
  <2>3. \A r \in Reqs, z \in Places : Held(z, r)' => Held(z, r) \/ (z = "answered" /\ r = c)
    BY <1>1, <1>4, <2>1, <2>2, HeldStays DEF Places
  <2>4. OneHolder' /\ NoneAhead'
    BY <1>1, <1>2, <1>4, <1>7, <2>3, OneMove DEF Places
  <2> QED
    BY <1>4, <1>5, <2>1, <2>2, <2>4, DistinctStays DEF ResultInv
<1>8. CASE SubmitConnect(t)
  <2> DEFINE e == Task("connect", t, thr[t].result, intent, "vpn")
  <2>1. queue' = Append(queue, e) /\ UNCHANGED answers
    BY <1>8 DEF SubmitConnect
  <2>2. e.result = c
    BY <1>3 DEF Task
  <2> HIDE DEF e
  <2>3. c # 0 => c \in Reqs
    BY AndroidAssumption DEF Reqs
  <2>4. c # 0 => ~ Held("queue", c)
    BY <1>2, <1>4, <1>8, <2>3, HeldIsOpen DEF Places
  <2>5. Distinct(queue)' /\ \A r \in Reqs : Held("queue", r)' => Held("queue", r) \/ r = c
    BY <2>1, <2>2, <2>4, QueueGrows
  <2>6. \A r \in Reqs, z \in Places : Held(z, r)' => Held(z, r) \/ (z = "queue" /\ r = c)
    BY <1>1, <1>4, <2>1, <2>5, HeldStays DEF Places
  <2>7. OneHolder' /\ NoneAhead'
    BY <1>1, <1>2, <1>4, <1>8, <2>6, OneMove DEF Places
  <2> QED
    BY <1>4, <1>5, <2>1, <2>5, <2>7, DistinctStays DEF ResultInv
<1>9. EstablishFails(t) \/ SubmitConnect(t) \/ UNCHANGED <<queue, answers>>
  BY DEF ThreadStep, Establish, ClaimTun, SetTunFd
<1> QED
  BY <1>6, <1>7, <1>8, <1>9

\* Steps that count a disconnect, or hand no result on.
LEMMA QuietKeepsResults ==
  ASSUME TypeInv, ResultInv,
         \/ UNCHANGED vars \/ Observe \/ TapDisconnect \/ InterfaceRemoved \/ KillService \/ OnRevoke
         \/ OnDestroy \/ ProxyMessage \/ EngineStarts \/ EngineFails
  PROVE  ResultInv'
<1>1. UNCHANGED <<taps, pending, posts, calling, thr, answers>>
  BY DEF vars, Observe, TapDisconnect, InterfaceRemoved, KillService, OnRevoke, OnDestroy,
     ProxyMessage, EngineStarts, EngineFails, appVars, hostVars, coreVars
<1>2. queue' = queue \/ \E req, then : queue' = Append(queue, Task("disconnect", req, 0, 0, then))
  BY DEF vars, Observe, TapDisconnect, InterfaceRemoved, KillService, OnRevoke, OnDestroy,
     ProxyMessage, EngineStarts, EngineFails, SubmitDisconnect
<1>3. Distinct(queue)' /\ \A r \in Reqs : Held("queue", r)' => Held("queue", r)
  <2>1. CASE queue' = queue
    BY <2>1, HeldStays, DistinctStays
  <2>2. ASSUME NEW req, NEW then, queue' = Append(queue, Task("disconnect", req, 0, 0, then))
        PROVE  Distinct(queue)' /\ \A r \in Reqs : Held("queue", r)' => Held("queue", r)
    <3> DEFINE e == Task("disconnect", req, 0, 0, then)
    <3>1. e.result = 0 /\ e.result \in 0 .. MaxTaps /\ queue' = Append(queue, e)
      BY <2>2, AndroidAssumption DEF Task
    <3> HIDE DEF e
    <3>2. \A r \in Reqs : r # 0
      BY AndroidAssumption DEF Reqs
    <3> QED
      BY <3>1, <3>2, QueueGrows
  <2> QED
    BY <1>2, <2>1, <2>2
<1>4. \A r \in Reqs, z \in Places : Held(z, r)' => Held(z, r)
  BY <1>1, <1>3, HeldStays DEF Places
<1> QED
  BY <1>1, <1>3, <1>4, NoMove, DistinctStays DEF ResultInv

\* onStartCommand hands the pending result to its thread.
LEMMA StartKeepsResults ==
  ASSUME TypeInv, ResultInv, OnStartCommand
  PROVE  ResultInv'
<1>1. UNCHANGED <<taps, queue, posts, calling, answers>> /\ pending' = 0
  BY DEF OnStartCommand, coreVars
<1>2. PICK c \in 0 .. MaxTaps : c = pending
  BY DEF TypeInv, AppTypes
<1>3. PICK t \in Reqs : \E i : thr' = [thr EXCEPT ![t] = [pc |-> "establish", inst |-> i, result |-> c]]
  <2> DEFINE m == Head(sys)
  <2>1. sys \in Seq(GoodMessages) /\ sys # <<>> /\ m.op = "start"
    BY DEF TypeInv, HostTypes, OnStartCommand
  <2>2. m \in GoodMessages
    BY <2>1, SeqsFit
  <2>3. m.req \in Reqs
    BY <2>1, <2>2 DEF GoodMessages
  <2> QED
    BY <1>2, <2>3 DEF OnStartCommand
<1>4. /\ thr'[t].result = c /\ \A u \in Reqs : u # t => thr'[u] = thr[u]
  BY <1>3 DEF TypeInv, HostTypes
<1>5. \A r \in Reqs : r # 0
  BY AndroidAssumption DEF Reqs
<1>6. c # 0 => c \in Reqs
  BY AndroidAssumption DEF Reqs
<1>7. c \in Reqs => Held("pending", c) /\ ~ Held("pending", c)'
  BY <1>1, <1>2, <1>5 DEF Held
<1>8. c # 0 => ~ HeldByThread(c)
  BY <1>6, <1>7, HeldIsOpen DEF Places, Held
<1>9. DistinctThreads'
  <2> SUFFICES ASSUME NEW u \in Reqs, NEW v \in Reqs, Live(u)', Live(v)', thr'[u].result # 0,
                      thr'[u].result = thr'[v].result
               PROVE  u = v
    BY DEF DistinctThreads
  <2>1. CASE u # t /\ v # t
    BY <1>4, <2>1 DEF ResultInv, DistinctThreads, Live
  <2>2. CASE u = t /\ v # t
    BY <1>4, <1>8, <2>2 DEF HeldByThread, Live
  <2>3. CASE v = t /\ u # t
    BY <1>4, <1>8, <2>3 DEF HeldByThread, Live
  <2> QED
    BY <2>1, <2>2, <2>3
<1>10. \A r \in Reqs : HeldByThread(r)' => HeldByThread(r) \/ r = c
  BY <1>4 DEF HeldByThread, Live
<1>11. \A r \in Reqs : /\ Held("thread", r)' => Held("thread", r) \/ r = c
                       /\ ~ Held("pending", r)'
  BY <1>1, <1>5, <1>10 DEF Held
<1>12. \A r \in Reqs, z \in Places : Held(z, r)' => Held(z, r) \/ (z = "thread" /\ r = c)
  BY <1>1, <1>11, HeldStays DEF Places
<1>13. OneHolder' /\ NoneAhead'
  BY <1>1, <1>7, <1>12, OneMove DEF Places
<1> QED
  BY <1>1, <1>9, <1>13, DistinctStays DEF ResultInv

\* The executor hands the result of a connect on.
LEMMA ExecutorKeepsResults ==
  ASSUME TypeInv, ResultInv, ExecStep
  PROVE  ResultInv'
<1>1. UNCHANGED <<taps, pending, thr, answers>>
  BY DEF ExecStep, ExecConnect, CallConnect, ExecDisconnect, appVars, hostVars
<1>2. DistinctThreads' /\ AnsweredOnce'
  BY <1>1, DistinctStays
<1>3. \A r \in Reqs : r # 0
  BY AndroidAssumption DEF Reqs
<1>4. ASSUME NEW c \in 0 .. MaxTaps, NEW x \in {"queue", "calling"}, c \in Reqs => Held(x, c),
             NEW op, NEW i, posts' = Append(posts, Post(op, i, c))
      PROVE  Distinct(posts)' /\ \A r \in Reqs : Held("posts", r)' => Held("posts", r) \/ r = c
  <2> DEFINE e == Post(op, i, c)
  <2>1. e.result = c /\ posts' = Append(posts, e)
    BY <1>4 DEF Post
  <2> HIDE DEF e
  <2>2. c # 0 => c \in Reqs
    BY AndroidAssumption DEF Reqs
  <2>3. c # 0 => ~ Held("posts", c)
    BY <1>4, <2>2, HeldIsOpen DEF Places
  <2> QED
    BY <2>1, <2>3, PostsGrow
<1>5. CASE ExecConnect
  <2>1. queue # <<>> /\ queue' = Tail(queue) /\ calling = NoTask
    BY <1>5 DEF ExecConnect
  <2>2. PICK c \in 0 .. MaxTaps : c = Head(queue).result
    BY <2>1, QueueShrinks DEF GoodTasks, Tasks
  <2>3. /\ Distinct(queue)' /\ \A r \in Reqs : Held("queue", r)' => Held("queue", r)
        /\ c \in Reqs => Held("queue", c) /\ ~ Held("queue", c)'
    BY <2>1, <2>2, QueueShrinks
  <2>4. CASE calling' = Head(queue) /\ UNCHANGED posts
    <3>1. \A r \in Reqs : Held("calling", r)' => r = c
      BY <2>2, <2>4 DEF Held
    <3>2. \A r \in Reqs, z \in Places : Held(z, r)' => Held(z, r) \/ (z = "calling" /\ r = c)
      BY <1>1, <2>3, <2>4, <3>1, HeldStays DEF Places
    <3>3. OneHolder' /\ NoneAhead'
      BY <1>1, <2>3, <3>2, OneMove DEF Places
    <3> QED
      BY <1>2, <2>3, <2>4, <3>3, DistinctStays DEF ResultInv
  <2>5. CASE (\E op, i : posts' = Append(posts, Post(op, i, c))) /\ UNCHANGED calling
    <3>1. Distinct(posts)' /\ \A r \in Reqs : Held("posts", r)' => Held("posts", r) \/ r = c
      BY <1>4, <2>3, <2>5
    <3>2. \A r \in Reqs, z \in Places : Held(z, r)' => Held(z, r) \/ (z = "posts" /\ r = c)
      BY <1>1, <2>3, <2>5, <3>1, HeldStays DEF Places
    <3>3. OneHolder' /\ NoneAhead'
      BY <1>1, <2>3, <3>2, OneMove DEF Places
    <3> QED
      BY <1>2, <2>3, <3>1, <3>3 DEF ResultInv
  <2> QED
    BY <1>5, <2>2, <2>4, <2>5 DEF ExecConnect
<1>6. CASE CallConnect
  <2>1. calling # NoTask /\ calling' = NoTask /\ UNCHANGED queue
    BY <1>6 DEF CallConnect
  <2>2. PICK c \in 0 .. MaxTaps : c = calling.result
    BY <2>1 DEF TypeInv, BridgeTypes, GoodTasks, Tasks
  <2>3. posts' = Append(posts, Post("answer", 0, c))
    BY <1>6, <2>2 DEF CallConnect
  <2>4. \A r \in Reqs : ~ Held("calling", r)'
    BY <1>3, <2>1 DEF Held, NoTask, Task
  <2>5. c \in Reqs => Held("calling", c) /\ ~ Held("calling", c)'
    BY <2>2, <2>4 DEF Held
  <2>6. Distinct(posts)' /\ \A r \in Reqs : Held("posts", r)' => Held("posts", r) \/ r = c
    BY <1>4, <2>3, <2>5
  <2>7. \A r \in Reqs, z \in Places : Held(z, r)' => Held(z, r) \/ (z = "posts" /\ r = c)
    BY <1>1, <2>1, <2>4, <2>6, HeldStays DEF Places
  <2>8. OneHolder' /\ NoneAhead'
    BY <1>1, <2>5, <2>7, OneMove DEF Places
  <2> QED
    BY <1>2, <2>1, <2>6, <2>8, DistinctStays DEF ResultInv
<1>7. CASE ExecDisconnect
  <2>1. queue # <<>> /\ queue' = Tail(queue) /\ UNCHANGED calling
    BY <1>7 DEF ExecDisconnect
  <2>2. Distinct(queue)' /\ \A r \in Reqs : Held("queue", r)' => Held("queue", r)
    BY <2>1, QueueShrinks
  <2>3. Distinct(posts)' /\ \A r \in Reqs : Held("posts", r)' => Held("posts", r)
    <3>1. CASE posts' = posts
      BY <3>1, HeldStays, DistinctStays
    <3>2. ASSUME NEW op, NEW i, posts' = Append(posts, Post(op, i, 0))
          PROVE  Distinct(posts)' /\ \A r \in Reqs : Held("posts", r)' => Held("posts", r)
      <4>1. 0 \in 0 .. MaxTaps /\ 0 \notin Reqs
        BY AndroidAssumption DEF Reqs
      <4> QED
        BY <1>3, <1>4, <3>2, <4>1
    <3> QED
      BY <1>7, <3>1, <3>2 DEF ExecDisconnect
  <2>4. \A r \in Reqs, z \in Places : Held(z, r)' => Held(z, r)
    BY <1>1, <2>1, <2>2, <2>3, HeldStays DEF Places
  <2> QED
    BY <1>1, <1>2, <2>2, <2>3, <2>4, NoMove DEF ResultInv
<1> QED
  BY <1>5, <1>6, <1>7 DEF ExecStep

\* A callback answers, or drops what is no result.
LEMMA CallbacksKeepResults ==
  ASSUME TypeInv, ResultInv, PostedAbort \/ PostedAnswer \/ PostedStopSelf \/ StopConnectionHosts
  PROVE  ResultInv'
<1>1. UNCHANGED <<taps, pending, thr, queue, calling>> /\ posts # <<>> /\ posts' = Tail(posts)
  BY DEF PostedAbort, PostedAnswer, PostedStopSelf, StopConnectionHosts, appVars, hostVars, coreVars
<1>2. PICK c \in 0 .. MaxTaps : c = Head(posts).result
  BY <1>1, PostsShrink DEF Posts
<1>3. /\ Distinct(posts)' /\ \A r \in Reqs : Held("posts", r)' => Held("posts", r)
      /\ c \in Reqs => Held("posts", c) /\ ~ Held("posts", c)'
  BY <1>1, <1>2, PostsShrink
<1>4. Distinct(queue)' /\ DistinctThreads'
  BY <1>1, DistinctStays
<1>5. CASE answers' = Answered(c)
  <2>1. AnsweredOnce' /\ \A r \in Reqs : Held("answered", r)' => Held("answered", r) \/ r = c
    BY <1>3, <1>5, AnswerMoves DEF Places
  <2>2. \A r \in Reqs, z \in Places : Held(z, r)' => Held(z, r) \/ (z = "answered" /\ r = c)
    BY <1>1, <1>3, <2>1, HeldStays DEF Places
  <2>3. OneHolder' /\ NoneAhead'
    BY <1>1, <1>3, <2>2, OneMove DEF Places
  <2> QED
    BY <1>3, <1>4, <2>1, <2>3 DEF ResultInv
<1>6. CASE UNCHANGED answers
  <2>1. \A r \in Reqs, z \in Places : Held(z, r)' => Held(z, r)
    BY <1>1, <1>3, <1>6, HeldStays DEF Places
  <2> QED
    BY <1>1, <1>3, <1>4, <1>6, <2>1, NoMove, DistinctStays DEF ResultInv
<1>7. answers' = Answered(c) \/ UNCHANGED answers
  BY <1>2 DEF PostedAbort, PostedAnswer, PostedStopSelf, StopConnectionHosts
<1> QED
  BY <1>5, <1>6, <1>7

\* Bridge's slots, tasks, callbacks and flags are well formed, and a connect's
\* channel result is answered at most once: whichever of the dialog, a thread,
\* the executor and the posted callbacks answers it had it to itself, for any
\* number of taps and faults (a second MethodChannel answer throws).
THEOREM AnsweredAtMostOnce == Spec => []HostOK
<1>1. Init => ResultInv
  <2> SUFFICES ASSUME Init PROVE ResultInv
    OBVIOUS
  <2>1. \A r \in Reqs : r # 0
    BY AndroidAssumption DEF Reqs
  <2>2. \A r \in Reqs : ~ HeldByThread(r) /\ ~ HeldIn(queue, r) /\ ~ HeldIn(posts, r)
    BY <2>1 DEF Init, HeldByThread, HeldIn, Live
  <2>3. \A r \in Reqs : \A z \in Places : ~ Held(z, r)
    BY <2>1, <2>2 DEF Init, Held, NoTask, Task
  <2>4. Distinct(queue) /\ Distinct(posts) /\ DistinctThreads /\ AnsweredOnce
    BY DEF Init, Distinct, DistinctThreads, Live, AnsweredOnce
  <2> QED
    BY <2>3, <2>4 DEF ResultInv, OneHolder, NoneAhead
<1>2. TypeInv /\ ResultInv /\ [Next]_vars => ResultInv'
  BY TapsKeepResults, ThreadsKeepResults, QuietKeepsResults, StartKeepsResults,
     ExecutorKeepsResults, CallbacksKeepResults DEF Next, MainStep
<1>3. TypeInv /\ ResultInv => HostOK
  <2> SUFFICES ASSUME TypeInv, ResultInv PROVE HostOK
    OBVIOUS
  <2>1. queue \in Seq(Tasks) /\ calling \in Tasks \cup {NoTask} /\ sys \in Seq(Messages)
    BY DEF TypeInv, BridgeTypes, HostTypes, GoodTasks, GoodMessages
  <2>2. intent \in 0 .. disconnects
    BY DEF TypeInv, BridgeTypes
  <2>3. TypeOK
    BY <2>1, <2>2 DEF TypeOK, TypeInv, FlagTypes, AppTypes, BridgeTypes, HostTypes, CoreTypes, AmRecords
  <2> QED
    BY <2>3 DEF HostOK, ResultInv
<1> QED
  BY <1>1, <1>2, <1>3, TypesBegin, TypesKept, PTL DEF Spec
=============================================================================
