------------------------------- MODULE Events -------------------------------
(***************************************************************************)
(* From the core to the screen: the logger and its ring                    *)
(* (core/log), the event bus and the facade's subscription gate (core/api, *)
(* core/core.go), the bounded event ring that transports drain             *)
(* (core/internal/ring), the transports (core/glue, core/mobile,           *)
(* bridge_linux.dart, Bridge.kt) and the two notifiers that follow the     *)
(* events (ConnectionNotifier and LogsNotifier, app/lib/state).            *)
(*                                                                         *)
(* Connection states are numbered in the order the service takes them;     *)
(* state 0 is disconnected without a session, what the screen shows first. *)
(* One goroutine publishes them (VpnService looks at several).  Any writer *)
(* may log; an entry gets its number under the log ring's lock and is      *)
(* published after it.  Entries below the logger's level do not exist here *)
(* and latencyTested events, to which nobody subscribes, are left out.     *)
(*                                                                         *)
(* On the desktop a request is a synchronous call of the isolate that also *)
(* polls: its answer is handled before anything else.  On Android each     *)
(* request runs on a thread of its own, and its answer is posted to the    *)
(* main looper after the call, behind what the poller posted meanwhile.    *)
(***************************************************************************)
EXTENDS Naturals, Sequences, Functions

CONSTANTS
    Writers,     \* goroutines that log
    Platforms,   \* of {"desktop", "android"}
    RingCap,     \* capacity of the event ring (512)
    LogMax,      \* capacity of the log ring (1000)
    Page,        \* entries one getLogs returns (200)
    ShowCap,     \* entries the log screen keeps (500)
    MaxStates,   \* bound: connection state changes on the desktop
    MaxAndroidStates,   \* bound: connection state changes on Android
    MaxLogs,     \* bound: log entries
    MaxPulls     \* bound: getLogs calls

ASSUME EventsAssumption ==
    /\ Platforms \subseteq {"desktop", "android"}
    /\ {RingCap, LogMax, Page, ShowCap} \subseteq Nat \ {0}
    /\ {MaxStates, MaxAndroidStates, MaxLogs, MaxPulls} \subseteq Nat

VARIABLES
    platform,    \* never changes
    state,       \* the service's connection state
    emit,        \* the state about to be published, 0 = none
    seq,         \* RingBuffer.seq: entries logged
    writing,     \* per writer: its entry about to be published, 0 = none
    subscribed,  \* Facade.subscribed
    ring,        \* EventRing.events
    request,     \* per kind of request: where it is
    answer,      \* per kind of request: what the core answered
    looper,      \* what the Dart isolate has yet to handle, in order
    ui,          \* ConnectionNotifier.state
    open,        \* LogsNotifier is listening
    lastSeq,     \* LogsNotifier._lastSeq
    shown,       \* LogsNotifier.state
    pulls,       \* number of getLogs calls
    dropped,     \* history: the ring dropped a stateChanged event
    cleared      \* history: entries the user cleared

coreVars == <<platform, state, emit, seq, writing, subscribed>>
uiVars   == <<ui, open, lastSeq, shown, pulls>>
vars     == <<platform, state, emit, seq, writing, subscribed, ring, request, answer, looper,
              ui, open, lastSeq, shown, pulls, dropped, cleared>>

StateBound == IF platform = "android" THEN MaxAndroidStates ELSE MaxStates
Kinds == {"subscribe", "getState", "getLogs"}

\* An event or an answer.  n is the number of a state; log entries are
\* numbered without gaps, so a message with entries has those above lo up to n.
Message(type, lo, n) == [type |-> type, lo |-> lo, n |-> n]
Event(type, n) == Message(type, IF type = "logAppended" THEN n - 1 ELSE 0, n)
States   == {"stateChanged", "subscribe", "getState"}
Logs     == {"logAppended", "getLogs"}
Messages == [type : States, lo : {0}, n : 0 .. StateBound] \cup [type : Logs, lo : 0 .. seq, n : 0 .. seq]

Last(s) == s[Len(s)]
Larger(a, b) == IF a > b THEN a ELSE b

\* Buffers keep their capacities, numbers their ranges.
TypeOK ==
    /\ platform \in Platforms
    /\ state \in 0 .. StateBound /\ emit \in 0 .. StateBound
    /\ seq \in 0 .. MaxLogs /\ writing \in [Writers -> 0 .. seq]
    /\ subscribed \in BOOLEAN /\ open \in BOOLEAN /\ dropped \in BOOLEAN
    /\ ring \in Seq(Messages) /\ Len(ring) <= RingCap
    /\ request \in [Kinds -> {"none", "sent", "done"}]
    /\ answer \in [Kinds -> Messages] /\ \A k \in Kinds : answer[k].type = k
    /\ looper \in Seq(Messages)
    /\ ui \in 0 .. StateBound /\ lastSeq \in 0 .. seq /\ pulls \in 0 .. MaxPulls
    /\ shown \in Seq(1 .. seq) /\ Len(shown) <= ShowCap
    /\ cleared \subseteq 1 .. seq

\* The notifiers' build has sent its requests; the core may be in any state
\* and have logged before.
Init ==
    /\ platform \in Platforms
    /\ state \in 0 .. 1 /\ state <= StateBound /\ emit = 0
    /\ seq \in 0 .. (IF MaxLogs < 2 THEN MaxLogs ELSE 2)
    /\ writing = [w \in Writers |-> 0]
    /\ subscribed = FALSE /\ ring = <<>>
    /\ request = [k \in Kinds |-> IF k = "getLogs" THEN "none" ELSE "sent"]
    /\ answer = [k \in Kinds |-> Message(k, 0, 0)]
    /\ looper = <<>> /\ ui = 0 /\ open = FALSE /\ lastSeq = 0 /\ shown = <<>>
    /\ pulls = 0 /\ dropped = FALSE /\ cleared = {}

-----------------------------------------------------------------------------
(* The core *)

\* EventRing.Push: the oldest event goes when the ring is full.
Push(r, e) == LET s == Append(r, e)
              IN  IF Len(s) > RingCap THEN SubSeq(s, Len(s) - RingCap + 1, Len(s)) ELSE s

\* EventBus.Publish through facadeSink: nothing unless subscribed.
Publish(e) ==
    IF subscribed
    THEN /\ ring' = Push(ring, e)
         /\ dropped' = (dropped \/ (Len(ring) = RingCap /\ Head(ring).type = "stateChanged"))
    ELSE UNCHANGED <<ring, dropped>>

ChangeState ==
    /\ state < StateBound /\ emit = 0
    /\ state' = state + 1 /\ emit' = state + 1
    /\ UNCHANGED <<platform, seq, writing, subscribed, ring, request, answer, looper, uiVars, dropped, cleared>>

EmitState ==
    /\ emit # 0 /\ emit' = 0
    /\ Publish(Event("stateChanged", emit))
    /\ UNCHANGED <<platform, state, seq, writing, subscribed, request, answer, looper, uiVars, cleared>>

\* Logger.log: the ring buffer numbers the entry ...
AppendLog(w) ==
    /\ writing[w] = 0 /\ seq < MaxLogs
    /\ seq' = seq + 1 /\ writing' = [writing EXCEPT ![w] = seq + 1]
    /\ UNCHANGED <<platform, state, emit, subscribed, ring, request, answer, looper, uiVars, dropped, cleared>>

\* ... and the sinks get it afterwards, outside the lock.
WriteSinks(w) ==
    /\ writing[w] # 0 /\ writing' = [writing EXCEPT ![w] = 0]
    /\ Publish(Event("logAppended", writing[w]))
    /\ UNCHANGED <<platform, state, emit, seq, subscribed, request, answer, looper, uiVars, cleared>>

\* RingBuffer.Since: the oldest entries kept after a number, at most a page.
Since(after) ==
    LET lo == IF seq > after + LogMax THEN seq - LogMax ELSE after
    IN  Message("getLogs", lo, IF seq > lo + Page THEN lo + Page ELSE seq)

-----------------------------------------------------------------------------
(* Requests and the transports *)

\* Dispatch of one request, under the bridge's mutex.
Answer(k) ==
    CASE k = "subscribe" -> Message(k, 0, 0)
      [] k = "getState"  -> Message(k, 0, state)
      [] k = "getLogs"   -> Since(answer[k].lo)

\* On the desktop the isolate goes from a request to its answer before it
\* turns to a timer or to the user: a request is a chain of microtasks.
IsolateFree == platform = "android" \/ (looper = <<>> /\ \A k \in Kinds : request[k] # "sent")

\* The synchronous call of the desktop; requests keep their order.
CallSync(k) ==
    /\ platform = "desktop" /\ looper = <<>>
    /\ request[k] = "sent" /\ (k = "getState" => request["subscribe"] = "none")
    /\ request' = [request EXCEPT ![k] = "none"]
    /\ looper' = <<Answer(k)>>
    /\ subscribed' = (subscribed \/ k = "subscribe")
    /\ UNCHANGED <<platform, state, emit, seq, writing, ring, answer, uiVars, dropped, cleared>>

\* On Android a thread calls ...
CallAsync(k) ==
    /\ platform = "android" /\ request[k] = "sent"
    /\ request' = [request EXCEPT ![k] = "done"]
    /\ answer' = [answer EXCEPT ![k] = Answer(k)]
    /\ subscribed' = (subscribed \/ k = "subscribe")
    /\ UNCHANGED <<platform, state, emit, seq, writing, ring, looper, uiVars, dropped, cleared>>

\* ... and posts the answer.
PostAnswer(k) ==
    /\ request[k] = "done"
    /\ request' = [request EXCEPT ![k] = "none"]
    /\ looper' = Append(looper, answer[k])
    /\ UNCHANGED <<coreVars, ring, answer, uiVars, dropped, cleared>>

\* The poll timer, or the poller thread, drains the ring.
Poll ==
    /\ ring # <<>> /\ IsolateFree
    /\ ring' = <<>> /\ looper' = looper \o ring
    /\ UNCHANGED <<coreVars, request, answer, uiVars, dropped, cleared>>

-----------------------------------------------------------------------------
(* The notifiers *)

Trim(s) == IF Len(s) > ShowCap THEN SubSeq(s, Len(s) - ShowCap + 1, Len(s)) ELSE s

\* The entries above lo up to hi.
Entries(lo, hi) == [i \in 1 .. (IF hi > lo THEN hi - lo ELSE 0) |-> lo + i]

\* Mutant: entries are not compared with the watermark.
ShowAll(lo, hi) ==
    /\ shown' = Trim(shown \o Entries(lo, hi))
    /\ lastSeq' = IF hi > lo THEN hi ELSE lastSeq

\* _seed and _onEvent of LogsNotifier: what is above the watermark is shown.
Show(lo, hi) ==
    LET fresh == Entries(Larger(lo, lastSeq), hi)
    IN  /\ shown' = Trim(shown \o fresh)
        /\ lastSeq' = IF fresh = <<>> THEN lastSeq ELSE hi

\* Mutant: the screen shows snapshots and ignores the events.
HandleSnapshotOnly(m) ==
    /\ ui' = IF m.type = "getState" THEN m.n ELSE ui
    /\ UNCHANGED <<shown, lastSeq>>

Handle(m) ==
    /\ ui' = IF m.type = "stateChanged" \/ (m.type = "getState" /\ m.n # 0) THEN m.n ELSE ui
    /\ IF m.type = "getLogs" \/ (m.type = "logAppended" /\ open)
       THEN Show(m.lo, m.n)
       ELSE UNCHANGED <<shown, lastSeq>>

Deliver ==
    /\ looper # <<>> /\ looper' = Tail(looper)
    /\ Handle(Head(looper))
    /\ UNCHANGED <<coreVars, ring, request, answer, open, pulls, dropped, cleared>>

\* The log screen is opened, or its refresh button pressed: getLogs from the
\* watermark.
PullLogs ==
    /\ request["getLogs"] = "none" /\ pulls < MaxPulls /\ IsolateFree
    /\ open' = TRUE /\ pulls' = pulls + 1
    /\ request' = [request EXCEPT !["getLogs"] = "sent"]
    /\ answer' = [answer EXCEPT !["getLogs"] = Message("getLogs", lastSeq, lastSeq)]
    /\ UNCHANGED <<coreVars, ring, looper, ui, lastSeq, shown, dropped, cleared>>

\* Mutant: clearing the list starts again from the first entry.
ClearResets ==
    /\ open /\ shown # <<>> /\ IsolateFree
    /\ cleared' = cleared \cup Range(shown)
    /\ lastSeq' = 0 /\ shown' = <<>>
    /\ UNCHANGED <<coreVars, ring, request, answer, looper, ui, open, pulls, dropped>>

Clear ==
    /\ open /\ shown # <<>> /\ IsolateFree
    /\ cleared' = cleared \cup Range(shown)
    /\ lastSeq' = Last(shown) /\ shown' = <<>>
    /\ UNCHANGED <<coreVars, ring, request, answer, looper, ui, open, pulls, dropped>>

Next ==
    \/ ChangeState \/ EmitState \/ Poll \/ Deliver \/ PullLogs \/ Clear
    \/ \E w \in Writers : AppendLog(w) \/ WriteSinks(w)
    \/ \E k \in Kinds : CallSync(k) \/ CallAsync(k) \/ PostAnswer(k)

Spec == Init /\ [][Next]_vars

\* Goroutines and threads run on, the poll timer fires, the looper moves.
FairSpec ==
    /\ Spec
    /\ WF_vars(EmitState) /\ WF_vars(Poll) /\ WF_vars(Deliver)
    /\ \A w \in Writers : WF_vars(WriteSinks(w))
    /\ \A k \in Kinds : WF_vars(CallSync(k)) /\ WF_vars(CallAsync(k)) /\ WF_vars(PostAnswer(k))

-----------------------------------------------------------------------------
(* Properties *)

\* The log screen shows every entry at most once and in the order of their
\* numbers, with the watermark at the last one, although pages, live events
\* of concurrent writers and late answers overlap.
ShownInOrder ==
    /\ \A i, j \in 1 .. Len(shown) : i < j => shown[i] < shown[j]
    /\ shown # <<>> => Last(shown) = lastSeq

\* The buffers and the log screen: capacities, ranges and order.
LogInv == TypeOK /\ ShownInOrder

\* "cleared entries do not reappear on a refresh or via late logAppended
\* deliveries" (providers.dart:231-232).
ClearedStayGone == cleared \cap Range(shown) = {}

\* "Live connection state driven by the contract's stateChanged events"
\* (providers.dart:120): under fair scheduling the screen of the desktop, where
\* the first snapshot cannot be overtaken, always comes to show the service's
\* last state, unless the ring had to drop a stateChanged event.
UiCatchesUp == <>[](ui = state \/ dropped \/ platform # "desktop")
=============================================================================
