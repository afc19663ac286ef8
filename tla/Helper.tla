------------------------------- MODULE Helper -------------------------------
(***************************************************************************)
(* The privileged helper of Linux VPN mode: HelperRunner and its control   *)
(* client (core/tunnel/helper_client.go) on one side of a Unix socket, the *)
(* helper processes (core/tunnel/helperhost) on the other.                 *)
(*                                                                         *)
(* The Manager calls the runner one operation at a time.  Beside it run,   *)
(* for every connection, a reader and a keepalive pinger.  A request is    *)
(* sent in one critical section of c.mu and its answer channel registered  *)
(* in a second one.  A host handles one message at a time and serves one   *)
(* connection in its life; connections it never accepts wait in its        *)
(* backlog.  Timeouts can expire whenever the answer is not there.         *)
(*                                                                         *)
(* helperClient.running is left out (only Running reads it, and nothing    *)
(* calls that), and so are engine log events, which touch no state here.   *)
(***************************************************************************)
EXTENDS Naturals, Sequences

CONSTANTS
    MaxOps,      \* bound: runner calls
    MaxConns,    \* bound: successful dials
    MaxProcs,    \* bound: helper processes spawned
    MaxPings,    \* bound: keepalive pings of one connection
    Crashes      \* may a helper process die by itself?

ASSUME HelperAssumption ==
    /\ {MaxOps, MaxConns, MaxProcs, MaxPings} \subseteq Nat \ {0}
    /\ Crashes \in BOOLEAN

Conns   == 1 .. MaxConns
Procs   == 1 .. MaxProcs
Op      == 0                    \* the requester behind Start and Stop;
Threads == {Op} \cup Conns      \* thread k is the pinger of connection k
Seqs    == 1 .. (MaxOps + MaxPings)

VARIABLES
    app,          \* the core's process: "up", "closing", "gone"
    ops,          \* number of runner calls made
    call,         \* the runner call in progress: "none", "start", "stop"
    outcome,      \* how the last call ended
    mode,         \* the mode of the last Start
    inProc,       \* is the in-process engine (proxy mode) up?
    client,       \* HelperRunner.client: its connection, 0 = nil
    conns,        \* number of connections dialled
    procs,        \* number of helpers spawned; the last one is HelperRunner.cmd
    at,           \* per thread: where its request is
    on,           \* per thread: the connection it uses
    seq,          \* per thread: the sequence number of its request
    pings,        \* per connection: pings sent
    counter,      \* per connection: helperClient.seqCounter
    pending,      \* per connection: sequence numbers with a registered channel
    box,          \* per connection and sequence number: what the channel got
    closed,       \* connections with helperClient.closed
    intentional,  \* connections with helperClient.intentional
    lost,         \* connections whose lost channel is closed
    up,           \* per connection: messages on their way to the helper
    down,         \* per connection: messages on their way to the core
    peer,         \* per connection: the process that was listening
    path,         \* the process whose socket is at the path, 0 = no socket
    host,         \* per process: where it is
    serves,       \* per process: the connection it accepted, 0 = none
    eng           \* processes whose engine is up

runnerVars == <<ops, call, outcome, mode, inProc, client, conns, procs>>
threadVars == <<at, on, seq, pings>>
clientVars == <<counter, pending, box, closed, intentional, lost>>
hostVars   == <<path, host, serves, eng>>
vars       == <<app, runnerVars, threadVars, clientVars, up, down, peer, hostVars>>

Init ==
    /\ app = "up"
    /\ ops = 0 /\ call = "none" /\ outcome = "none" /\ mode = "vpn" /\ inProc = FALSE
    /\ client = 0 /\ conns = 0 /\ procs = 0
    /\ at = [t \in Threads |-> "idle"]
    /\ on = [t \in Threads |-> t]
    /\ seq = [t \in Threads |-> 0]
    /\ pings = [k \in Conns |-> 0]
    /\ counter = [k \in Conns |-> 0]
    /\ pending = [k \in Conns |-> {}]
    /\ box = [k \in Conns |-> [s \in Seqs |-> <<>>]]
    /\ closed = {} /\ intentional = {} /\ lost = {}
    /\ up = [k \in Conns |-> <<>>]
    /\ down = [k \in Conns |-> <<>>]
    /\ peer = [k \in Conns |-> 0]
    /\ path = 0
    /\ host = [p \in Procs |-> "none"]
    /\ serves = [p \in Procs |-> 0]
    /\ eng = {}

Alive(p) == p # 0 /\ host[p] \notin {"none", "spawned", "gone"}

-----------------------------------------------------------------------------

\* Mutant: every close counts as deliberate.
CloseAlwaysIntentional(k, sendQuit, waiting) ==
    IF k \in closed THEN pending' = waiting /\ UNCHANGED <<box, closed, intentional, up, down>>
    ELSE /\ closed' = closed \cup {k}
         /\ intentional' = intentional \cup {k}
         /\ pending' = [waiting EXCEPT ![k] = {}]
         /\ box' = [box EXCEPT ![k] = [s \in Seqs |->
                        IF s \in waiting[k] THEN Append(@[s], FALSE) ELSE @[s]]]
         /\ up' = IF sendQuit THEN [up EXCEPT ![k] = Append(@, [type |-> "quit", seq |-> 0])]
                  ELSE up
         /\ down' = [down EXCEPT ![k] = <<>>]

\* helperClient.close(sendQuit), when the channels in waiting are registered:
\* the first call wins, and everyone who waits gets an error.
CloseWith(k, sendQuit, waiting) ==
    IF k \in closed THEN pending' = waiting /\ UNCHANGED <<box, closed, intentional, up, down>>
    ELSE /\ closed' = closed \cup {k}
         /\ intentional' = IF sendQuit THEN intentional \cup {k} ELSE intentional
         /\ pending' = [waiting EXCEPT ![k] = {}]
         /\ box' = [box EXCEPT ![k] = [s \in Seqs |->
                        IF s \in waiting[k] THEN Append(@[s], FALSE) ELSE @[s]]]
         /\ up' = IF sendQuit THEN [up EXCEPT ![k] = Append(@, [type |-> "quit", seq |-> 0])]
                  ELSE up
         /\ down' = [down EXCEPT ![k] = <<>>]

\* The runner call in progress returns; Manager.Stop drops the error.
Returns(ok) ==
    /\ call' = "none"
    /\ outcome' = IF call = "stop" THEN "stopped" ELSE IF ok THEN "started" ELSE "failed"

\* A request of thread t failed: Start or Stop returns the error, a pinger
\* drops its connection and ends.
Failed(t, waiting) ==
    IF t = Op
    THEN /\ at' = [at EXCEPT ![t] = "idle"]
         /\ Returns(FALSE)
         /\ pending' = waiting
         /\ UNCHANGED <<box, closed, intentional, up, down>>
    ELSE /\ at' = [at EXCEPT ![t] = "dead"]
         /\ UNCHANGED <<call, outcome>>
         /\ CloseWith(t, FALSE, waiting)

-----------------------------------------------------------------------------
(* A request, of the runner or of a pinger: nextSeq and send, the first    *)
(* critical section of await, then the answer or the timeout.              *)

Type(t) == IF t # Op THEN "ping" ELSE IF call = "start" THEN "connect" ELSE "disconnect"

\* What a step of a request leaves alone.
RequestFrame ==
    UNCHANGED <<app, ops, inProc, mode, client, conns, procs, on, pings, lost, peer, hostVars>>

\* A write to the connection fails.
Broken(k) == k \in closed \/ host[peer[k]] = "gone"

\* Mutant: every request has the same number.
SendUnnumbered(t) ==
    LET k == on[t] IN
    /\ at[t] = "send"
    /\ ~ Broken(k)
    /\ seq' = [seq EXCEPT ![t] = 1]
    /\ up' = [up EXCEPT ![k] = Append(@, [type |-> Type(t), seq |-> 1])]
    /\ at' = [at EXCEPT ![t] = "sent"]
    /\ UNCHANGED <<call, outcome, pending, box, closed, intentional, down, counter>>
    /\ RequestFrame

\* nextSeq and send.
Send(t) ==
    LET k == on[t] IN
    /\ at[t] = "send"
    /\ \/ /\ Broken(k)
          /\ Failed(t, pending)
          /\ UNCHANGED <<seq, counter>>
       \/ /\ ~ Broken(k)
          /\ counter' = [counter EXCEPT ![k] = @ + 1]
          /\ seq' = [seq EXCEPT ![t] = counter[k] + 1]
          /\ up' = [up EXCEPT ![k] = Append(@, [type |-> Type(t), seq |-> counter[k] + 1])]
          /\ at' = [at EXCEPT ![t] = "sent"]
          /\ UNCHANGED <<call, outcome, pending, box, closed, intentional, down>>
    /\ RequestFrame

\* The first critical section of await.
Register(t) ==
    LET k == on[t] IN
    /\ at[t] = "sent"
    /\ \/ /\ k \in closed
          /\ Failed(t, pending)
       \/ /\ k \notin closed
          /\ pending' = [pending EXCEPT ![k] = @ \cup {seq[t]}]
          /\ at' = [at EXCEPT ![t] = "await"]
          /\ UNCHANGED <<call, outcome, box, closed, intentional, up, down>>
    /\ UNCHANGED <<seq, counter>>
    /\ RequestFrame

\* await receives its answer.
Answered(t) ==
    LET answer == box[on[t]][seq[t]] IN
    /\ at[t] = "await"
    /\ answer # <<>>
    /\ \/ /\ ~ Head(answer)
          /\ Failed(t, pending)
       \/ /\ Head(answer)
          /\ at' = [at EXCEPT ![t] = "idle"]
          /\ IF t = Op THEN Returns(TRUE) ELSE UNCHANGED <<call, outcome>>
          /\ UNCHANGED <<pending, box, closed, intentional, up, down>>
    /\ UNCHANGED <<seq, counter>>
    /\ RequestFrame

\* Mutant: await has no timeout.
NeverTimedOut(t) == FALSE /\ UNCHANGED vars

\* await times out; the deferred delete leaves a late answer without a channel.
TimedOut(t) ==
    /\ at[t] = "await"
    /\ box[on[t]][seq[t]] = <<>>
    /\ Failed(t, [pending EXCEPT ![on[t]] = @ \ {seq[t]}])
    /\ UNCHANGED <<seq, counter>>
    /\ RequestFrame

-----------------------------------------------------------------------------
(* HelperRunner, called by the Manager one operation at a time.            *)

\* A dial of the socket path succeeds when a process listens there, although
\* it may never accept the connection.
Dial ==
    /\ Alive(path)
    /\ conns < MaxConns
    /\ conns' = conns + 1
    /\ client' = conns + 1
    /\ peer' = [peer EXCEPT ![conns + 1] = path]
    /\ on' = [on EXCEPT ![Op] = conns + 1]
    /\ at' = [at EXCEPT ![Op] = "send"]

\* The Manager starts nothing while it tracks a tunnel, and its caller stops
\* the tunnel after every start that fails (runLoop).
CanStart == call = "none" /\ outcome \in {"none", "stopped"} /\ ops < MaxOps

RunnerFrame == UNCHANGED <<app, seq, pings, clientVars, up, down>>

\* Start(opts) of proxy mode: the in-process engine.
StartProxy ==
    /\ CanStart
    /\ ops' = ops + 1
    /\ mode' = "proxy"
    /\ \/ inProc' = TRUE /\ outcome' = "started"
       \/ UNCHANGED inProc /\ outcome' = "failed"
    /\ UNCHANGED <<call, client, conns, procs, at, on, peer, hostVars>>
    /\ RunnerFrame

\* Start(opts) of VPN mode.
StartVPN ==
    /\ CanStart
    /\ ops' = ops + 1
    /\ mode' = "vpn"
    /\ call' = "start"
    /\ at' = [at EXCEPT ![Op] = "ensure"]
    /\ UNCHANGED <<outcome, inProc, client, conns, procs, on, peer, hostVars>>
    /\ RunnerFrame

\* ensureHelper: a live client is used again.
KeepClient ==
    /\ at[Op] = "ensure"
    /\ client # 0 /\ client \notin closed
    /\ on' = [on EXCEPT ![Op] = client]
    /\ at' = [at EXCEPT ![Op] = "send"]
    /\ UNCHANGED <<ops, call, outcome, inProc, mode, client, conns, procs, peer, hostVars>>
    /\ RunnerFrame

\* ensureHelper: otherwise whoever listens is dialled, before a spawn and then
\* until the deadline.
DialHelper ==
    /\ \/ at[Op] = "ensure" /\ (client = 0 \/ client \in closed)
       \/ at[Op] = "spawned"
    /\ Dial
    /\ UNCHANGED <<ops, call, outcome, inProc, mode, procs, hostVars>>
    /\ RunnerFrame

\* ensureHelper: nobody listens, spawn a helper.
Spawn ==
    /\ at[Op] = "ensure"
    /\ client = 0 \/ client \in closed
    /\ ~ Alive(path)
    /\ procs < MaxProcs
    /\ procs' = procs + 1
    /\ host' = [host EXCEPT ![procs + 1] = "spawned"]
    /\ at' = [at EXCEPT ![Op] = "spawned"]
    /\ UNCHANGED <<ops, call, outcome, inProc, mode, client, conns, on, peer, path, serves, eng>>
    /\ RunnerFrame

\* ensureHelper: the spawn fails, or nobody listens until the deadline.
EnsureFails ==
    /\ \/ at[Op] = "ensure" /\ (client = 0 \/ client \in closed) /\ ~ Alive(path)
       \/ at[Op] = "spawned"
    /\ at' = [at EXCEPT ![Op] = "idle"]
    /\ Returns(FALSE)
    /\ UNCHANGED <<ops, inProc, mode, client, conns, procs, on, peer, hostVars>>
    /\ RunnerFrame

\* Mutant: Stop only stops what was reported as started.
StopOnlyStarted ==
    /\ call = "none" /\ ops < MaxOps
    /\ ops' = ops + 1
    /\ inProc' = FALSE
    /\ IF inProc \/ client = 0 \/ outcome # "started"
       THEN outcome' = "stopped" /\ UNCHANGED <<call, at, on>>
       ELSE /\ call' = "stop"
            /\ at' = [at EXCEPT ![Op] = "send"]
            /\ on' = [on EXCEPT ![Op] = client]
            /\ UNCHANGED outcome
    /\ UNCHANGED <<mode, client, conns, procs, peer, hostVars>>
    /\ RunnerFrame

\* Stop(): the in-process engine if it runs, else a disconnect request.
Stop ==
    /\ call = "none" /\ ops < MaxOps
    /\ ops' = ops + 1
    /\ inProc' = FALSE
    /\ IF inProc \/ client = 0
       THEN outcome' = "stopped" /\ UNCHANGED <<call, at, on>>
       ELSE /\ call' = "stop"
            /\ at' = [at EXCEPT ![Op] = "send"]
            /\ on' = [on EXCEPT ![Op] = client]
            /\ UNCHANGED outcome
    /\ UNCHANGED <<mode, client, conns, procs, peer, hostVars>>
    /\ RunnerFrame

-----------------------------------------------------------------------------
(* The goroutines of a connection.                                         *)

\* A tick of the keepalive: the pinger of a closed connection ends.
Tick(k) ==
    /\ k <= conns
    /\ at[k] = "idle"
    /\ k \in closed \/ pings[k] < MaxPings
    /\ IF k \in closed THEN UNCHANGED pings ELSE pings' = [pings EXCEPT ![k] = @ + 1]
    /\ at' = [at EXCEPT ![k] = IF k \in closed THEN "dead" ELSE "send"]
    /\ UNCHANGED <<app, runnerVars, on, seq, clientVars, up, down, peer, hostVars>>

\* Mutant: readLoop leaves an answered channel registered.
ReadKeepsPending(k) ==
    /\ down[k] # <<>>
    /\ k \notin closed
    /\ LET msg == Head(down[k]) IN
       /\ box' = IF msg.seq \in pending[k]
                 THEN [box EXCEPT ![k][msg.seq] = Append(@, msg.ok)] ELSE box
    /\ down' = [down EXCEPT ![k] = Tail(@)]
    /\ UNCHANGED <<app, runnerVars, threadVars, counter, pending, closed, intentional, lost,
                   up, peer, hostVars>>

\* readLoop: a response goes to the channel registered for its number, if any.
Read(k) ==
    /\ down[k] # <<>>
    /\ k \notin closed
    /\ LET msg == Head(down[k]) IN
       /\ pending' = [pending EXCEPT ![k] = @ \ {msg.seq}]
       /\ box' = IF msg.seq \in pending[k]
                 THEN [box EXCEPT ![k][msg.seq] = Append(@, msg.ok)] ELSE box
    /\ down' = [down EXCEPT ![k] = Tail(@)]
    /\ UNCHANGED <<app, runnerVars, threadVars, counter, closed, intentional, lost,
                   up, peer, hostVars>>

\* readLoop ends: the connection was closed here, or the other end is gone and
\* everything it sent has been read.  Only a loss is signalled (at the end of a
\* deliberate teardown there is nothing left to do).
ReadEnds(k) ==
    /\ k <= conns
    /\ k \notin lost \cup intentional
    /\ k \in closed \/ (host[peer[k]] = "gone" /\ down[k] = <<>>)
    /\ CloseWith(k, FALSE, pending)
    /\ lost' = lost \cup {k}
    /\ UNCHANGED <<app, runnerVars, threadVars, counter, peer, hostVars>>

-----------------------------------------------------------------------------
(* The app's end.                                                          *)

\* HelperRunner.Close, after the last runner call: quit the helper.
CloseRunner ==
    /\ app = "up"
    /\ call = "none"
    /\ app' = "closing"
    /\ client' = 0
    /\ inProc' = FALSE
    /\ IF client = 0 THEN UNCHANGED <<pending, box, closed, intentional, up, down>>
       ELSE CloseWith(client, TRUE, pending)
    /\ UNCHANGED <<ops, call, outcome, mode, conns, procs, threadVars, counter, lost,
                   peer, hostVars>>

\* A process ends: its engine and its connections end with it.  One that
\* returns from Run unlinks the socket path, whoever made it.
Gone(p, unlink) ==
    /\ host' = [host EXCEPT ![p] = "gone"]
    /\ eng' = eng \ {p}
    /\ path' = IF unlink THEN 0 ELSE path
    /\ up' = [k \in Conns |-> IF peer[k] = p THEN <<>> ELSE up[k]]
    /\ UNCHANGED serves

\* HelperRunner.Close kills a helper that outlives the quit.
Kill ==
    /\ app = "closing"
    /\ procs # 0 /\ host[procs] # "gone"
    /\ Gone(procs, FALSE)
    /\ UNCHANGED <<app, runnerVars, threadVars, clientVars, down, peer>>

\* The core's process exits, after Close or without it; the operating system
\* closes its connections.
Exit ==
    /\ app # "gone"
    /\ app = "closing" => (procs # 0 => host[procs] = "gone")
    /\ app' = "gone"
    /\ closed' = Conns
    /\ down' = [k \in Conns |-> <<>>]
    /\ call' = "none"
    /\ inProc' = FALSE
    /\ UNCHANGED <<ops, outcome, mode, client, conns, procs, threadVars, counter, pending, box,
                   intentional, lost, up, peer, hostVars>>

-----------------------------------------------------------------------------
(* The helper process.                                                     *)

HostFrame == UNCHANGED <<app, runnerVars, threadVars, clientVars, peer>>

\* Host.respond: what is written to a closed connection is gone.
Respond(k, s, ok) ==
    down' = IF k \in closed THEN down
            ELSE [down EXCEPT ![k] = Append(@, [seq |-> s, ok |-> ok])]

\* Run replaces the socket at the path and listens; or the user refuses.
Listen(p) ==
    /\ host[p] = "spawned"
    /\ \/ host' = [host EXCEPT ![p] = "listening"] /\ path' = p
       \/ host' = [host EXCEPT ![p] = "gone"] /\ UNCHANGED path
    /\ UNCHANGED <<serves, eng, up, down>>
    /\ HostFrame

\* l.Accept(): the first connection in the backlog, the only one ever.
Accept(p) ==
    /\ host[p] = "listening"
    /\ \E k \in 1 .. conns :
          /\ peer[k] = p
          /\ \A j \in 1 .. k - 1 : peer[j] # p
          /\ serves' = [serves EXCEPT ![p] = k]
    /\ host' = [host EXCEPT ![p] = "serving"]
    /\ UNCHANGED <<path, eng, up, down>>
    /\ HostFrame

\* A message of connection k is handled and answered.
Handled(p, k, ok) ==
    /\ up' = [up EXCEPT ![k] = Tail(@)]
    /\ Respond(k, Head(up[k]).seq, ok)

\* Host.Connect: an engine that is up is kept; otherwise one starts, which
\* takes its time (the message stays at the head until it is answered).
Connect(p) ==
    LET k == serves[p] IN
    /\ host[p] = "serving"
    /\ up[k] # <<>> /\ Head(up[k]).type = "connect"
    /\ IF p \in eng THEN Handled(p, k, FALSE) /\ UNCHANGED host
       ELSE host' = [host EXCEPT ![p] = "starting"] /\ UNCHANGED <<up, down>>
    /\ UNCHANGED <<path, serves, eng>>
    /\ HostFrame

Connected(p) ==
    /\ host[p] = "starting"
    /\ host' = [host EXCEPT ![p] = "serving"]
    /\ \E ok \in BOOLEAN :
          /\ Handled(p, serves[p], ok)
          /\ eng' = IF ok THEN eng \cup {p} ELSE eng
    /\ UNCHANGED <<path, serves>>
    /\ HostFrame

\* Host.Disconnect: the engine is dropped even when closing it reports an error.
Disconnect(p) ==
    LET k == serves[p] IN
    /\ host[p] = "serving"
    /\ up[k] # <<>> /\ Head(up[k]).type = "disconnect"
    /\ \/ Handled(p, k, TRUE)
       \/ p \in eng /\ Handled(p, k, FALSE)
    /\ eng' = eng \ {p}
    /\ UNCHANGED <<path, host, serves>>
    /\ HostFrame

\* Host.Ping
Ping(p) ==
    LET k == serves[p] IN
    /\ host[p] = "serving"
    /\ up[k] # <<>> /\ Head(up[k]).type = "ping"
    /\ Handled(p, k, TRUE)
    /\ UNCHANGED hostVars
    /\ HostFrame

\* Mutant: the end of the connection does not end the helper.
IgnoreEof(p) ==
    LET k == serves[p] IN
    /\ host[p] = "serving"
    /\ up[k] # <<>> /\ Head(up[k]).type = "quit"
    /\ Gone(p, TRUE)
    /\ UNCHANGED down
    /\ HostFrame

\* Run returns, on quit or at the end of the connection, with the engine down.
Quit(p) ==
    LET k == serves[p] IN
    /\ host[p] = "serving"
    /\ IF up[k] = <<>> THEN k \in closed ELSE Head(up[k]).type = "quit"
    /\ Gone(p, TRUE)
    /\ UNCHANGED down
    /\ HostFrame

\* A helper dies by itself, engine and all.
Crash(p) ==
    /\ Crashes
    /\ Alive(p)
    /\ Gone(p, FALSE)
    /\ UNCHANGED down
    /\ HostFrame

-----------------------------------------------------------------------------

Runner == app = "up" /\ (StartProxy \/ StartVPN \/ Stop)

\* ensureHelper returns.
Ensure == app = "up" /\ (KeepClient \/ DialHelper \/ Spawn \/ EnsureFails)

Request(t) == app # "gone" /\ (Send(t) \/ Register(t) \/ Answered(t) \/ TimedOut(t))

Reader(k) == app # "gone" /\ (Read(k) \/ ReadEnds(k))

Pinger(k) == app # "gone" /\ Tick(k)

Shutdown == CloseRunner \/ Kill \/ Exit

Host(p) ==
    \/ Accept(p) \/ Connect(p) \/ Connected(p) \/ Disconnect(p) \/ Ping(p) \/ Quit(p)

Next ==
    \/ Runner \/ Ensure \/ Shutdown
    \/ \E t \in Threads : Request(t)
    \/ \E k \in Conns : Reader(k) \/ Pinger(k)
    \/ \E p \in Procs : Host(p) \/ Listen(p) \/ Crash(p)

Spec == Init /\ [][Next]_vars

\* The goroutines of the core run, and so does a helper that listens: it is
\* not hung.  Nobody has to authorise, call, close or crash anything.
Fairness ==
    /\ WF_vars(Ensure)
    /\ \A t \in Threads : WF_vars(Request(t))
    /\ \A k \in Conns : WF_vars(Reader(k))
    /\ \A p \in Procs : WF_vars(Host(p))

FairSpec == Spec /\ Fairness

-----------------------------------------------------------------------------
(* Properties.                                                             *)

\* What each variable of the runner, the client and the helpers may hold.
TypeOK ==
    /\ app \in {"up", "closing", "gone"}
    /\ ops \in 0 .. MaxOps
    /\ call \in {"none", "start", "stop"}
    /\ outcome \in {"none", "started", "failed", "stopped"}
    /\ inProc \in BOOLEAN
    /\ mode \in {"vpn", "proxy"}
    /\ client \in {0} \cup Conns
    /\ conns \in 0 .. MaxConns
    /\ procs \in 0 .. MaxProcs
    /\ at \in [Threads -> {"idle", "ensure", "spawned", "send", "sent", "await", "dead"}]
    /\ on \in [Threads -> {0} \cup Conns]
    /\ seq \in [Threads -> {0} \cup Seqs]
    /\ pings \in [Conns -> 0 .. MaxPings]
    /\ counter \in [Conns -> {0} \cup Seqs]
    /\ pending \in [Conns -> SUBSET Seqs]
    /\ \A k \in Conns : \A n \in Seqs : box[k][n] \in Seq(BOOLEAN)
    /\ closed \subseteq Conns
    /\ intentional \subseteq Conns
    /\ lost \subseteq Conns
    /\ \A k \in Conns :
          /\ up[k] \in Seq([type : {"connect", "disconnect", "ping", "quit"}, seq : {0} \cup Seqs])
          /\ down[k] \in Seq([seq : Seqs, ok : BOOLEAN])
    /\ peer \in [Conns -> {0} \cup Procs]
    /\ path \in {0} \cup Procs
    /\ host \in [Procs -> {"none", "spawned", "listening", "serving", "starting", "gone"}]
    /\ serves \in [Procs -> {0} \cup Conns]
    /\ eng \subseteq Procs

\* A helper's engine is up, or about to be, but nothing is left to do for its
\* end to come: its connection is closed, or a disconnect or quit is behind
\* every connect it has still to handle.
Doomed(p) ==
    LET k == serves[p] IN
    \/ k \in closed
    \/ \E i \in DOMAIN up[k] :
          /\ up[k][i].type \in {"disconnect", "quit"}
          /\ \A j \in DOMAIN up[k] : up[k][j].type = "connect" => j < i

\* After Stop, whatever it returned (the Manager drops the error), no engine
\* outlives what Stop has already set in motion: a connect that timed out, a
\* late engine, a dropped connection and a helper in between included.
StopSettles ==
    outcome = "stopped" /\ call = "none" =>
        /\ ~ inProc
        /\ \A p \in Procs : p \in eng \/ host[p] = "starting" => Doomed(p)

\* A VPN start that was reported a success has its engine up in the helper,
\* until the connection to it ends.
StartedIsUp ==
    outcome = "started" /\ mode = "vpn" /\ call = "none" /\ app = "up" /\ client \notin closed =>
        host[peer[client]] = "gone" \/ peer[client] \in eng

\* A channel gets one answer; a second send would block its sender for ever.
AnsweredOnce == \A k \in Conns : \A s \in Seqs : Len(box[k][s]) <= 1

\* "Teardown, not loss": closing the runner never signals a loss.
QuitIsNoLoss == lost \cap intentional = {}

\* The bookkeeping of the helper's client: numbers, channels, and how each
\* connection ended.
ClientInv == TypeOK /\ AnsweredOnce /\ QuitIsNoLoss

\* A connection that ends before the app is shut down, dropped by either end,
\* is signalled as lost: the service does not stay Connected over a dead helper.
LossIsSignalled ==
    \A k \in Conns : (k \in closed /\ app = "up") ~> (k \in lost \/ app # "up")

\* "No orphaned root-owned TUN survives the app": once the core is gone, by
\* Close, by exit or by a crash, every helper's engine goes down.
NoOrphanEngine == (app = "gone") ~> (eng = {} /\ \A p \in Procs : host[p] # "starting")

\* A runner call returns, whatever the helper does.
RunnerCallsReturn == call # "none" ~> call = "none"
=============================================================================
