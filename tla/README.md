# OmniProxy: TLA+ models, checks and proofs

OmniProxy is a VPN/proxy client: a Flutter app over a Go core that drives a
sing-box engine, in process or in a privileged helper. This directory holds
TLA+ models of the core's concurrent and stateful parts, TLC configurations
that check them on small instances, and TLAPS proofs, for every value of the
constants, of every safety property that a passing run checks.

Source paths below are relative to `src/`. `PROJECT.json` holds the same
information for tools: components, runs, the mutant that shows each property
can fail, the source lines behind each definition, findings, hazards, theorems.

## 1. Inventory

| Component | State | Operations | Interacts with |
|---|---|---|---|
| VPN service (`core/vpn/service.go`, `core/models/session.go`) | state, session, active run, auto flag; per run: command channel, context, attempt counter | Connect, Disconnect, Reconnect, SetAutoReconnect, the run loop | drives the tunnel manager, publishes `stateChanged`, asked by the facade (`RunningTo`) |
| Tunnel manager (`core/tunnel/manager.go`) | tracked profile and mode, log level, IPv6 mode, cache path | Start, Stop, Lost, setters | called by the service's loops and callers; one lock held over a whole runner call |
| Runners (`core/tunnel/runner.go`, `helper_client.go`) | in-process engine; helper client, helper process | Start, Stop, Lost, Close | helper over a Unix socket |
| Helper host (`core/tunnel/helperhost`) | engine, served connection | connect, disconnect, ping, quit | the client; one connection per process |
| Engine (`engine/`) | the box, platform interface, file descriptor, network monitor | Start, Close, platform callbacks | sing-box (external) |
| Server manager and repository (`core/server`, `core/store`) | rows in SQLite, credentials in the secret store | create, update, delete, list, duplicate, latency, import, export | secret store, redactor |
| Config engine and data key (`core/config`, `core/secret`) | sealed settings file, data key | load, recover, update, legacy migration | secret store, file system |
| Facade and API (`core/core.go`, `core/api`) | subscription, event set, sink | dispatch of the contract's methods, Close | everything above |
| Logging (`core/log`, `core/internal/ring`) | ring of entries, redaction list, sinks | Log, Since, Add | event bus |
| Bridges (`core/glue`, `core/mobile`) | the core handle, event ring, TUN descriptor | init, call, poll events, shutdown | app, facade |
| Flutter app (`app/lib`) | providers, notifiers, polling timers | user actions, event handling | bridges |
| Android host (`app/android`, `core/mobile`, `engine/platform_fd.go`) | two services, consent dialog, pending connect, disconnect count and generation, executor queue, TUN descriptor | connect, disconnect, consent, start and destroy of services, revoke | the system's activity manager, mobile bridge |
| Desktop runners (`app/linux`, `app/windows`) | window | window life cycle | Flutter embedder |

### What is hard, and what correctness means

* **VPN service.** One goroutine per connect, callers that time out and give up
  on it, and a tunnel call that holds a lock for up to 30 s. A loop may wake up
  after its session was replaced. Correct means: a busy state always has a live
  loop that will end it; a session's history agrees with the state and is never
  touched after its end; no engine routes traffic under an idle service; retries
  end; every call returns; the events published last agree with the state.
* **Helper.** Three goroutines per connection and another process that may
  hang, crash, answer late or not at all. Correct means: Stop leaves no engine
  that nothing will end; a reported start is up; a channel is answered once; a
  death is told from a quit; no privileged engine outlives the app.
* **Server profiles.** Two stores without a common transaction. Correct means:
  what was acknowledged reads back after failures and deaths elsewhere; no
  credential is left without an owner by an update or delete that worked; a
  read-modify-write of a whole profile changes only the column it is about, at
  every one of its accesses.
* **Startup.** A key, a file and a database that earlier lives of the process
  left in any intermediate state. Correct means: acknowledged settings survive;
  damage does not stop the start; a corrupt file is kept; a migration happens
  once.
* **Android host.** A connect goes through a dialog, a service start, a thread
  that establishes the TUN and an executor; a disconnect, a revoke or a kill of
  the service can come between any two of them. Correct means: the last word
  wins; a disconnect takes effect for good and leaves no TUN with anyone; a channel result is answered at
  most once.
* **Engine options, links, envelopes.** Two long field lists kept in step by
  hand, and a configuration whose rules depend on each other's order. Correct
  means: no traffic passes the proxy by, the proxy's own name is not looked up
  through the proxy, IPv6 stays off where it is disabled, an import accounts for every item, and a profile that goes out and comes back
  is not weaker than before.
* **Events and logs.** A lossy ring, polling, requests and events that overtake
  each other. Correct means: the screen ends up showing the state; the log is in
  order, without duplicates, and what was cleared stays so.

`PROJECT.json` lists 40 places in the code where these can go wrong ("hazards"),
each with the properties that watch it.

## 2. Modules and the code they model

| Module | Models | Composition |
|---|---|---|
| `ConnectionFsm` | the five connection states and their legal moves (abstract) | implemented by `VpnService` |
| `Tunnel` | `tunnel.Manager` and the contract of its `Runner` | extended by `VpnService` |
| `VpnService` | `vpn.Service`: run loop, callers, sessions, events | extends `Tunnel`; `FollowsFsm` instantiates `ConnectionFsm` |
| `MCVpnService` | the symmetry set of the model-checking runs | extends `VpnService` |
| `VpnServiceProof` | theorems for any callers | extends `VpnService`, `TLAPS` |
| `VpnProgramProof` | theorems for one caller at a time: `ConnectionFsm`, and the agreement of service and tunnel | extends `VpnServiceProof` |
| `Helper` | `HelperRunner`, `helperClient`, `helperhost` | stands alone; refines what `Tunnel` calls `failUp` and `Lose` |
| `HelperProof` | theorems for any number of calls, connections, processes and pings | extends `Helper`, `TLAPS` |
| `ServerStore` | repository, server manager, the facade's guards | extended by `Startup` |
| `ServerStoreProof` | theorems for any number of requests, failures and deaths | extends `ServerStore`, `TLAPS` |
| `Startup` | `core.New`, config engine, data key, migration | extends `ServerStore` |
| `StartupProof` | theorems for any number of starts, damages, failures and deaths | extends `Startup`, `ServerStoreProof` |
| `Events` | logger, event bus and ring, transports, two notifiers | stands alone |
| `EventsProof` | theorems for any number of writers, entries and pulls and any capacity | extends `Events`, `TLAPS` |
| `Profiles` | a server profile and `ServerProfile.Validate` (`core/models`) | extended by the next two |
| `EngineOptions` | `BuildEngineOptions`, `engine/config.go`, and what sing-box makes of the result (external) | extends `Profiles` |
| `ShareLinks` | `linkgen.go` and `links.go`: links in both directions | extends `Profiles` |
| `Exchange` | the form, export, the text outside, import | extends `EngineOptions`, `ShareLinks` |
| `ExchangeProof` | theorems for any number of changes, and for every valid profile | extends `Exchange`, `TLAPS` |
| `Switch` | what the Android host promises: the last word wins (abstract) | implemented by `AndroidHost` |
| `AndroidHost` | `MainActivity`, `Bridge`, both services, `core/mobile`, the way of the TUN descriptor | `ImplementsSwitch` instantiates `Switch` |
| `AndroidHostProof` | theorems for any number of taps, faults and threads | extends `AndroidHost`, `TLAPS` |

**Grain of atomicity.** In `VpnService` a step is one critical section of
`s.mu`, one receive from a `select`, one publication of an event (`emitState`
runs outside the lock) or one half of a tunnel call: taking `m.mu`, and the
return of the call. `pc[r]` names the next statement of run `r`'s `runLoop`,
`cpc[c]` that of a caller in a public method. A `runState` is a member of `Runs`
and is used once, so `Runs` bounds the number of connects. A session is the
session of its run: `last` is the end of its `StatusHistory`, `ended` its
`EndedAt`. In `Helper` a step is a critical section of `c.mu`, a write to the
socket, one message read, or one message handled by the host. In `ServerStore`
and `Startup` a step is one access to SQLite, to the secret store or to the
settings file. In `Events` a step is one critical section of the log ring, the
event ring or the facade, one poll, or one message handled by the Dart isolate.
In `AndroidHost` a step is one callback of the main thread (which runs to its
end), one call of a start's thread, one task of the executor or one move of the
system or the engine. The executor's connect is two steps: `Bridge` compares the
generation, and then calls the core. In `Exchange` a step is one request of the
facade or one change that a user makes to a form or a text.

**Android.** A connect is known by the number of its tap, which also names its
channel result, thread, descriptor and service instance. `am` and `sys` are the
activity manager: what it believes, and the messages it has sent to the main
thread. `am.iface` is the TUN interface, which goes away (`InterfaceRemoved`)
once no descriptor is open: the service's, or the engine's duplicate
(`engineFd`, `engine/platform_fd.go`). A bound `VpnService` outlives `stopService`
until then. The core is its state, off, starting or on: `VpnService` has the
steps behind it. `over` is a history variable: a disconnect, a revoke or the
end of the VPN service came after the last tap on Connect.

**Events.** A message is its type with an interval of log entries, above `lo` up
to `n`: the logger numbers entries without gaps, so a page of `GetLogs` and the
single entry of an event are both intervals. For an event of the state `n` counts
the changes of state.

**Profiles and links.** A profile is a record of the fields that the engine or a
link can tell apart, each with two or three values: absent, ordinary and, where
the code treats one specially, that one. A share link is a record of what its
writer puts into it; reading it (`ParseLink`) applies the parser's defaults and
fallbacks. Percent- and base64-encoding are left out where reading undoes
writing. The text outside and the last
import are functions from places in the text to items and to the profiles made of
them, so that an item that is refused leaves its place empty and the count of
places is what the report must account for. `EngineOptions!Config` is the sing-box configuration as a record of
inbound, outbounds, rules in their order and DNS servers; `Verdict`, `Exits` and
`Resolver` are sing-box's documented use of it.

**Time.** `VpnService` has no clock; the constant `Timing` says what a
timeout may race with. `"fast"`: runner calls end within `disconnectTimeout`.
`"slow"`: a call may outlast it, and is then still in flight when the caller
acts. `"race"`: it may also return at that very moment. `"any"`: any goroutine
may be delayed past it. A timeout on a loop that is parked for good can always
expire. In `Helper` a timeout may expire whenever the answer is not there.

**Data left out.** Error classes and texts, backoff durations, timestamps, the
columns of a profile other than those a property tells apart (a body, one flag,
one latency column, credentials by name), the log's text and level, the content
of settings. Encryption is which key opens what. Calls that change nothing
(ErrBusy, unknown server, invalid profile) are no steps.

**Who calls.** Both bridges hold one mutex around a request, so the program has
one caller (`Callers` is a singleton in the runs, with the exception of
`VpnSession`); `VpnServiceProof`
holds for any number. `Reconnect` is not among the API's methods and is called by
tests only; it is modelled because the run loop handles it. `SetFavorite` and
`SetEnabled` are not exposed either (the UI updates the whole profile);
`ServerStore` models them as `toggle`.

**Between the modules.** `Tunnel` takes the runner's `Stop` to succeed.
`Helper` studies the one that fails: `StopSettles` shows that after a `Stop`
that returned, with or without an error, every helper engine is already bound to
end. `Exchange` takes the repository to be the sequence of its profiles;
`ServerStore` has the accesses behind each change and their failures. `helperClient.running` is left out: nothing reads it but `Running`.

## 3. Runs

`tlc -workers 2 -config <run>.cfg <module>`; each ends within three minutes.

| Run | Module | States | What it shows |
|---|---|---|---|
| `VpnTunnel` | `MCVpnService` | 317 k | tunnel and service agree: no engine under an idle service, dark backoff, Connected is up, Disconnect settles, the last event is current, RunningTo is exact, replaced loops keep off; the service implements `ConnectionFsm` |
| `VpnSession` | `MCVpnService` | 2.1 M | the inductive invariant and the session history with two concurrent callers and every goroutine delayed at will |
| `VpnLiveness` | `MCVpnService` | 17 k | calls return, dialling and its retries end |
| `HelperStop` | `Helper` | 1.27 M | Stop, Start, answers and losses with crashes, hangs and timeouts at any moment |
| `HelperLiveness` | `Helper` | 15 k | losses are signalled, no engine outlives the app, runner calls return |
| `StoreFaults` | `ServerStore` | 1.08 M | acknowledged changes, ownership of credentials, whole-profile writes, under failures and deaths |
| `StartupRestarts` | `Startup` | 574 k | three lives of the process with damage in between; acknowledged settings survive; legacy servers are not overwritten unmigrated |
| `EventsDelivery` | `Events` | 791 k | the screen catches up; the log is in order and stays cleared |
| `ServerExchange` | `Exchange` | 220 k | what the engine does for every storable profile; what imports report; what links keep |
| `AndroidLifecycle` | `AndroidHost` | 602 k | the host implements `Switch`; disconnects take effect and release the TUN; no result is answered twice |

Each component's type invariant is checked as part of one invariant that also
has what the type is needed for: `IInv` (`VpnService`), `ClientInv` (`Helper`:
each channel answered once, a quit is no loss), `StoreInv` (`AckedReadsBack`:
what was acknowledged reads back), `StartupInv` (`SettingsSurvive`),
`LogInv` (`ShownInOrder`), `ImportInv` (`ImportAccountsForAll`) and `HostOK`
(`AndroidHost`: each result answered at most once).

Two more runs end in a counterexample, where the code does something other
than what it says of itself (section 6): `VpnLateStart`, `StartupMigration`.

### Bounds

* `VpnTunnel`: two connects (one to be replaced by the other), one retry, two
  losses, all three outcomes of a start (in-process runners show two of them and
  no loss, a subset), auto-reconnect switched at will, `Timing = "slow"`. A third connect adds nothing: a loop
  only ever competes with its successor, and the callers are serial.
* `VpnSession`: two callers, two connects, one retry, `Timing = "any"`. A loss
  takes the loop where a failed start takes it, and `"failUp"` differs from
  `"fail"` in the engine only, which these properties do not look at. Two callers
  reach what one cannot: a Connect that loses to another one.
* `VpnLiveness`: one connect with two attempts, two losses, and all commands, so
  that a command can find the channel full. With two losses the attempt counter
  is reset between two series of retries. Without symmetry, as liveness demands.
* `HelperStop`: three runner calls over two connections and two processes:
  start, stop, start again over the old or a new helper. `HelperLiveness`: two
  calls over one; what it states is about a single connection.
* `StoreFaults`: two servers, two credentials with two values, three requests,
  one failing access, one death. Three requests make create, change, change
  again or delete; one failure and one death in either order give every
  half-finished state a chance to meet a later request. `AddServer` takes any of
  the ids, as `Create` does: a fresh one, that of a stored server, of a deleted
  one, or of the one in use.
* `StartupRestarts`: one legacy server, three starts, two failures, two deaths,
  two damages, two values of the settings.
* `EventsDelivery`: two writers, ring, log ring and log screen of two, pages of
  one entry, three entries, two pulls, two changes of state on the desktop. On
  Android no state changes (`MaxAndroidStates = 0`): what `UiCatchesUp`
  says is about the desktop, and the log properties need log entries.
  Every capacity is reached and exceeded.
* `ServerExchange`: a form that starts from any protocol (or an unknown one), at
  most one server stored before, and two changes, each to a field of the form or
  to the exported text. Two is what the code's fallbacks need (a TLS setting
  together with a transport, a name with a security), and the templates with TLS
  over WebSocket reach the combinations of three and four that it treats
  specially. Every property of the engine's options is evaluated for both modes
  and every IPv6 mode.
* `AndroidLifecycle`: two connects and two disconnects in either mode, two
  faults. A connect can be overtaken by a disconnect, that by the other connect,
  and that by the other disconnect, with a revoke or a kill at any moment of it.
  With a third tap the code itself can throw and end the process (section 6).

`CHECK_DEADLOCK FALSE` stands where a system may really stop: after the app has
gone (`Helper`), when a bounded number of requests has been made
(`ServerStore`, `Startup`, `Events`, `Exchange`, `AndroidHost`). The service's runs check for deadlock.

### Fairness

* `VpnService!Fairness`: goroutines run and runner calls return (weak fairness of
  each loop's and caller's steps that do not wait for `m.mu`, timeouts included;
  the helper client bounds each call by 30 s, the in-process engine by its start
  timeout). `m.mu` is a Go mutex, which hands over to a starving waiter after
  1 ms: strong fairness of the steps that take it. Nobody has to call anything,
  and no tunnel need be lost.
* `Helper!Fairness`: the runner's goroutines, each connection's reader, and the
  host's handling of messages are scheduled; requests have timeouts in the code.
  Nobody has to make a call; a helper need not crash.
* `Events!FairSpec`: goroutines and threads run on, the poll timer fires, the
  main looper moves. No user action and no state change is fair.
* `AndroidHost!FairSpec`: each thread runs, the main looper and the executor take
  what is queued, the system removes an interface without descriptors, and a
  start of the engine comes to an end, up or given up (it has a timeout and a limit
  of attempts; which of the two is not fair). Nobody has to
  tap anything, answer a dialog, revoke or kill.

### Mutants

Every property of a passing run has a mutant in the module it is about: an
operator with the comment "Mutant", defined before the definition it replaces,
which changes it as a plausible mistake in the code would (a dropped check, a
missing reset, a swapped order). TLC finds the property violated with it.

## 4. Proofs

Eight modules hold theorems, for every value of the constants that the `ASSUME`s
allow: any number of runs, callers, taps, requests, connections, entries, failures
and deaths, any capacity, any set of servers, credentials or settings. The
bounds of section 3 play no part in them. A property of a run is proved as a
consequence of the module's inductive invariant (in parentheses: the property).
`IInv` is itself an invariant of a run, and so are the parts of the others that
are properties of their own.

| Module | Inductive invariant | Theorems |
|---|---|---|
| `VpnServiceProof` | `IInv` | `Invariance`, `TypeCorrect`, `NeverStuckBusy` (`BusyHasLiveLoop`), `EndedSessionsAreFrozen` (`SessionFrozen`) |
| `VpnProgramProof` | `SInv`; `TInv` | `RunningToExact` (`RunningToIsExact`), `ImplementsFsm` (`FollowsFsm`); `TunnelIsSound`, `NoTunnelIsOrphaned` (`NoOrphanTunnel`), `BackoffIsAlwaysDark` (`BackoffIsDark`), `ConnectedIsAlwaysUp` (`ConnectedIsUp`), `DisconnectAlwaysSettles` (`DisconnectSettles`), `UiIsAlwaysCurrent` (`UiIsCurrent`), `ReplacedRunsKeepOff` (`StaleRunsKeepOff`) |
| `HelperProof` | `ShapeInv`; `ShapeInv /\ LifeInv` | `BooksAreSound`, `ClientIsSound` (`ClientInv`); `EnginesAreInOrder`, `StopAlwaysSettles` (`StopSettles`), `StartedEngineIsUp` (`StartedIsUp`) |
| `ServerStoreProof` | `TypeInv`; `SInv` | `StoreTypes`; `AcknowledgedIsDurable` (`StoreInv`), `NoStraySecrets` (`SecretsAreOwned`), `ColumnsAreKept` (`OnlyItsColumn`) |
| `StartupProof` | `CoreInv`; `StartInv` | `SettingsAreSafe` (`StartupInv`), `StartupSurvivesDamage` (`DamageDoesNotStopStartup`), `UnreadableIsKept` (`UnreadableIsBackedUp`); `LegacyServersSurvive` (`LegacyIsNotLost`) |
| `EventsProof` | `EInv` | `LogIsInOrder` (`LogInv`), `ClearedNeverReturn` (`ClearedStayGone`) |
| `ExchangeProof` | `ExInv`; `ExInv /\ LinkInv` | `ImportsAccount` (`ImportInv`), `NothingBypasses` (`NoBypass`), `Ipv6IsOff` (`Ipv6StaysOff`); `LinksNeverWeaken` (`NeverWeakened`), `AcceptedLinksReturn` (`AcceptedLinksRoundTrip`) |
| `AndroidHostProof` | `HostInv`; `TypeInv`, `TunInv`, `ReleaseInv`, `ResultInv` | `Invariance`, `HostImplementsSwitch` (`ImplementsSwitch`), `TheLastWordWins`; `HeldIsTracked` (`HeldTunIsTracked`), `TunIsReleased` (`DisconnectReleasesTun`), `AnsweredAtMostOnce` (`HostOK`) |

### Assumptions

The constants have their types (numbers, subsets of the named alternatives), and
values that mark an absence differ from what may be present: `None` is no run and
no command, `Free` no goroutine (`VpnService`); `None` is no id, credential, body,
profile or row (`ServerStore`); no mark of a missing or broken key or file is a
key or a sealed file (`Startup`). `StartupAssumption` also says that the servers
of the old build are servers with credentials where their profile needs them. TLC
evaluates all of them in every run.

Some theorems have hypotheses besides, each a fact about the program:

* `OneCaller` (`VpnProgramProof`, the second half of `ServerStoreProof`): requests
  come one at a time, because both bridges hold a mutex around a request. Without
  it the theorems are false: `Disconnect` reads and resets an error in two critical
  sections (`core/vpn/service.go:227`), and an Update can undo a Delete (section 6).
* `"reconnect" \notin Ops` (second part of `VpnProgramProof`): Reconnect is not a
  method of the API.
* `Timing \in {"fast", "slow"}` (second part of `VpnProgramProof`): a runner call may
  outlast its caller's timeout, but does not return in the moment between the
  timeout and the forced end. Without it they are false, which is what the run
  `VpnLateStart` shows.

### The arguments

**Service** (`VpnServiceProof`). `BusyHasLiveLoop` is not inductive. A loop's own
exit (`Finish`) clears `active` without looking at the state, so one needs that a
live loop on its way out has left the busy states (`ExitingRunIsIdle`). That in
turn needs that the loop is the one the service has recorded (`LiveRunIsCurrent`),
that a launch cannot move someone else's loop back to its start (`LaunchesAreOwn`),
and that waiting callers hold a run (`CallersHoldRuns`). `SessionFrozen` needs
`EndedRunIsOut`: a run whose session has ended is replaced or past the last
statement that writes to it. `IInv` is the conjunction of these with `TypeOK`;
`VpnSession` checks it.

**State machine** (`VpnProgramProof`, first part, any timing). `SInv` adds: a
history that says running is the live one's (`HistoryIsHonest`); a live loop not on
its way out works for a busy service (`WorkingRunIsBusy`) and is not connected while
it dials (`DiallingIsPending`), so that each transition starts from a state the
machine allows; the error a Disconnect is about to reset is still there
(`ResetIsDue`).

**Service and tunnel** (second part). The properties of a tunnel are about who may
hold it. `TInv` says that the manager's lock is held by whoever is inside a call
(`LockIsHeld`); that a replaced loop makes no tunnel call, unless it was given up on
inside one and the forced Stop waits behind it (`StaleRunIsWaitedFor`); that the
live loop has not returned (`LiveRunIsAlive`); what a call in progress knows of it (`CallerKnows`), above all
that a caller that gives up finds the loop inside the tunnel call that outlasted
it; that a loop is only ended because someone waits for it (`EndIsAskedFor`). From these
follows that the tunnel is dark except where the live loop may have it up or a
forced Stop is due (`DarkOtherwise`), from which the tunnel properties are read
off. `EventsAreTrue` and `EventIsDue` do the same for the screen: the event a loop
is about to publish is the service's state, and an outdated screen has one due.

**Helper.** Two layers. `BookInv` is the client's bookkeeping: numbers of requests
are fresh, a channel is empty until its one answer, an answer's number was asked
for on that connection; `HelperShape` says which process serves which connection,
and that only a serving process has an engine. `LifeInv` is about the order on the
wire: at most the runner's client is open (`OneClient`); outside of a start every
engine, and every connect still in a queue, has a disconnect, a quit or the end of
its connection behind it (`SettleInv`); a start that is waiting has asked last, and
a positive answer means that its engine is up with no disconnect behind it
(`StartInv`). A late answer and a helper that is given up are what make the
second layer necessary: neither property mentions queues.

**Stores.** `TypeInv` has the shape of a request at each of its steps and holds for
any callers. `SInv` adds what a request has read and what of its change is already in
the stores (`RequestsFit`), and states the two durable properties for servers that no
request is writing (`QuietReadsBack`, `QuietIsOwned`): a request makes its change in
several accesses to two stores, and may fail or die between any two of them. A
server added over a stored id is such a request like the others, except that it has
not read the row it replaces (`AddFits`). `OnlyItsColumn` follows step by step: the
credentials a toggle writes are the ones it read (`ReadIsStored`,
`RewriteIsSilent`), and its upsert sets the one column (`UpsertSetsColumn`).

**Startup.** `CoreInv` adds to the types that keys are numbered as they are made and
the engine uses the stored one (`KeysAreKnown`), and what each phase of `core.New`
has found (`PhaseFits`). `LegacyInv` speaks of starts whose file still holds the
old build's servers: each is settled (migrated, or replaced by a server that a caller
added under its id), or as the old build left it and taken care of by this start, unless an access failed or the file does not open. Callers may be any
number.

**Events.** `EInv` adds to `TypeOK` and `ShownInOrder` that what was cleared is at or
below the watermark and below everything shown (`ClearedIsPassed`).

**Exchange.** `ExInv` types form, stores and text; the rest is about operators. What
the engine is told depends on `Valid` alone, so `NoBypass` and `Ipv6StaysOff` rest on
lemmas about any profile that passes `Validate`, with any name, address, port or
credential, on where the rules stand (`RulesAre`) and what they match (`VerdictIs`:
a rule for DNS matches nothing without a rule that sniffs), and on who asks which DNS
server (`ResolverIs`). The two
theorems about links need `LinkInv`: an untouched text holds links and envelopes of
stored servers (`TextIsExport`), a stored link is a profile that a link can hold
(`LinksAreRead`, `FromLink`), and what came in of an untouched text is as safe as one
of the servers (`InboxIsNotWeaker`). Its steps but the import's only carry it along;
the import follows a link through four groups of lemmas: what each parser reads
(`VLessRead`, `VMessRead`, ...), what each writer writes (`LinkIs`), what a profile
dials with (`AlikeDial`, `DialsWith`) and, put together for each protocol,
`RoundTrip` and `LinkIsSafe`.

**Android.** `HostInv` says that a generation is never ahead of the count
(`Counters`), that no queued connect carries a generation ahead of the last intent
(`ConnectsFollowIntent`), and that the connect that has passed the comparison is
still wanted or has a disconnect queued behind it (`CallIsWanted`): the executor
calls the core in another step than the one that compared, and any number of taps
may come in between. `Switch` is then implemented with `want` as
`connectGeneration = disconnectCount`, `owed` as a queued disconnect, and `on` as a
core that is not off. For the TUN, `TunInv` says that the messages under way lead
from the instance that the app has to the one the system believes in
(`OrderOfLives`, by a chain of lives), so that threads and TUNs are the current
instance's. `ReleaseInv` says that once a connection is over whoever holds a TUN can
name who takes it away: a task, a callback, a thread or the system. `ResultInv` says
that a channel result is in one place at a time, the answered ones included.

### Only model-checked

* Liveness (`CallsReturn`, `RetriesEnd`, `LossIsSignalled`, `NoOrphanEngine`,
  `RunnerCallsReturn`, `UiCatchesUp`, `DisconnectTakesEffect`): TLAPS handles neither
  fairness nor `ENABLED`.

No module declares a RECURSIVE operator.

## 5. Plan

Done: all modules of section 2, and the proofs of section 4. Next, in this order:

1. **Network monitor** (`engine/platform_monitor.go`, `platform_fd.go`,
   `syncDefaultInterface`): snapshots that overtake updates.
2. **Server and settings notifiers, selection, tray** (`app/lib/state`,
   `app/lib/services`): optimistic updates, refreshes that overtake each other,
   quick connect against a selection that was deleted.
3. **Bridges' life cycle** (`core/glue`, `core/mobile`, `app/lib/core/bridge`):
   init, shutdown and requests in flight.

A new component gets one passing run; the questions it asks of one instance share
that run, as those of `EventsDelivery` do.

## 6. Where the code and what it says disagree

Recorded by a run:

* `VpnLateStart`: a loop that still waits for the manager's lock when it is
  force-disconnected gets it after the forced Stop, starts the tunnel, finds that
  it is not active and leaves it up (`core/vpn/service.go:486`, `:282`), against
  `core/tunnel/manager.go:82-84`.
* `StartupMigration`: every start migrates the legacy servers again until the
  settings are saved, over edits and deletions (`core/core.go:114`), against
  "one-time migration" (`core/config/engine.go:111-112`).

Seen while modelling, and the reason why some properties are stated with a
condition:

* A request is sent to the helper before its channel is registered
  (`core/tunnel/helper_client.go:371`, `:347`); an answer in between is dropped
  and the requester waits for its whole timeout. `Helper` models the race;
  `RunnerCallsReturn` says that the timeout ends it.
* A live entry moves the log screen's watermark past entries it never got, and no
  refresh brings them (`app/lib/state/providers.dart:212`, against `:223-224`).
  `ShownInOrder` therefore speaks of order and duplicates, not of gaps.
* A Disconnect queued while the last start fails for good is never read, and is
  answered with `error` (`core/vpn/service.go:299`; `docs/api-contract.md:153`).
  `DisconnectSettles` therefore admits `error`.
* A Reconnect sent to a loop that is already exiting is answered with success and
  lost (`core/vpn/service.go:266`). No method of the API leads there.
* `UpdateSettings` takes the tunnel manager's lock (`core/core.go:374`), which a
  slow start holds for up to 30 s; the bridge's own mutex keeps every other
  request waiting as long.
* A second helper started at the same time removes the first one's socket file
  (`core/tunnel/helperhost/helperhost.go:31`).
* `stopIfActive` checks and stops in two steps (`core/vpn/service.go:439`), and
  the reconnect case restarts without a check (`:324`). Both need a runner call
  that returns at the moment the caller acts on its timeout;
  `StaleRunsKeepOff` and `DisconnectSettles` hold under `Timing = "slow"`.
* Android: a tap on Connect in proxy mode after the core has stopped and before
  `stopConnectionHosts` runs starts the proxy service once more behind the flag that
  is then cleared; its `onStartCommand` sets the flag again, and the destroy, which is
  the tail of a clean disconnect, takes itself for a kill and disconnects the core
  (`VpnProxyService.kt:41-46`, against `MainActivity.kt:105-107`). `Switch` takes such
  a disconnect for the last word.
* An event of a force-disconnected loop can be published after those of the next
  session (`core/vpn/service.go:417`); `UiIsCurrent` speaks of histories without
  a cancelled loop.
* After the keepalive dropped a hung helper, the next operation dials the hung
  process's own socket (`core/tunnel/helper_client.go:199`, against `:37-39`).
* Delete discards the secret store's errors (`core/store/server_repository.go:181`,
  against `core/server/manager.go:78`); `SecretsAreOwned` excepts servers of
  which an access failed.
* Direct concurrent users of the repository can see an Update undo a Delete
  (`core/store/server_repository.go:144`, against `:80-81`); the bridges
  serialise requests, so the program does not.
* A duplicate keeps `Enabled` (`core/server/manager.go:118`, against `:111-112`).
* An invalid data key is deleted and the call fails (`core/secret/crypto.go:41`,
  against `:27-28`); `core.New` calls twice and so survives, which is what
  `DamageDoesNotStopStartup` checks.
* A failed save leaves the new settings in memory (`core/config/engine.go:195`,
  against `:92-93`): `GetSettings` returns them and the next `Connect` takes its mode
  from them (`core/core.go:331-333`), while file and tunnel manager keep the old ones.
* The persisted `ipv6Mode` and log level do not reach the tunnel manager and the
  logger at startup (`core/core.go:132-138`, `:373-375`, against
  `docs/platform-notes.md:28-30`, `core/models/settings.go:60-61`): after a restart a
  tunnel runs with the defaults until settings are updated. `StartupInv` therefore
  speaks of the file, and no property of which settings are in force;
  `Ipv6StaysOff` speaks of an engine that was started with IPv6 disabled.
* `addServer` keeps an id that the caller supplies and replaces the stored server of
  that id (`core/store/server_repository.go:109`, `:256`), even the one the tunnel
  runs with, which `updateServer` refuses (`core/core.go:255-258`;
  `docs/api-contract.md:24` says "generated by core on add", `:145` "id optional"). The
  credentials that only the old row named stay in the secret store. `AddServer` of
  `ServerStore` does all this; what was added still reads back, `SecretsAreOwned`
  excepts such servers, and nothing is claimed of the profile of a running session.
  The app's own form sends no id for a new server.
* The hijack of DNS never happens: `dnsHijackRule` (`engine/config.go:540-554`) matches
  the protocol `dns`, which sing-box knows only of sniffed connections, and
  `buildOptions` writes no rule that sniffs (`docs/platform-notes.md:20` leaves it to
  a later phase). A client's queries go to the proxy like all its traffic, which is what
  the comment at `engine/config.go:196-201` wants to avoid, and with IPv6 disabled
  nobody answers AAAA queries with "empty NOERROR replies"
  (`core/models/settings.go:60`). `Matches` models the missing rule; `NoBypass` and
  `Ipv6StaysOff` hold all the same, and claim nothing of who answers a query.
* Share links: "Every output round-trips through ParseLink"
  (`core/server/linkgen.go:18`). Lost are VMess `AuthenticatedLength` (the link has
  it, `newProfile` at `links.go:382-393` does not copy it), a password without a
  user name (`linkgen.go:177`), the TLS settings of an HTTP proxy, WebSocket early
  data, and a `+` in a name (`links.go:452`); an IPv6 Shadowsocks host is written
  and refused (`links.go:272`); Trojan without TLS comes back with it; VLESS and
  VMess take the WebSocket host for a missing server name. `NeverWeakened` says
  what none of these does; `AcceptedLinksRoundTrip` starts from links that were
  accepted.
* Android: `result!!` (`MainActivity.kt:134`) throws when a third tap finds its
  slot taken after a revoke, which ends the app's process and is left out; a start
  may take the slot of another tap, whose own result is then never answered. `AnsweredOnce` says at most once, with two taps.
* Android: a core that refuses a connect (`ok: false`) does not run `onError`
  (`Bridge.kt:281`), so TUN and services stay up until the next disconnect; so does
  the proxy service when its connect was overtaken. `HeldTunIsTracked` says that
  the next disconnect still finds the TUN.
* Android: a second start of the same service instance (connecting again over an
  Error, or twice in a row) overwrites `tunPfd` (`OmniProxyVpnService.kt:145`, against
  `:53-54` "so a disconnect can always release it"). With two threads that claim in
  the other order than they established, the descriptor written over is that of the
  interface in use, and nobody closes it: adding `am.iface = 0` to
  `DisconnectTakesEffect` makes TLC show it. The property therefore speaks of the
  descriptors that the services have.
* Android: `ExecDisconnect` takes the core at its word that a disconnect which
  returned has stopped the engine; `VpnLateStart` shows the case in which it has not.
* Android: a thread of a torn-down, still bound service is
  turned away without an answer; a late thread can queue its connect under the
  generation of a newer intent (`Bridge.kt:289`, against `:70-73`), which then gets the old start's
  tunnel. `Switch` allows that: a connect was the last word.
* `docs/platform-notes.md:19` says that the Android interface monitor "never emits
  updates"; `engine/platform_monitor.go:90` does. `Initialize`
  (`engine/platform_fd.go:40-54`) hands it a snapshot that a concurrent
  `UpdateDefaultInterface` may have replaced already.
* On Android the first snapshot can be overtaken by newer events
  (`app/lib/state/providers.dart:142`), and a burst of log events can push the
  last `stateChanged` out of the ring (`core/glue/glue.go:43-46`); `UiCatchesUp`
  speaks of the desktop and of histories without such a drop.

## 7. Not modelled

* The network monitor, the notifiers of servers and settings, the tray and the
  bridges' init and shutdown: planned.
* Death of the app's process on Android: the system closes its descriptors and
  removes its services with it; what is durable is `Startup`'s and `ServerStore`'s.
* A start of the VPN service without a request (`OmniProxyVpnService.kt:62-66`):
  nothing in the app sends one, and the services are not restarted by the system
  (`START_NOT_STICKY`). Its `stopSelf` would do to a running instance what
  `KillService` does.
* Redactor and API dispatch: string handling, and a table without state.
* The Android keystore, sing-box, the operating system's keyring, SQLite:
  external, modelled by what the code relies on.
* Screens, layout and desktop window runners: no logic of the program's own.
