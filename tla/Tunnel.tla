------------------------------- MODULE Tunnel -------------------------------
(***************************************************************************)
(* tunnel.Manager (core/tunnel/manager.go) over the contract of its Runner *)
(* (core/tunnel/runner.go, core/tunnel/helper_client.go), as the VPN       *)
(* service sees it: Start, Stop and Lost, all serialised by m.mu, which is *)
(* held for the whole of a runner call.  A call is therefore two steps,    *)
(* taking the lock and completing, and everything else in the program can  *)
(* run between them.                                                       *)
(*                                                                         *)
(* The runner is described by what a call can do:                          *)
(*   in-process engine  StartOutcomes = {"ok", "fail"}, no loss            *)
(*   privileged helper  StartOutcomes = {"ok", "fail", "failUp"}, losses   *)
(* "failUp" is the start that reports an error although the helper's       *)
(* engine is (or comes) up: its connect response was late.                 *)
(***************************************************************************)
EXTENDS Naturals

CONSTANTS
    Free,           \* the value of mlock when nobody holds m.mu
    None,           \* Go's nil
    StartOutcomes,  \* what runner.Start can do
    MaxLosses       \* bound: helper connections that can die; 0 in-process

ASSUME TunnelAssumption ==
    /\ StartOutcomes \subseteq {"ok", "fail", "failUp"}
    /\ MaxLosses \in Nat

VARIABLES
    mlock,    \* who holds Manager.mu
    profile,  \* Manager.profile: the run that owns the tracked tunnel, or nil
    engine,   \* is a sing-box instance up and routing?
    conn,     \* number of the runner's current helper connection, 0 = none yet
    closed    \* connections whose lost channel has been closed

tunnelVars == <<mlock, profile, engine, conn, closed>>

TunnelInit ==
    /\ mlock = Free
    /\ profile = None
    /\ engine = "down"
    /\ conn = 0
    /\ closed = {}

\* m.mu.Lock(): the first step of Start and of Stop.
Lock(who) ==
    /\ mlock = Free
    /\ mlock' = who
    /\ UNCHANGED <<profile, engine, conn, closed>>

\* Start is refused: by the Manager when it tracks a profile, by the engine
\* (or the helper host) when it is up although no profile is tracked.
AlreadyRunning == profile # None \/ engine = "up"

\* The result Start returns when the runner does o.
StartResult(o) ==
    IF AlreadyRunning THEN "already" ELSE IF o = "ok" THEN "ok" ELSE "fail"

\* The connection the next successful dial gives: ensureHelper keeps a live
\* client and dials a new one when there is none or the last one is closed.
Dialled == IF conn = 0 \/ conn \in closed THEN conn + 1 ELSE conn

\* Manager.Start returns: the profile is tracked only on success.  A failure
\* may have happened before or after the runner dialled the helper.
Start(who, o) ==
    /\ mlock = who
    /\ mlock' = Free
    /\ IF AlreadyRunning
       THEN UNCHANGED <<profile, engine, conn>>
       ELSE /\ profile' = IF o = "ok" THEN who ELSE None
            /\ engine' = IF o = "fail" THEN "down" ELSE "up"
            /\ conn' \in IF o = "fail" THEN {conn, Dialled} ELSE {Dialled}
    /\ UNCHANGED closed

\* Mutant: the runner is only stopped when a profile is tracked.
StopOnlyTracked(who) ==
    /\ mlock = who
    /\ mlock' = Free
    /\ profile' = None
    /\ engine' = IF profile # None THEN "down" ELSE engine
    /\ UNCHANGED <<conn, closed>>

\* Manager.Stop returns: the runner is always stopped and the profile dropped.
Stop(who) ==
    /\ mlock = who
    /\ mlock' = Free
    /\ profile' = None
    /\ engine' = "down"
    /\ UNCHANGED <<conn, closed>>

\* The helper dies, or the keepalive drops it: its engine goes with it and
\* the connection's lost channel closes.
Lose ==
    /\ conn \in (1 .. MaxLosses) \ closed
    /\ closed' = closed \cup {conn}
    /\ engine' = "down"
    /\ UNCHANGED <<mlock, profile, conn>>
=============================================================================
