--------------------------- MODULE ConnectionFsm ---------------------------
(***************************************************************************)
(* The connection state machine a client of the core observes: the five    *)
(* states of core/models/session.go and the edges between them.            *)
(* docs/VPN_INTERNALS.md (section 7.2) and docs/FLOWCHARTS.md draw the     *)
(* same diagram; LostForGood is the one edge the code has and they lack.   *)
(* VpnService is shown to implement this module.                           *)
(***************************************************************************)

States == {"disconnected", "connecting", "connected", "reconnecting", "error"}

\* The states in which Connect answers ErrBusy and a session is Running().
Busy == {"connecting", "connected", "reconnecting"}

VARIABLE state

Init == state = "disconnected"

Move(from, to) == state \in from /\ state' = to

\* Service.Connect, from idle or after a failure.
Connect == Move({"disconnected", "error"}, "connecting")

\* tunnel.Start succeeded, for the first time or on a retry.
Established == Move({"connecting", "reconnecting"}, "connected")

\* A failed start, a lost tunnel or a Reconnect command: try again.
Retry == Move(Busy, "reconnecting")

\* Out of attempts before the tunnel came up.
GiveUp == Move({"connecting", "reconnecting"}, "error")

\* A tunnel that was up is lost and no retry is left.
LostForGood == Move({"connected"}, "error")

\* Disconnect, or the reset of a stale error.
Disconnect == Move(Busy \cup {"error"}, "disconnected")

Next == Connect \/ Established \/ Retry \/ GiveUp \/ LostForGood \/ Disconnect

Spec == Init /\ [][Next]_state
=============================================================================
