------------------------------- MODULE Switch -------------------------------
(***************************************************************************)
(* What the Android host promises about connect and disconnect, whatever   *)
(* services, threads and callbacks are under way: the last word wins.  A   *)
(* disconnect is owed until it is served, and serving it turns the core    *)
(* off; the core comes on only while the last thing asked for was a        *)
(* connect, or while a disconnect that will turn it off again is owed.     *)
(***************************************************************************)
VARIABLES
    want,  \* the last word was not a disconnect
    owed,  \* a disconnect was not served yet
    on     \* the core is connecting or connected

switchVars == <<want, owed, on>>

SwitchInit == want = TRUE /\ owed = FALSE /\ on = FALSE

AskOn    == want' = TRUE /\ UNCHANGED <<owed, on>>
AskOff   == want' = FALSE /\ owed' = TRUE /\ UNCHANGED on
TurnOn   == (want \/ owed) /\ ~ on /\ on' = TRUE /\ UNCHANGED <<want, owed>>
ServeOff == owed /\ owed' \in BOOLEAN /\ on' = FALSE /\ UNCHANGED want
Drop     == on /\ on' = FALSE /\ UNCHANGED <<want, owed>>

SwitchNext == AskOn \/ AskOff \/ TurnOn \/ ServeOff \/ Drop

SwitchSpec == SwitchInit /\ [][SwitchNext]_switchVars

\* Once every disconnect is served and nothing was asked for since, the core is
\* off, and stays off: TurnOn is out of reach.
LastWordWins == ~ want /\ ~ owed => ~ on
=============================================================================
