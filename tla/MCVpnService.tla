---------------------------- MODULE MCVpnService ----------------------------
(* The VPN service on small instances: runs and callers are model values.  *)
EXTENDS VpnService, TLC

\* Runs are interchangeable, and so are callers.
Symmetry == Permutations(Runs) \cup Permutations(Callers)
=============================================================================
