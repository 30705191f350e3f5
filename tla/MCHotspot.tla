----------------------------- MODULE MCHotspot ------------------------------
(***************************************************************************)
(* Hotspot on small sets of model values.                                  *)
(***************************************************************************)
EXTENDS Hotspot, TLC

Symmetry == Permutations(Checkouts) \cup Permutations(Tries)
              \cup Permutations(Macs) \cup Permutations(Clicks)

\* The behaviours in which nobody buys before the network manager is up.  The
\* run of HotspotFaults has the others, for fewer clients.
DaemonFirstSpec == Init /\ [][Next /\ (NM!Serving \/ UNCHANGED payVars)]_vars

DaemonFirstFairSpec == DaemonFirstSpec /\ Fairness

\* One failure altogether, of whatever kind and wherever it falls.
OneFailure == gatewayFaults + errors + restarts + reboots <= 1

OneFailureSpec == Init /\ [][Next /\ OneFailure']_vars

=============================================================================
