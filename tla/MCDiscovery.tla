---------------------------- MODULE MCDiscovery -----------------------------
(* Instances of Discovery for TLC. *)
EXTENDS Discovery

CONSTANTS m1, m2, m3, e1

\* One event, of one of the listed markets.
OneEvent == [e \in {e1} |-> <<m1>>]
=============================================================================
