---------------------------- MODULE MCCatalogue -----------------------------
(* Instances of Catalogue for TLC. *)
EXTENDS Catalogue

CONSTANTS m1, m2, m3, e1

\* One event of three markets.
ThreeMarkets == [e \in {e1} |-> <<m1, m2, m3>>]

\* The list of markets leaves the event of one of them out.
PartlyNamed == [m \in Markets |-> IF m = m1 THEN NoEvent ELSE e1]
=============================================================================
