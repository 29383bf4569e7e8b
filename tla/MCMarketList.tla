---------------------------- MODULE MCMarketList ----------------------------
(* Instances of MarketList for TLC. *)
EXTENDS MarketList

CONSTANTS m1, m2, c1, r1, r2

OneCondition == [c \in {c1} |-> m1]

\* One client goes on to the second page, the other asks for the first only.
OneGoesOn == [r \in {r1, r2} |-> IF r = r1 THEN 2 ELSE 1]
=============================================================================
