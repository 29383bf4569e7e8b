------------------------------ MODULE MCWsHub -------------------------------
(* An instance of WsHub for TLC. *)
EXTENDS WsHub

CONSTANTS c1, m1, m2, none, trades

\* Subscribe to one market; or to the other one, and to a name that is empty.
FilterRequests == {{m1}, {m2, none}}
=============================================================================
