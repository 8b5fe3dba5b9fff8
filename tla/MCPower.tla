------------------------------ MODULE MCPower ------------------------------
(* Model-checking instances of Power. *)
EXTENDS Power

CONSTANTS c1, a1

OneClient == {c1}
OneTask   == {a1}
=============================================================================
