---------------------------- MODULE MCOperations ----------------------------
(* Model-checking instance of Operations. *)
EXTENDS Operations

CONSTANTS r1, r2, r3

MCRequests == {r1, r2, r3}
=============================================================================
