-------------------------------- MODULE MCSsh ---------------------------------
(* Model-checking instance of Ssh. *)
EXTENDS Ssh

CONSTANTS s1, u1, u2

AllPermissions == {"read", "read-content", "create", "update", "delete", "archive", "console", "start", "stop", "restart"}
SomeGrants == {AllPermissions, {"read", "create"}}
UserSymmetry == Permutations(Users)
===============================================================================
