------------------------------- MODULE MCFiles --------------------------------
(* Model-checking instance of Files. *)
EXTENDS Files, TLC

CONSTANTS c1, c2, d1, d2, x1

Symmetry == Permutations(Clients) \cup Permutations(Dirs)
===============================================================================
