---------------------------- MODULE MCStateLock ----------------------------
(* Model-checking instance of StateLock. *)
EXTENDS StateLock, TLC

CONSTANTS c1, c2, o1

MCCallers   == {c1, c2}
MCObservers == {o1}

\* The callers run the same code and no safety property tells them apart.
CallerSymmetry == Permutations(MCCallers)
=============================================================================
