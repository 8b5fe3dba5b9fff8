------------------------------ MODULE MCInstall ------------------------------
(* Model-checking instance of Install. *)
EXTENDS Install

CONSTANTS i1, i2

TwoInstalls == {i1, i2}

\* The two installations run the same code: exchanging them makes a behaviour in
\* which the second is asked for first one in which the first is.  What is asked for
\* is not fair, so that this holds of the liveness property too.
FirstIsFirst == at[i1] = "idle" => at[i2] = "idle"
==============================================================================
