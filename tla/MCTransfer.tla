----------------------------- MODULE MCTransfer -----------------------------
(* Model-checking instance of Transfer. *)
EXTENDS Transfer, TLC

CONSTANTS t1, t2

TwoTransfers     == {t1, t2}
TransferSymmetry == Permutations(TwoTransfers)
=============================================================================
