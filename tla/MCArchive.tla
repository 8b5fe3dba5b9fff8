------------------------------ MODULE MCArchive -------------------------------
(* Model-checking instance of Archive: two directories, one in the other. *)
EXTENDS Archive, TLC

CONSTANTS t1, t2, t3

SomeParents == <<0, 1, 1, 3, 0, 0>>
SomeBlocks  == << <<5, 2>>, <<4, 6>> >>
DepthFirst  == <<1, 2, 3, 4, -3, -1, 5, 6>>
===============================================================================
