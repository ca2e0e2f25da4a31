-------------------------------- MODULE MCLog --------------------------------
(* An instance of Log for TLC.  The processes are interchangeable. *)
EXTENDS Log, TLC

CONSTANTS p1, p2, b1, b2

MCProc == {p1, p2}
MCBlock == {b1, b2}
Symmetry == Permutations(MCProc)
=============================================================================
