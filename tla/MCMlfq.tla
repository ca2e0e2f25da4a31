------------------------------- MODULE MCMlfq -------------------------------
(* Instances of Mlfq for TLC: two levels with slices 1 and 2.              *)
EXTENDS Mlfq

MCSlice == [l \in 0 .. 1 |-> l + 1]
=============================================================================
