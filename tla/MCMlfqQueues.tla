---------------------------- MODULE MCMlfqQueues ----------------------------
(***************************************************************************)
(* Instances of MlfqQueues: two levels, with slices of two and three ticks.*)
(***************************************************************************)
EXTENDS MlfqQueues

MCSlice == [l \in 0 .. 1 |-> l + 2]

=============================================================================
