------------------------------- MODULE MCDisk -------------------------------
(* An instance of Disk for TLC: a block that two processes share, and one  *)
(* for each of them, in two buffers.                                       *)
EXTENDS Disk, TLC

CONSTANTS p1, p2, k1, k2, k3

MCUses == p1 :> {k1, k2} @@ p2 :> {k1, k3}
=============================================================================
