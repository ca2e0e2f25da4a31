------------------------------- MODULE MCPipe -------------------------------
(* Instances of Pipe for TLC. *)
EXTENDS Pipe

CONSTANTS r1, w1, w2

MCByte == {"a", "b"}
=============================================================================
