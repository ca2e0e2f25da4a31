------------------------------ MODULE PipeFifo ------------------------------
(* What a pipe promises: a bounded queue of bytes with two ends.           *)
EXTENDS Naturals, Sequences

CONSTANTS Byte, Capacity, None

VARIABLES
  queue,                \* the bytes written and not yet read
  out,                  \* the byte a reader is given
  readopen, writeopen   \* the ends that are open

vars == <<queue, out, readopen, writeopen>>

Init == queue = <<>> /\ out = None /\ readopen = TRUE /\ writeopen = TRUE

\* Nothing is written into a pipe without a reader.
Put ==
  /\ readopen /\ Len(queue) < Capacity
  /\ \E b \in Byte : queue' = Append(queue, b)
  /\ UNCHANGED <<out, readopen, writeopen>>

Get ==
  /\ readopen /\ queue # <<>>
  /\ out' = Head(queue)
  /\ queue' = Tail(queue)
  /\ UNCHANGED <<readopen, writeopen>>

\* The read returns.
Got == out' = None /\ UNCHANGED <<queue, readopen, writeopen>>

CloseRead  == readopen /\ readopen' = FALSE /\ UNCHANGED <<queue, out, writeopen>>
CloseWrite == writeopen /\ writeopen' = FALSE /\ UNCHANGED <<queue, out, readopen>>

Next == Put \/ Get \/ Got \/ CloseRead \/ CloseWrite

Spec == Init /\ [][Next]_vars
=============================================================================
