------------------------------ MODULE FsStore ------------------------------
(***************************************************************************)
(* What the log of the file system promises.  Operations change blocks in  *)
(* memory; what survives a crash is what the blocks were at some moment at *)
(* which no operation was active.  A block is the set of the operations    *)
(* that have changed it.                                                   *)
(***************************************************************************)
CONSTANTS Block, Op

VARIABLES
  store,    \* what recovery after a crash would make of the disk
  view,     \* what operations see
  active    \* the operations that have begun and not ended

vars == <<store, view, active>>

Init ==
  /\ store = [b \in Block |-> {}]
  /\ view = store
  /\ active = {}

Begin(o) == active' = active \cup {o} /\ UNCHANGED <<store, view>>

Write(o, b) ==
  /\ o \in active
  /\ view' = [view EXCEPT ![b] = @ \cup {o}]
  /\ UNCHANGED <<store, active>>

End(o) == active' = active \ {o} /\ UNCHANGED <<store, view>>

Commit == active = {} /\ store' = view /\ UNCHANGED <<view, active>>

Crash == view' = store /\ active' = {} /\ UNCHANGED store

Next ==
  \/ \E o \in Op : Begin(o) \/ End(o) \/ \E b \in Block : Write(o, b)
  \/ Commit \/ Crash

Spec == Init /\ [][Next]_vars
=============================================================================
