----------------------------- MODULE BlockStore -----------------------------
(***************************************************************************)
(* What bio.h promises to the file system: blocks, each with one owner at  *)
(* a time, who alone can change it and write it to the disk.               *)
(***************************************************************************)
EXTENDS Naturals

CONSTANTS Proc, Block, None

VARIABLES
  value,  \* what the owner of a block reads
  store,  \* what is on the disk
  owner   \* of every block, None or a process

vars == <<value, store, owner>>

Init ==
  /\ value = [k \in Block |-> 0]
  /\ store = value
  /\ owner = [k \in Block |-> None]

Acquire(p, k) ==
  owner[k] = None /\ owner' = [owner EXCEPT ![k] = p] /\ UNCHANGED <<value, store>>

Change(p, k) ==
  owner[k] = p /\ value' = [value EXCEPT ![k] = 1 - @] /\ UNCHANGED <<store, owner>>

WriteBack(p, k) ==
  owner[k] = p /\ store' = [store EXCEPT ![k] = value[k]] /\ UNCHANGED <<value, owner>>

Release(p, k) ==
  owner[k] = p /\ owner' = [owner EXCEPT ![k] = None] /\ UNCHANGED <<value, store>>

Next ==
  \E p \in Proc, k \in Block :
    Acquire(p, k) \/ Change(p, k) \/ WriteBack(p, k) \/ Release(p, k)

Spec == Init /\ [][Next]_vars
=============================================================================
