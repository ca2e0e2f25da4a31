----------------------------- MODULE LogProofs ------------------------------
(***************************************************************************)
(* Proofs about Log, for any number of processes, blocks, operations and   *)
(* crashes: the inductive invariant and types; no panic; the log           *)
(* implements FsStore; a wakeup is not missed; and what sync() has         *)
(* returned for survives every crash.                                      *)
(***************************************************************************)
EXTENDS Log, FiniteSetTheorems, TLAPS

\* The types the argument needs.
DiskShape ==
  /\ home \in [Block -> SUBSET Op] /\ logblk \in [Slot -> SUBSET Op]
  /\ hn \in 0 .. LOGBLOCKS /\ hblock \in [Slot -> Block]
MemoryShape ==
  /\ cached \subseteq Block /\ cache \in [Block -> SUBSET Op] /\ pinned \subseteq Block
  /\ n \in 0 .. LOGBLOCKS /\ block \in [Slot -> Block]
FlagShape ==
  /\ committing \in BOOLEAN /\ up \in BOOLEAN
  /\ panicked \in BOOLEAN
  /\ phase \in {"none", "read", "log", "install", "done"}
CountShape == ncommit \in Nat /\ tail \in 0 .. LOGBLOCKS /\ nops \in 0 .. MAX_OPS
ProcShape ==
  /\ pc \in [Proc -> {"idle", "begin", "begin_sleep", "op", "commit", "sync", "sync_sleep"}]
  /\ op \in [Proc -> 0 .. MAX_OPS] /\ target \in [Proc -> Nat]
Shape == DiskShape /\ MemoryShape /\ FlagShape /\ CountShape /\ ProcShape

\* outstanding counts the operations.
Running == {p \in Proc : pc[p] = "op"}
Counted == outstanding = Cardinality(Running)

\* Operations have numbers of their own, which are not used again.
Numbered ==
  /\ \A p \in Running : op[p] \in 1 .. nops
  /\ \A p, q \in Running : op[p] = op[q] => p = q

\* During a commit no operation is active and one process is in commit(); there is
\* neither during recovery; and outside of an operation nothing is logged.
Modes ==
  /\ ~up => ~committing /\ phase \in {"read", "install"} /\ \A p \in Proc : pc[p] = "idle"
  /\ up /\ ~committing => phase = "none" /\ \A p \in Proc : pc[p] # "commit"
  /\ committing => /\ up /\ phase \in {"log", "install", "done"} /\ Running = {}
                   /\ \A p, q \in Proc : pc[p] = "commit" /\ pc[q] = "commit" => p = q
  /\ up /\ ~committing /\ Running = {} => n = 0

\* The header on the disk, and the two headers while blocks are installed.
Distinct(k, f) == \A i, j \in 1 .. k : f[i] = f[j] => i = j
Headers ==
  /\ Distinct(n, block) /\ Distinct(hn, hblock)
  /\ phase \in {"none", "log", "done"} => hn = 0
  /\ phase = "done" => n = 0
  /\ phase = "install" => hn = n /\ \A i \in 1 .. n : hblock[i] = block[i]
  /\ phase \in {"log", "install"} => tail <= n

\* A buffer and its block differ only if the block is logged; a logged block is pinned
\* until it is installed; and the blocks that are in the log are what they should be.
Logged == {block[i] : i \in 1 .. n}
Buffers ==
  /\ pinned \subseteq cached
  /\ \A b \in cached : (up => b \notin Logged) => cache[b] = home[b]
  /\ phase \in {"none", "log"} => \A i \in 1 .. n : block[i] \in pinned
  /\ phase = "install" /\ up => \A i \in tail + 1 .. n : block[i] \in pinned
  /\ phase = "log" => \A i \in 1 .. tail : logblk[i] = Contents(block[i])
  /\ phase = "install" /\ up => \A i \in 1 .. n : logblk[i] = Contents(block[i])
  /\ phase = "install" => \A i \in 1 .. tail : home[block[i]] = logblk[i]

IInv == Shape /\ Counted /\ Numbered /\ Modes /\ Headers /\ Buffers

\* At first the disk is clean and the system is about to recover.
LEMMA InitInv == Init => IInv
<1> SUFFICES ASSUME Init PROVE IInv
  OBVIOUS
<1> USE LogAssumption DEF Init
<1>1. DiskShape
  BY DEF Shape, DiskShape, MemoryShape, FlagShape, CountShape, Slot
<1>2. MemoryShape
  BY DEF Shape, DiskShape, MemoryShape, Slot, Op
<1>3. FlagShape
  BY ZenonT(30) DEF Shape, FlagShape
<1>4. CountShape
  BY DEF Shape, CountShape, MemoryShape
<1>5. ProcShape
  BY DEF Shape, FlagShape, CountShape, ProcShape
<1>6. Counted
  BY ZenonT(30), FS_EmptySet DEF Shape, ProcShape, Counted, Running
<1>7. Numbered
  BY ZenonT(30) DEF Shape, ProcShape, FlagShape, CountShape, Numbered, Running
<1>8. Modes
  BY ZenonT(30) DEF Shape, FlagShape, CountShape, ProcShape, Modes, Running
<1>9. Headers
  BY DEF Shape, DiskShape, MemoryShape, FlagShape, CountShape, Modes, Headers, Distinct, Slot
<1>10. Buffers
  BY ZenonT(30) DEF Shape, DiskShape, MemoryShape, FlagShape, CountShape, Modes, Headers, Distinct, Buffers, Logged, Contents, Slot
<1> QED
  BY ZenonT(30), <1>1, <1>2, <1>3, <1>4, <1>5, <1>6, <1>7, <1>8, <1>9, <1>10 DEF IInv, Shape

\* An operation begins, or its process goes to sleep.
LEMMA begin_opInv ==
  ASSUME IInv, NEW p \in Proc, begin_op(p)
  PROVE  IInv'
<1> USE LogAssumption DEF IInv, diskVars, cacheVars, headVars, histVars, begin_op, Goto
<1>1. DiskShape' /\ MemoryShape'
  BY ZenonT(30) DEF Shape, DiskShape, MemoryShape, Slot, Op
<1>2. FlagShape'
  BY ZenonT(30) DEF Shape, FlagShape
<1>3. CountShape'
  BY DEF Shape, CountShape
<1>4. ProcShape'
  BY DEF Shape, FlagShape, CountShape, ProcShape
<1>5. Counted'
  <2>1. IsFiniteSet(Running)
    BY ZenonT(30), FS_Subset DEF Running
  <2>2. CASE MustWait
    <3>1. Running' = Running
      BY ZenonT(30), <2>2 DEF Running, Shape, ProcShape
    <3> QED
      BY ZenonT(30), <2>2, <3>1 DEF Counted
  <2>3. CASE ~MustWait
    <3>1. Running' = Running \cup {p} /\ p \notin Running
      BY ZenonT(30), <2>3 DEF Running, Shape, ProcShape
    <3> QED
      BY ZenonT(30), <2>1, <2>3, <3>1, FS_AddElement DEF Counted
  <2> QED
    BY ZenonT(30), <2>2, <2>3
<1>6. Numbered'
  BY DEF Shape, ProcShape, FlagShape, CountShape, Numbered, Running
<1>7. Modes'
  BY ZenonT(30) DEF Shape, FlagShape, CountShape, ProcShape, Modes, Running, MustWait
<1>8. Headers'
  BY ZenonT(30) DEF Shape, DiskShape, MemoryShape, FlagShape, CountShape, Modes, Headers, Distinct,
     Slot
<1>9. Buffers'
  BY DEF Shape, DiskShape, MemoryShape, FlagShape, CountShape, Modes, Headers, Distinct,
     Buffers, Logged, Contents, Slot
<1> QED
  BY ZenonT(30), <1>1, <1>2, <1>3, <1>4, <1>5, <1>6, <1>7, <1>8, <1>9 DEF Shape

\* An operation enters a block in the header and pins its buffer.
LEMMA WriteInv ==
  ASSUME IInv, NEW p \in Proc, NEW b \in Block, Write(p, b)
  PROVE  IInv'
<1> USE LogAssumption DEF IInv, diskVars, cacheVars, headVars, histVars, Write, log_write, Contents
<1>1. DiskShape' /\ FlagShape' /\ CountShape' /\ ProcShape'
  BY ZenonT(30) DEF Shape, DiskShape, MemoryShape, FlagShape, CountShape, ProcShape, Slot, Op
<1>2. MemoryShape'
  <2>1. op[p] \in Op
    BY DEF Numbered, Running, Shape, ProcShape, CountShape, Op
  <2>2. Contents(b) \cup {op[p]} \in SUBSET Op
    BY ZenonT(30), <2>1 DEF Shape, DiskShape, MemoryShape
  <2>3. CASE UNCHANGED <<cacheVars, headVars>>
    BY ZenonT(30), <2>3 DEF Shape, MemoryShape
  <2>4. CASE ~(n >= LOGBLOCKS \/ outstanding < 1)
    <3>1. n + 1 \in Slot
      BY <2>4 DEF Shape, MemoryShape, Slot
    <3>2. cache' \in [Block -> SUBSET Op] /\ cached' \subseteq Block
      BY ZenonT(30), <2>2, <2>4 DEF Shape, MemoryShape
    <3> QED
      BY SMTT(30), <2>4, <3>1, <3>2 DEF Shape, MemoryShape, Slot
  <2> QED
    BY ZenonT(30), <2>3, <2>4
<1>3. Counted' /\ Numbered'
  BY ZenonT(30) DEF Shape, ProcShape, FlagShape, CountShape, Numbered, Running, Counted
<1>4. Modes'
  BY ZenonT(30) DEF Shape, FlagShape, CountShape, ProcShape, Modes, Running
<1>5. Headers'
  <2>1. phase = "none" /\ up
    BY ZenonT(30) DEF Modes, Running, Shape, FlagShape
  <2>2. CASE UNCHANGED <<cacheVars, headVars>>
    BY ZenonT(30), <2>1, <2>2 DEF Shape, DiskShape, MemoryShape, Headers, Distinct, Slot
  <2>3. CASE n < LOGBLOCKS /\ ~UNCHANGED <<cacheVars, headVars>> /\ \E i \in 1 .. n : block[i] = b
    BY ZenonT(30), <2>1, <2>3 DEF Shape, DiskShape, MemoryShape, Headers, Distinct, Slot
  <2>4. CASE n < LOGBLOCKS /\ ~UNCHANGED <<cacheVars, headVars>> /\ ~\E i \in 1 .. n : block[i] = b
    <3>1. n' = n + 1 /\ n \in Nat /\ block'[n + 1] = b /\ \A i \in 1 .. n : block'[i] = block[i]
      BY SMTT(30), <2>4 DEF Shape, MemoryShape, Slot
    <3>2. \A i \in 1 .. n' : i \in 1 .. n \/ i = n + 1
      BY <3>1
    <3>3. Distinct(n', block')
      BY <2>4, <3>1, <3>2 DEF Headers, Distinct
    <3> QED
      BY ZenonT(30), <2>1, <3>3 DEF Headers, Distinct
  <2> QED
    BY <2>2, <2>3, <2>4 DEF Shape, MemoryShape
<1>6. Buffers'
  <2>1. phase = "none" /\ up
    BY ZenonT(30) DEF Modes, Running, Shape, FlagShape
  <2>2. CASE UNCHANGED <<cacheVars, headVars>>
    BY SMTT(30), <2>1, <2>2 DEF Shape, DiskShape, MemoryShape, Headers, Distinct, Slot, Buffers, Logged, Contents
  <2>3. CASE n < LOGBLOCKS /\ ~UNCHANGED <<cacheVars, headVars>> /\ \E i \in 1 .. n : block[i] = b
    BY SMTT(30), <2>1, <2>3 DEF Shape, DiskShape, MemoryShape, Headers, Distinct, Slot, Buffers, Logged, Contents
  <2>4. CASE n < LOGBLOCKS /\ ~UNCHANGED <<cacheVars, headVars>> /\ ~\E i \in 1 .. n : block[i] = b
    <3>1. n' = n + 1 /\ n \in Nat /\ block'[n + 1] = b /\ \A i \in 1 .. n : block'[i] = block[i]
      BY SMTT(30), <2>4 DEF Shape, MemoryShape, Slot
    <3>2. Logged' = Logged \cup {b}
      BY <3>1 DEF Logged
    <3>3. pinned' = pinned \cup {b} /\ cached' = cached \cup {b}
      BY ZenonT(30), <2>4
    <3>4. \A c \in cached' : c \notin Logged' => cache'[c] = home'[c]
      BY ZenonT(30), <2>1, <2>4, <3>2, <3>3 DEF Buffers, Shape, MemoryShape
    <3>5. \A i \in 1 .. n' : block'[i] \in pinned'
      BY <2>1, <3>1, <3>3 DEF Buffers
    <3> QED
      BY ZenonT(30), <2>1, <3>3, <3>4, <3>5 DEF Buffers
  <2> QED
    BY SMTT(30), <2>2, <2>3, <2>4 DEF Shape, MemoryShape
<1> QED
  BY ZenonT(30), <1>1, <1>2, <1>3, <1>4, <1>5, <1>6 DEF Shape

\* An operation ends; the last one starts the commit.
LEMMA end_opInv ==
  ASSUME IInv, NEW p \in Proc, end_op(p)
  PROVE  IInv'
<1> USE LogAssumption DEF IInv, diskVars, cacheVars, headVars, histVars, end_op, Goto, wakeup
<1>1. DiskShape' /\ MemoryShape'
  BY ZenonT(30) DEF Shape, DiskShape, MemoryShape, Slot, Op
<1>2. FlagShape'
  BY ZenonT(30) DEF Shape, FlagShape
<1>3. CountShape'
  BY DEF Shape, CountShape
<1>4. ProcShape'
  BY ZenonT(30) DEF Shape, FlagShape, CountShape, ProcShape
<1>5. Counted'
  <2>1. IsFiniteSet(Running)
    BY ZenonT(30), FS_Subset DEF Running
  <2>2. Running' = Running \ {p} /\ p \in Running
    BY ZenonT(30) DEF Running, Shape, ProcShape
  <2> QED
    BY ZenonT(30), <2>1, <2>2, FS_RemoveElement DEF Counted
<1>6. Numbered'
  BY ZenonT(60) DEF Shape, ProcShape, FlagShape, CountShape, Numbered, Running
<1>7. Modes'
  <2>1. IsFiniteSet(Running) /\ IsFiniteSet(Running')
    BY ZenonT(30), FS_Subset DEF Running
  <2>2. Running' = Running \ {p} /\ p \in Running
    BY ZenonT(30) DEF Running, Shape, ProcShape
  <2>3. up /\ ~committing /\ phase = "none" /\ \A q \in Proc : pc[q] # "commit"
    BY ZenonT(30), <2>2 DEF Modes, Running, Shape, FlagShape
  <2>4. CASE outstanding = 1
    <3>0. outstanding' = 0
      BY <2>4
    <3>1. Running' = {}
      BY ZenonT(30), <1>5, <2>1, <3>0, FS_EmptySet DEF Counted
    <3> QED
      BY ZenonT(30), <2>3, <2>4, <3>1 DEF Modes, Shape, ProcShape
  <2>5. CASE outstanding # 1
    <3>1. Running' # {}
      BY SMTT(30), <2>1, <2>2, <2>5, FS_RemoveElement, FS_EmptySet, FS_CardinalityType DEF Counted
    <3> QED
      BY ZenonT(30), <2>3, <2>5, <3>1 DEF Modes, Shape, ProcShape
  <2> QED
    BY ZenonT(30), <2>4, <2>5
<1>8. Headers'
  BY SMTT(30) DEF Shape, DiskShape, MemoryShape, FlagShape, CountShape, Modes, Headers, Distinct,
     Slot, Running
<1>9. Buffers'
  BY SMTT(30) DEF Shape, DiskShape, MemoryShape, FlagShape, CountShape, Modes, Headers, Distinct,
     Buffers, Logged, Contents, Slot, Running
<1> QED
  BY ZenonT(30), <1>1, <1>2, <1>3, <1>4, <1>5, <1>6, <1>7, <1>8, <1>9 DEF Shape

\* The commit is over, and nothing is logged.
LEMMA CommittedInv ==
  ASSUME IInv, NEW p \in Proc, Committed(p)
  PROVE  IInv'
<1> USE LogAssumption DEF IInv, diskVars, cacheVars, headVars, histVars, Committed, wakeup
<1>1. DiskShape' /\ MemoryShape'
  BY ZenonT(30) DEF Shape, DiskShape, MemoryShape, Slot, Op
<1>2. FlagShape'
  BY ZenonT(30) DEF Shape, FlagShape
<1>3. CountShape'
  BY DEF Shape, CountShape
<1>4. ProcShape'
  BY ZenonT(30) DEF Shape, FlagShape, CountShape, ProcShape
<1>5. Counted' /\ Numbered'
  BY ZenonT(30) DEF Shape, ProcShape, FlagShape, CountShape, Numbered, Running, Counted
<1>6. Modes'
  BY ZenonT(30) DEF Shape, FlagShape, CountShape, ProcShape, Modes, Running, Headers
<1>7. Headers'
  BY ZenonT(30) DEF Shape, DiskShape, MemoryShape, FlagShape, CountShape, Modes, Headers, Distinct,
     Slot
<1>8. Buffers'
  BY SMTT(30) DEF Shape, DiskShape, MemoryShape, FlagShape, CountShape, Modes, Headers, Distinct,
     Buffers, Logged, Contents, Slot
<1> QED
  BY ZenonT(30), <1>1, <1>2, <1>3, <1>4, <1>5, <1>6, <1>7, <1>8 DEF Shape

\* sync() looks at the state of the log and changes none of it.
LEMMA sys_syncInv ==
  ASSUME IInv, NEW p \in Proc, sys_sync(p)
  PROVE  IInv'
<1> USE LogAssumption DEF IInv, diskVars, cacheVars, headVars, histVars, sys_sync, Goto
<1>1. DiskShape' /\ MemoryShape'
  BY ZenonT(30) DEF Shape, DiskShape, MemoryShape, Slot, Op
<1>2. FlagShape'
  BY ZenonT(30) DEF Shape, FlagShape
<1>3. CountShape'
  BY ZenonT(30) DEF Shape, CountShape
<1>4. ProcShape'
  BY DEF Shape, FlagShape, CountShape, ProcShape
<1>5. Counted' /\ Numbered'
  BY ZenonT(30) DEF Shape, ProcShape, FlagShape, CountShape, Numbered, Running, Counted
<1>6. Modes'
  BY ZenonT(30) DEF Shape, FlagShape, CountShape, ProcShape, Modes, Running
<1>7. Headers'
  BY ZenonT(30) DEF Shape, DiskShape, MemoryShape, FlagShape, CountShape, Modes, Headers, Distinct,
     Slot
<1>8. Buffers'
  BY DEF Shape, DiskShape, MemoryShape, FlagShape, CountShape, Modes, Headers, Distinct,
     Buffers, Logged, Contents, Slot
<1> QED
  BY ZenonT(30), <1>1, <1>2, <1>3, <1>4, <1>5, <1>6, <1>7, <1>8 DEF Shape

\* Nor does it after it has slept.
LEMMA SyncCheckInv ==
  ASSUME IInv, NEW p \in Proc, SyncCheck(p)
  PROVE  IInv'
<1> USE LogAssumption DEF IInv, diskVars, cacheVars, headVars, histVars, SyncCheck, Goto
<1>1. DiskShape' /\ MemoryShape'
  BY ZenonT(30) DEF Shape, DiskShape, MemoryShape, Slot, Op
<1>2. FlagShape'
  BY ZenonT(30) DEF Shape, FlagShape
<1>3. CountShape'
  BY ZenonT(30) DEF Shape, CountShape
<1>4. ProcShape'
  BY SMTT(30) DEF Shape, FlagShape, CountShape, ProcShape
<1>5. Counted' /\ Numbered'
  BY DEF Shape, ProcShape, FlagShape, CountShape, Numbered, Running, Counted
<1>6. Modes'
  BY ZenonT(30) DEF Shape, FlagShape, CountShape, ProcShape, Modes, Running
<1>7. Headers'
  BY ZenonT(30) DEF Shape, DiskShape, MemoryShape, FlagShape, CountShape, Modes, Headers, Distinct,
     Slot
<1>8. Buffers'
  BY DEF Shape, DiskShape, MemoryShape, FlagShape, CountShape, Modes, Headers, Distinct,
     Buffers, Logged, Contents, Slot
<1> QED
  BY ZenonT(30), <1>1, <1>2, <1>3, <1>4, <1>5, <1>6, <1>7, <1>8 DEF Shape

\* commit() copies a block to the log.
LEMMA WriteLogInv ==
  ASSUME IInv, WriteLog
  PROVE  IInv'
<1> USE LogAssumption DEF IInv, diskVars, cacheVars, headVars, histVars, WriteLog, Contents
<1>1. Shape'
  BY SMTT(30) DEF Shape, DiskShape, MemoryShape, FlagShape, CountShape, ProcShape, Slot, Op
<1>2. Counted' /\ Numbered'
  BY ZenonT(30) DEF Shape, ProcShape, FlagShape, CountShape, Numbered, Running, Counted
<1>3. Modes'
  BY ZenonT(30) DEF Shape, FlagShape, CountShape, ProcShape, Modes, Running
<1>4. Headers'
  BY SMTT(30) DEF Shape, DiskShape, MemoryShape, FlagShape, CountShape, Modes, Headers, Distinct,
     Slot
<1>5. Buffers'
  BY SMTT(30) DEF Shape, DiskShape, MemoryShape, FlagShape, CountShape, Modes, Headers, Distinct,
     Buffers, Logged, Contents, Slot
<1> QED
  BY ZenonT(30), <1>1, <1>2, <1>3, <1>4, <1>5 DEF Shape

\* There was nothing to commit.
LEMMA CommitNothingInv ==
  ASSUME IInv, CommitNothing
  PROVE  IInv'
<1> USE LogAssumption DEF IInv, diskVars, cacheVars, headVars, histVars, CommitNothing
<1>1. Shape'
  BY ZenonT(30) DEF Shape, DiskShape, MemoryShape, FlagShape, CountShape, ProcShape, Slot, Op
<1>2. Counted' /\ Numbered'
  BY ZenonT(30) DEF Shape, ProcShape, FlagShape, CountShape, Numbered, Running, Counted
<1>3. Modes'
  BY ZenonT(30) DEF Shape, FlagShape, CountShape, ProcShape, Modes, Running
<1>4. Headers'
  BY SMTT(30) DEF Shape, DiskShape, MemoryShape, FlagShape, CountShape, Modes, Headers, Distinct,
     Slot
<1>5. Buffers'
  BY DEF Shape, DiskShape, MemoryShape, FlagShape, CountShape, Modes, Headers, Distinct,
     Buffers, Logged, Contents, Slot
<1> QED
  BY ZenonT(30), <1>1, <1>2, <1>3, <1>4, <1>5 DEF Shape

\* The header on the disk becomes the one in memory.
LEMMA WriteHeadInv ==
  ASSUME IInv, WriteHead
  PROVE  IInv'
<1> USE LogAssumption DEF IInv, diskVars, cacheVars, headVars, histVars, WriteHead, LogWritten
<1>1. Shape'
  BY DEF Shape, DiskShape, MemoryShape, FlagShape, CountShape, ProcShape, Slot, Op
<1>2. Counted' /\ Numbered'
  BY ZenonT(30) DEF Shape, ProcShape, FlagShape, CountShape, Numbered, Running, Counted
<1>3. Modes'
  BY ZenonT(30) DEF Shape, FlagShape, CountShape, ProcShape, Modes, Running
<1>4. Headers'
  BY SMTT(30) DEF Shape, DiskShape, MemoryShape, FlagShape, CountShape, Modes, Headers, Distinct,
     Slot
<1>5. Buffers'
  BY DEF Shape, DiskShape, MemoryShape, FlagShape, CountShape, Modes, Headers, Distinct,
     Buffers, Logged, Contents, Slot
<1> QED
  BY ZenonT(30), <1>1, <1>2, <1>3, <1>4, <1>5 DEF Shape

\* The header in memory becomes the one on the disk.
LEMMA ReadHeadInv ==
  ASSUME IInv, ReadHead
  PROVE  IInv'
<1> USE LogAssumption DEF IInv, diskVars, cacheVars, headVars, histVars, ReadHead
<1>1. Shape'
  BY DEF Shape, DiskShape, MemoryShape, FlagShape, CountShape, ProcShape, Slot, Op
<1>2. Counted' /\ Numbered'
  BY ZenonT(30) DEF Shape, ProcShape, FlagShape, CountShape, Numbered, Running, Counted
<1>3. Modes'
  BY ZenonT(30) DEF Shape, FlagShape, CountShape, ProcShape, Modes, Running
<1>4. Headers'
  BY SMTT(30) DEF Shape, DiskShape, MemoryShape, FlagShape, CountShape, Modes, Headers, Distinct,
     Slot
<1>5. Buffers'
  BY DEF Shape, DiskShape, MemoryShape, FlagShape, CountShape, Modes, Headers, Distinct,
     Buffers, Logged, Contents, Slot
<1> QED
  BY ZenonT(30), <1>1, <1>2, <1>3, <1>4, <1>5 DEF Shape

\* A block of the log is written to its place.
LEMMA InstallInv ==
  ASSUME IInv, Install
  PROVE  IInv'
<1> USE LogAssumption DEF IInv, diskVars, cacheVars, headVars, histVars, Install
<1>1. DiskShape' /\ FlagShape' /\ CountShape' /\ ProcShape'
  BY SMTT(30) DEF Shape, DiskShape, MemoryShape, FlagShape, CountShape, ProcShape, Slot, Op
<1>2. MemoryShape'
  BY DEF Shape, DiskShape, MemoryShape, Slot, Op, CountShape
<1>3. Counted' /\ Numbered'
  BY ZenonT(30) DEF Shape, ProcShape, FlagShape, CountShape, Numbered, Running, Counted
<1>4. Modes'
  BY ZenonT(30) DEF Shape, FlagShape, CountShape, ProcShape, Modes, Running
<1>5. Headers'
  BY DEF Shape, DiskShape, MemoryShape, FlagShape, CountShape, Modes, Headers, Distinct,
     Slot
<1>6. Buffers'
  <2> DEFINE c == block[tail + 1]
  <2>1. tail \in Nat /\ n \in Nat /\ tail + 1 \in 1 .. n /\ c \in Block
    <3>1. tail \in 0 .. LOGBLOCKS /\ n \in 0 .. LOGBLOCKS /\ tail < n /\ block \in [Slot -> Block]
      BY ZenonT(30) DEF Shape, MemoryShape, CountShape
    <3> HIDE DEF IInv, Install
    <3>2. tail \in Nat /\ n \in Nat /\ tail + 1 \in 1 .. n /\ tail + 1 \in Slot
      BY <3>1 DEF Slot
    <3> QED
      BY ZenonT(30), <3>1, <3>2
  <2>2. \A i \in 1 .. n : block[i] = c => i = tail + 1
    BY ZenonT(30), <2>1 DEF Headers, Distinct
  <2>3. /\ cached' = cached \cup {c} /\ tail' = tail + 1 /\ Logged' = Logged /\ c \in Logged
        /\ UNCHANGED <<phase, n, block, up, logblk>> /\ phase = "install"
        /\ pinned' = IF up THEN pinned \ {c} ELSE pinned
    BY ZenonT(30), <2>1 DEF Logged
  <2>4. /\ home'[c] = logblk[tail + 1] /\ cache'[c] = logblk[tail + 1]
        /\ \A b \in Block : b # c => home'[b] = home[b] /\ cache'[b] = cache[b]
    BY ZenonT(30), <2>1 DEF Shape, DiskShape, MemoryShape
  <2>5. \A i \in 1 .. n : block[i] \in Block
    BY DEF Shape, MemoryShape, Slot
  <2> HIDE DEF Install, c
  <2>6. \A b \in cached' : (up' => b \notin Logged') => cache'[b] = home'[b]
    BY ZenonT(30), <2>3, <2>4 DEF Buffers, Shape, MemoryShape
  <2>7. up => \A i \in tail' + 1 .. n' : block'[i] \in pinned'
    BY SMTT(30), <2>1, <2>2, <2>3 DEF Buffers
  <2>8. up => \A i \in 1 .. n' : logblk'[i] = Contents(block[i])'
    BY SMTT(30), <2>1, <2>2, <2>3, <2>4, <2>5 DEF Buffers, Contents
  <2>9. \A i \in 1 .. tail' : home'[block'[i]] = logblk'[i]
    <3>1. \A i \in 1 .. tail' : i \in 1 .. tail \/ i = tail + 1
      BY <2>1, <2>3
    <3>2. \A i \in 1 .. tail : block[i] # c /\ i \in 1 .. n
      BY <2>1, <2>2
    <3> QED
      BY ZenonT(30), <2>3, <2>4, <2>5, <3>1, <3>2 DEF Buffers, c
  <2>10. pinned' \subseteq cached'
    BY ZenonT(30), <2>3 DEF Buffers
  <2> QED
    BY ZenonT(30), <2>3, <2>6, <2>7, <2>8, <2>9, <2>10 DEF Buffers
<1> QED
  BY ZenonT(30), <1>1, <1>2, <1>3, <1>4, <1>5, <1>6 DEF Shape

\* Both headers are emptied.
LEMMA ClearHeadInv ==
  ASSUME IInv, ClearHead
  PROVE  IInv'
<1> USE LogAssumption DEF IInv, diskVars, cacheVars, headVars, histVars, ClearHead
<1>1. Shape'
  BY DEF Shape, DiskShape, MemoryShape, FlagShape, CountShape, ProcShape, Slot, Op
<1>2. Counted' /\ Numbered'
  BY ZenonT(30) DEF Shape, ProcShape, FlagShape, CountShape, Numbered, Running, Counted
<1>3. Modes'
  BY ZenonT(30) DEF Shape, FlagShape, CountShape, ProcShape, Modes, Running
<1>4. Headers'
  BY SMTT(30) DEF Shape, DiskShape, MemoryShape, FlagShape, CountShape, Modes, Headers, Distinct,
     Slot
<1>5. Buffers'
  BY SMTT(30) DEF Shape, DiskShape, MemoryShape, FlagShape, CountShape, Modes, Headers, Distinct,
     Buffers, Logged, Contents, Slot
<1> QED
  BY ZenonT(30), <1>1, <1>2, <1>3, <1>4, <1>5 DEF Shape

\* A buffer gets what is on the disk.
LEMMA LoadInv ==
  ASSUME IInv, NEW b \in Block, Load(b)
  PROVE  IInv'
<1> USE LogAssumption DEF IInv, diskVars, cacheVars, headVars, histVars, Load
<1>1. Shape'
  BY ZenonT(30) DEF Shape, DiskShape, MemoryShape, FlagShape, CountShape, ProcShape, Slot, Op
<1>2. Counted' /\ Numbered' /\ Modes' /\ Headers'
  BY ZenonT(30) DEF Numbered, Running, Counted, Modes, Headers, Distinct
<1>3. Buffers'
  BY SMTT(30) DEF Shape, DiskShape, MemoryShape, Buffers, Logged, Contents, Slot
<1> QED
  BY ZenonT(30), <1>1, <1>2, <1>3 DEF Shape

\* A buffer that is dropped is not pinned.
LEMMA EvictInv ==
  ASSUME IInv, NEW b \in Block, Evict(b)
  PROVE  IInv'
<1> USE LogAssumption DEF IInv, diskVars, cacheVars, headVars, histVars, Evict
<1>1. Shape'
  BY ZenonT(30) DEF Shape, DiskShape, MemoryShape, FlagShape, CountShape, ProcShape, Slot, Op
<1>2. Counted' /\ Numbered' /\ Modes' /\ Headers'
  BY ZenonT(30) DEF Numbered, Running, Counted, Modes, Headers, Distinct
<1>3. Buffers'
  BY SMTT(30) DEF Shape, DiskShape, MemoryShape, CountShape, Headers, Buffers, Logged,
     Contents, Slot
<1> QED
  BY ZenonT(30), <1>1, <1>2, <1>3 DEF Shape

\* The disk is what is left.
LEMMA CrashInv ==
  ASSUME IInv, Crash
  PROVE  IInv'
<1> USE LogAssumption DEF IInv, diskVars, cacheVars, headVars, histVars, Crash
<1>1. DiskShape' /\ MemoryShape'
  BY DEF Shape, DiskShape, MemoryShape, Slot, Op
<1>2. FlagShape'
  BY ZenonT(30) DEF Shape, FlagShape
<1>3. CountShape'
  BY SMTT(30) DEF Shape, CountShape
<1>4. ProcShape'
  BY DEF Shape, FlagShape, CountShape, ProcShape
<1>5. Counted'
  BY ZenonT(30), FS_EmptySet DEF Shape, ProcShape, Counted, Running, Shape
<1>6. Numbered'
  BY ZenonT(30) DEF Shape, ProcShape, FlagShape, CountShape, Numbered, Running
<1>7. Modes'
  BY ZenonT(30) DEF Shape, FlagShape, CountShape, ProcShape, Modes, Running
<1>8. Headers'
  BY SMTT(30) DEF Shape, DiskShape, MemoryShape, FlagShape, CountShape, Modes, Headers, Distinct,
     Slot
<1>9. Buffers'
  BY ZenonT(30) DEF Shape, DiskShape, MemoryShape, FlagShape, CountShape, Modes, Headers, Distinct,
     Buffers, Logged, Contents, Slot
<1> QED
  BY ZenonT(30), <1>1, <1>2, <1>3, <1>4, <1>5, <1>6, <1>7, <1>8, <1>9 DEF Shape

\* Every step keeps the invariant.
LEMMA StepInv ==
  ASSUME IInv, [Next]_vars
  PROVE  IInv'
<1>1. ASSUME NEW p \in Proc, Step(p) PROVE IInv'
  BY ZenonT(30), <1>1, begin_opInv, WriteInv, end_opInv, CommittedInv, sys_syncInv, SyncCheckInv DEF Step
<1>2. CASE Background
  BY ZenonT(30), <1>2, WriteLogInv, CommitNothingInv, WriteHeadInv, ReadHeadInv, InstallInv, ClearHeadInv
     DEF Background
<1>3. ASSUME NEW b \in Block, Load(b) \/ Evict(b) PROVE IInv'
  BY ZenonT(30), <1>3, LoadInv, EvictInv
<1>4. CASE Crash
  BY ZenonT(30), <1>4, CrashInv
<1>5. CASE UNCHANGED vars
  <2> USE <1>5 DEF vars, diskVars, cacheVars, headVars
  <2>1. Shape => Shape'
    BY ZenonT(30) DEF Shape, DiskShape, MemoryShape, FlagShape, CountShape, ProcShape
  <2>2. Counted /\ Numbered => Counted' /\ Numbered'
    BY ZenonT(30) DEF Counted, Running, Numbered
  <2>3. Modes => Modes'
    BY ZenonT(30) DEF Modes, Running
  <2>4. Headers => Headers'
    BY ZenonT(30) DEF Headers, Distinct
  <2>5. Buffers => Buffers'
    BY ZenonT(30) DEF Buffers, Logged, Contents
  <2> QED
    BY ZenonT(30), <2>1, <2>2, <2>3, <2>4, <2>5 DEF IInv
<1> QED
  BY ZenonT(30), <1>1, <1>2, <1>3, <1>4, <1>5 DEF Next

\* The headers, the pinned buffers, the blocks in the log and the counts of log.c agree
\* at every moment, whatever the crashes.
THEOREM Invariance == Spec => []IInv
<1>1. IInv /\ [Next]_vars => IInv'
  BY ZenonT(30), StepInv
<1> QED
  BY <1>1, InitInv, PTL DEF Spec

\* The types of the state, and the log never grows past LOGBLOCKS blocks.
THEOREM TypeCorrect == Spec => []TypeOK
<1>1. IInv => TypeOK
  <2> SUFFICES ASSUME IInv PROVE TypeOK
    OBVIOUS
  <2>1. IsFiniteSet(Running)
    BY ZenonT(30), FS_Subset, LogAssumption DEF Running
  <2>2. outstanding \in Nat
    BY ZenonT(30), <2>1, FS_CardinalityType DEF IInv, Counted
  <2> QED
    BY ZenonT(30), <2>2 DEF IInv, TypeOK, Shape, DiskShape, MemoryShape, FlagShape, CountShape, ProcShape
<1> QED
  BY <1>1, Invariance, PTL

-----------------------------------------------------------------------------
(* No panic: the log has room for what the operations may still change.               *)

\* The blocks that a process has changed in its operation, and the blocks that it may
\* still change: begin_op() keeps MAXOPBLOCKS blocks of the log for every operation.
Changed(p) == {b \in Block : op[p] \in wrote[b]}
Credits == {x \in Running \X (1 .. MAXOPBLOCKS) : Cardinality(Changed(x[1])) < x[2]}

\* Only operations that have begun have changed blocks; what an operation has changed is
\* in the log; and the log has room for all that may still be changed.
Recorded == wrote \in [Block -> SUBSET (1 .. nops)]
InLog ==
  \A p \in Running :
    /\ IsFiniteSet(Changed(p)) /\ Cardinality(Changed(p)) <= OPBLOCKS
    /\ Changed(p) \subseteq Logged
Room == n + Cardinality(Credits) <= LOGBLOCKS
RoomInv == NoPanic /\ Recorded /\ InLog /\ Room

\* The numbers of operations and of blocks that are kept for them.
LEMMA CreditCount ==
  ASSUME IInv
  PROVE  /\ IsFiniteSet(Running) /\ IsFiniteSet(Credits)
         /\ outstanding \in Nat /\ Cardinality(Credits) \in Nat /\ n \in Nat /\ nops \in Nat
         /\ Cardinality(Credits) <= outstanding * MAXOPBLOCKS
<1>1. IsFiniteSet(Running)
  BY ZenonT(30), FS_Subset, LogAssumption DEF Running
<1>2. outstanding = Cardinality(Running) /\ outstanding \in Nat
  BY ZenonT(30), <1>1, FS_CardinalityType DEF IInv, Counted
<1>3. IsFiniteSet(1 .. MAXOPBLOCKS) /\ Cardinality(1 .. MAXOPBLOCKS) = MAXOPBLOCKS
  BY FS_Interval, LogAssumption
<1> DEFINE All == Running \X (1 .. MAXOPBLOCKS)
<1>4. IsFiniteSet(All) /\ Cardinality(All) = outstanding * MAXOPBLOCKS
  BY ZenonT(30), <1>1, <1>2, <1>3, FS_Product
<1>5. Credits \in SUBSET All
  BY ZenonT(30) DEF Credits
<1>6. IsFiniteSet(Credits) /\ Cardinality(Credits) <= Cardinality(All)
  BY ZenonT(30), <1>4, <1>5, FS_Subset
<1>7. Cardinality(Credits) \in Nat
  BY ZenonT(30), <1>6, FS_CardinalityType
<1>8. n \in Nat /\ nops \in Nat
  BY LogAssumption DEF IInv, Shape, CountShape, MemoryShape
<1> QED BY ZenonT(30), <1>1, <1>2, <1>4, <1>6, <1>7, <1>8

\* Without an operation there is room.
NoOp == Running = {}
LEMMA RoomWhenNone == IInv /\ NoOp /\ NoPanic /\ Recorded => RoomInv
<1> SUFFICES ASSUME IInv, Running = {}, NoPanic, Recorded PROVE RoomInv
  BY ZenonT(30) DEF NoOp
<1>1. Credits = {}
  BY ZenonT(30) DEF Credits
<1>2. Cardinality(Credits) = 0
  BY ZenonT(30), <1>1, FS_EmptySet
<1>3. Room
  BY <1>2, LogAssumption DEF Room, IInv, Shape, MemoryShape
<1> QED BY ZenonT(30), <1>3 DEF RoomInv, InLog

\* The same for the next state.
LEMMA RoomWhenNoneNext == IInv' /\ NoOp' /\ NoPanic' /\ Recorded' => RoomInv'
BY RoomWhenNone, PTL

\* begin_op() keeps MAXOPBLOCKS more blocks; the operation's number is a new one.
LEMMA begin_opRoom ==
  ASSUME IInv, RoomInv, NEW p \in Proc, begin_op(p), ~MustWait
  PROVE  RoomInv'
<1>1. /\ up /\ pc[p] # "op" /\ outstanding' = outstanding + 1 /\ nops' = nops + 1
      /\ op' = [op EXCEPT ![p] = nops + 1] /\ pc' = [pc EXCEPT ![p] = "op"]
      /\ UNCHANGED <<n, block, wrote, panicked>>
  BY ZenonT(30) DEF begin_op, Goto, headVars, histVars
<1>2. /\ pc \in [Proc -> {"idle", "begin", "begin_sleep", "op", "commit", "sync", "sync_sleep"}]
      /\ op \in [Proc -> 0 .. MAX_OPS]
  BY ZenonT(30) DEF IInv, Shape, ProcShape
<1>3. Running' = Running \cup {p} /\ p \notin Running
  BY ZenonT(30), <1>1, <1>2 DEF Running
<1>4. \A b \in Block : nops + 1 \notin wrote[b]
  BY CreditCount DEF RoomInv, Recorded
<1>5. Changed(p)' = {}
  BY ZenonT(30), <1>1, <1>2, <1>3, <1>4 DEF Changed, Running
<1>6. \A q \in Running : Changed(q)' = Changed(q)
  BY ZenonT(30), <1>1, <1>2, <1>3, <1>4 DEF Changed, Running
<1>7. Recorded'
  <2>1. 1 .. nops \subseteq 1 .. nops + 1
    BY CreditCount
  <2> QED BY ZenonT(30), <1>1, <2>1 DEF RoomInv, Recorded
<1>8. InLog'
  <2>1. Logged' = Logged
    BY ZenonT(30), <1>1 DEF Logged
  <2>2. IsFiniteSet({}) /\ Cardinality({}) <= OPBLOCKS
    BY FS_EmptySet, LogAssumption
  <2> QED BY ZenonT(30), <1>3, <1>5, <1>6, <2>1, <2>2 DEF RoomInv, InLog
<1>9. Room'
  <2> DEFINE New == {p} \X (1 .. MAXOPBLOCKS)
  <2>1. IsFiniteSet(New) /\ Cardinality(New) = MAXOPBLOCKS
    <3>1. IsFiniteSet({p}) /\ Cardinality({p}) = 1
      BY ZenonT(30), FS_Singleton
    <3>2. IsFiniteSet(1 .. MAXOPBLOCKS) /\ Cardinality(1 .. MAXOPBLOCKS) = MAXOPBLOCKS
      BY FS_Interval, LogAssumption
    <3>3. IsFiniteSet(New) /\ Cardinality(New) = 1 * MAXOPBLOCKS
      BY ZenonT(60), <3>1, <3>2, FS_Product
    <3> QED BY <3>3, LogAssumption
  <2>2. Credits' \in SUBSET (Credits \cup New)
    BY ZenonT(30), <1>3, <1>6 DEF Credits
  <2> HIDE DEF New
  <2>3. /\ IsFiniteSet(Credits \cup New) /\ Cardinality(Credits \cap New) \in Nat
        /\ Cardinality(Credits \cup New) =
             Cardinality(Credits) + Cardinality(New) - Cardinality(Credits \cap New)
    <3>1. IsFiniteSet(Credits) /\ IsFiniteSet(Credits \cap New)
      BY ZenonT(30), CreditCount, FS_Subset
    <3> QED BY ZenonT(30), <2>1, <3>1, FS_Union, FS_CardinalityType
  <2>4. IsFiniteSet(Credits') /\ Cardinality(Credits') <= Cardinality(Credits \cup New)
    BY ZenonT(30), <2>2, <2>3, FS_Subset
  <2>5. Cardinality(Credits') \in Nat
    BY ZenonT(30), <2>4, FS_CardinalityType
  <2>6. n + (outstanding + 1) * MAXOPBLOCKS <= LOGBLOCKS
    BY CreditCount, LogAssumption DEF MustWait
  <2>7. (outstanding + 1) * MAXOPBLOCKS = outstanding * MAXOPBLOCKS + MAXOPBLOCKS
        /\ outstanding * MAXOPBLOCKS \in Nat
    BY CreditCount, LogAssumption
  <2>8. n' + Cardinality(Credits') <= LOGBLOCKS
    BY <1>1, <2>1, <2>3, <2>4, <2>5, <2>6, <2>7, CreditCount, LogAssumption
  <2> QED BY ZenonT(30), <2>8 DEF Room
<1> QED BY ZenonT(30), <1>1, <1>7, <1>8, <1>9 DEF RoomInv, NoPanic

\* log_write() finds room, and does not panic: the operation has changed fewer blocks than
\* were kept for it.
LEMMA RoomToWrite ==
  ASSUME IInv, RoomInv, NEW p \in Running
  PROVE  n < LOGBLOCKS /\ outstanding >= 1
<1>1. IsFiniteSet(Changed(p)) /\ Cardinality(Changed(p)) <= OPBLOCKS
  BY ZenonT(30) DEF RoomInv, InLog
<1>2. Cardinality(Changed(p)) \in Nat
  BY ZenonT(30), <1>1, FS_CardinalityType
<1>3. Cardinality(Changed(p)) < MAXOPBLOCKS /\ MAXOPBLOCKS \in 1 .. MAXOPBLOCKS
  BY <1>1, <1>2, LogAssumption
<1>4. <<p, MAXOPBLOCKS>> \in Credits
  BY ZenonT(30), <1>3 DEF Credits
<1>5. Cardinality(Credits) # 0 /\ Cardinality(Running) # 0
  BY ZenonT(30), <1>4, CreditCount, FS_EmptySet
<1> QED
  BY <1>5, CreditCount, LogAssumption DEF RoomInv, Room, IInv, Counted

\* A block that the operation has changed before is in the log; one that it has not uses
\* up a block that was kept for it, and takes one place of the log at most.
LEMMA WriteRoom ==
  ASSUME IInv, RoomInv, NEW p \in Proc, NEW b \in Block, Write(p, b)
  PROVE  RoomInv'
<1>1. /\ p \in Running /\ op[p] \in 1 .. nops
      /\ op[p] \in wrote[b] \/ Cardinality(Changed(p)) < OPBLOCKS
      /\ UNCHANGED <<pc, op, nops, outstanding>> /\ Running' = Running
  BY ZenonT(30) DEF Write, Running, Changed, IInv, Numbered
<1>2. n < LOGBLOCKS /\ outstanding >= 1
  BY ZenonT(30), <1>1, RoomToWrite
<1>3. /\ log_write(b) /\ wrote' = [wrote EXCEPT ![b] = @ \cup {op[p]}] /\ UNCHANGED panicked
  <2>1. ~(n >= LOGBLOCKS \/ outstanding < 1)
    BY <1>2, CreditCount, LogAssumption
  <2> QED BY ZenonT(30), <2>1 DEF Write
<1>4. Recorded'
  BY ZenonT(30), <1>1, <1>3 DEF RoomInv, Recorded
<1>5. /\ b \in Logged' /\ Logged \subseteq Logged'
      /\ b \in Logged => n' = n
      /\ n' = n \/ n' = n + 1
  <2>1. CASE \E i \in 1 .. n : block[i] = b
    BY ZenonT(30), <1>3, <2>1 DEF log_write, Logged
  <2>2. CASE ~\E i \in 1 .. n : block[i] = b
    <3>1. n' = n + 1 /\ block' = [block EXCEPT ![n + 1] = b]
      BY ZenonT(30), <1>3, <2>2 DEF log_write
    <3>2. n + 1 \in Slot /\ block \in [Slot -> Block] /\ n \in Nat /\ 1 .. n \subseteq Slot
      BY <1>2, CreditCount, LogAssumption DEF Slot, IInv, Shape, MemoryShape
    <3>3. block'[n + 1] = b /\ \A i \in 1 .. n : block'[i] = block[i]
      BY <3>1, <3>2
    <3>4. n + 1 \in 1 .. n' /\ \A i \in 1 .. n : i \in 1 .. n'
      BY <3>1, <3>2
    <3> QED BY ZenonT(30), <2>2, <3>1, <3>3, <3>4 DEF Logged
  <2> QED BY <2>1, <2>2
<1>6. /\ Changed(p)' = Changed(p) \cup {b}
      /\ \A q \in Running : q # p => Changed(q)' = Changed(q)
  <2>1. wrote \in [Block -> SUBSET (1 .. nops)]
    BY ZenonT(30) DEF RoomInv, Recorded
  <2>2. \A q \in Running : q # p => op[q] # op[p]
    BY ZenonT(30), <1>1 DEF IInv, Numbered
  <2>3. \A c \in Block : wrote'[c] = IF c = b THEN wrote[b] \cup {op[p]} ELSE wrote[c]
    BY ZenonT(30), <1>3, <2>1
  <2> QED BY ZenonT(30), <1>1, <2>2, <2>3 DEF Changed
<1>7. IsFiniteSet(Changed(p)) /\ Cardinality(Changed(p)) <= OPBLOCKS /\ Changed(p) \subseteq Logged
  BY ZenonT(30), <1>1 DEF RoomInv, InLog
<1>8. Cardinality(Changed(p)) \in Nat
  BY ZenonT(30), <1>7, FS_CardinalityType
<1>9. CASE b \in Changed(p)
  <2>1. \A q \in Running : Changed(q)' = Changed(q)
    BY ZenonT(30), <1>6, <1>9
  <2>2. n' = n
    BY ZenonT(30), <1>5, <1>7, <1>9
  <2>3. Credits' = Credits
    BY ZenonT(30), <1>1, <2>1 DEF Credits
  <2>4. Room'
    BY ZenonT(30), <2>2, <2>3 DEF RoomInv, Room
  <2>5. InLog'
    BY ZenonT(30), <1>1, <1>5, <2>1 DEF RoomInv, InLog
  <2> QED BY ZenonT(30), <1>3, <1>4, <2>4, <2>5 DEF RoomInv, NoPanic
<1>10. CASE b \notin Changed(p)
  <2> DEFINE k == Cardinality(Changed(p)) + 1
  <2>1. IsFiniteSet(Changed(p)') /\ Cardinality(Changed(p)') = k
    BY ZenonT(30), <1>6, <1>7, <1>10, FS_AddElement
  <2>2. Cardinality(Changed(p)) < OPBLOCKS
    BY ZenonT(30), <1>1, <1>10 DEF Changed
  <2>3. k <= OPBLOCKS /\ k \in 1 .. MAXOPBLOCKS /\ Cardinality(Changed(p)) < k
    BY <1>8, <2>2, LogAssumption
  <2>4. InLog'
    BY ZenonT(30), <1>1, <1>5, <1>6, <1>7, <2>1, <2>3 DEF RoomInv, InLog
  <2>5. <<p, k>> \in Credits
    BY ZenonT(30), <1>1, <2>3 DEF Credits
  <2>6. \A j \in 1 .. MAXOPBLOCKS : k < j <=> Cardinality(Changed(p)) < j /\ j # k
    BY <1>8
  <2>7. Credits' = Credits \ {<<p, k>>}
    <3> HIDE DEF k
    <3>1. \A q \in Running, j \in 1 .. MAXOPBLOCKS :
             Cardinality(Changed(q)') < j <=> Cardinality(Changed(q)) < j /\ <<q, j>> # <<p, k>>
      BY ZenonT(30), <1>6, <2>1, <2>6
    <3>2. ASSUME NEW x \in Running \X (1 .. MAXOPBLOCKS)
          PROVE  Cardinality(Changed(x[1])') < x[2]
                   <=> Cardinality(Changed(x[1])) < x[2] /\ x # <<p, k>>
      <4>1. x[1] \in Running /\ x[2] \in 1 .. MAXOPBLOCKS /\ x = <<x[1], x[2]>>
        OBVIOUS
      <4> QED BY ZenonT(30), <3>1, <4>1
    <3> QED BY ZenonT(30), <1>1, <3>2 DEF Credits
  <2>8. Cardinality(Credits') = Cardinality(Credits) - 1
    BY ZenonT(30), <2>5, <2>7, CreditCount, FS_RemoveElement
  <2>9. n' + Cardinality(Credits') <= LOGBLOCKS
    BY SMTT(30), <1>5, <2>8, CreditCount, LogAssumption DEF RoomInv, Room
  <2> QED BY ZenonT(30), <1>3, <1>4, <2>4, <2>9 DEF RoomInv, NoPanic, Room
<1> QED BY <1>9, <1>10

\* An operation that ends gives back what was kept for it; nothing is being committed.
LEMMA end_opRoom ==
  ASSUME IInv, RoomInv, IInv', NEW p \in Proc, end_op(p)
  PROVE  RoomInv'
<1>1. /\ p \in Running /\ Running' = Running \ {p}
      /\ UNCHANGED <<op, nops, n, block, wrote>> /\ panicked' = committing
  BY ZenonT(30) DEF end_op, Goto, wakeup, Running, IInv, Shape, ProcShape, headVars
<1>2. ~panicked'
  BY ZenonT(30), <1>1 DEF IInv, Modes, Shape, FlagShape
<1>3. \A q \in Running' : q \in Running /\ Changed(q)' = Changed(q)
  BY ZenonT(30), <1>1 DEF Changed
<1>4. Credits' \in SUBSET Credits
  BY ZenonT(30), <1>1, <1>3 DEF Credits
<1>5. IsFiniteSet(Credits') /\ Cardinality(Credits') <= Cardinality(Credits)
  BY ZenonT(30), <1>4, CreditCount, FS_Subset
<1>6. Cardinality(Credits') \in Nat
  BY ZenonT(30), <1>5, FS_CardinalityType
<1>7. n' + Cardinality(Credits') <= LOGBLOCKS
  BY SMTT(30), <1>1, <1>5, <1>6, CreditCount, LogAssumption DEF RoomInv, Room
<1>8. InLog'
  BY ZenonT(30), <1>1, <1>3 DEF RoomInv, InLog, Logged
<1>9. Recorded'
  BY ZenonT(30), <1>1 DEF RoomInv, Recorded
<1> QED BY ZenonT(30), <1>2, <1>7, <1>8, <1>9 DEF RoomInv, NoPanic, Room

\* A step that leaves the operations and the header alone leaves the room.
LEMMA SameRoom ==
  ASSUME RoomInv, Running' = Running, UNCHANGED <<op, nops, n, block, wrote, panicked>>
  PROVE  RoomInv'
<1>1. \A q \in Running : Changed(q)' = Changed(q)
  BY ZenonT(30) DEF Changed
<1>2. Credits' = Credits
  BY ZenonT(30), <1>1 DEF Credits
<1>3. InLog'
  BY ZenonT(30), <1>1 DEF RoomInv, InLog, Logged
<1> QED BY ZenonT(30), <1>2, <1>3 DEF RoomInv, Room, Recorded, NoPanic

\* Every step keeps the room.
LEMMA StepRoom ==
  ASSUME IInv, IInv', RoomInv, [Next]_vars
  PROVE  RoomInv'
<1>1. ASSUME NEW p \in Proc, Step(p) PROVE RoomInv'
  <2>1. CASE begin_op(p) /\ MustWait
    BY ZenonT(30), <2>1, SameRoom DEF begin_op, Goto, Running, headVars, histVars, IInv, Shape, ProcShape
  <2>2. CASE begin_op(p) /\ ~MustWait
    BY ZenonT(30), <2>2, begin_opRoom
  <2>3. CASE \E b \in Block : Write(p, b)
    BY ZenonT(30), <2>3, WriteRoom
  <2>4. CASE end_op(p)
    BY ZenonT(30), <2>4, end_opRoom
  <2>5. CASE Committed(p)
    BY ZenonT(30), <2>5, SameRoom DEF Committed, wakeup, Running, headVars, histVars, IInv, Shape, ProcShape
  <2>6. CASE sys_sync(p) \/ SyncCheck(p)
    BY ZenonT(30), <2>6, SameRoom DEF sys_sync, SyncCheck, Goto, Running, headVars, IInv, Shape, ProcShape
  <2> QED BY ZenonT(30), <1>1, <2>1, <2>2, <2>3, <2>4, <2>5, <2>6 DEF Step
<1>2. CASE Background
  <2>1. UNCHANGED <<pc, wrote, nops, panicked>> /\ phase # "none"
    BY ZenonT(30), <1>2 DEF Background, WriteLog, CommitNothing, WriteHead, ReadHead, Install,
       ClearHead, histVars
  <2>2. NoOp'
    BY ZenonT(30), <2>1 DEF IInv, Modes, Running, NoOp, Shape, FlagShape
  <2> QED BY ZenonT(30), <2>1, <2>2, RoomWhenNoneNext DEF RoomInv, NoPanic, Recorded
<1>3. ASSUME NEW b \in Block, Load(b) \/ Evict(b) PROVE RoomInv'
  BY ZenonT(30), <1>3, SameRoom DEF Load, Evict, Running, headVars, histVars
<1>4. CASE Crash
  <2>1. UNCHANGED <<wrote, nops, panicked>> /\ NoOp'
    BY ZenonT(30), <1>4 DEF Crash, NoOp, Running
  <2> QED BY ZenonT(30), <2>1, RoomWhenNoneNext DEF RoomInv, NoPanic, Recorded
<1>5. CASE UNCHANGED vars
  BY ZenonT(30), <1>5, SameRoom DEF vars, Running, headVars, histVars
<1> QED
  BY ZenonT(30), <1>1, <1>2, <1>3, <1>4, <1>5 DEF Next

\* None of the panics of log.c happens: MAXOPBLOCKS blocks kept for every operation are
\* enough for operations that change fewer, however many run at once and wherever the
\* commits and crashes fall, and nobody ends or writes outside of an operation.
THEOREM NeverPanics == Spec => []NoPanic
<1>1. Init => RoomInv
  <2> SUFFICES ASSUME Init PROVE RoomInv
    OBVIOUS
  <2>1. NoOp /\ NoPanic
    BY ZenonT(30) DEF Init, NoOp, Running, NoPanic
  <2>2. Recorded
    BY DEF Init, Recorded
  <2> QED BY ZenonT(30), <2>1, <2>2, InitInv, RoomWhenNone
<1>2. IInv /\ IInv' /\ RoomInv /\ [Next]_vars => RoomInv'
  BY ZenonT(30), StepRoom
<1>3. RoomInv => NoPanic
  BY ZenonT(30) DEF RoomInv
<1> QED
  BY <1>1, <1>2, <1>3, Invariance, PTL DEF Spec

-----------------------------------------------------------------------------
\* The refinement.  What recovery makes of a header f of k blocks, the log l, and the
\* blocks in their places h.
Rebuilt(k, f, l, h) ==
  [b \in Block |-> IF \E i \in 1 .. k : f[i] = b
                   THEN l[CHOOSE i \in 1 .. k : f[i] = b] ELSE h[b]]

\* A block of the header comes from the log, and any other from its place.
LEMMA RecoveredIs ==
  ASSUME NEW k \in Nat, NEW f, NEW l, NEW h,
         \A i \in 1 .. k : f[i] \in Block, Distinct(k, f)
  PROVE  /\ \A i \in 1 .. k : Rebuilt(k, f, l, h)[f[i]] = l[i]
         /\ \A b \in Block : (\A i \in 1 .. k : f[i] # b) => Rebuilt(k, f, l, h)[b] = h[b]
<1>1. ASSUME NEW i \in 1 .. k PROVE Rebuilt(k, f, l, h)[f[i]] = l[i]
  <2>1. (CHOOSE j \in 1 .. k : f[j] = f[i]) = i
    BY ZenonT(30) DEF Distinct
  <2> QED
    BY ZenonT(30), <2>1 DEF Rebuilt
<1> QED
  BY ZenonT(30), <1>1 DEF Rebuilt

\* The same of this state, with what the invariant says of the header.
LEMMA RecoveredNow ==
  ASSUME IInv
  PROVE  /\ \A i \in 1 .. hn : Recovered[hblock[i]] = logblk[i]
         /\ \A b \in Block : (\A i \in 1 .. hn : hblock[i] # b) => Recovered[b] = home[b]
         /\ Recovered = [b \in Block |-> Recovered[b]]
         /\ hn \in Nat /\ \A i \in 1 .. hn : hblock[i] \in Block
<1>1. hn \in Nat /\ \A i \in 1 .. hn : hblock[i] \in Block
  BY LogAssumption DEF IInv, Shape, DiskShape, Slot
<1>2. Distinct(hn, hblock)
  BY ZenonT(30) DEF IInv, Headers
<1>3. Recovered = [b \in Block |-> Recovered[b]]
  BY ZenonT(30) DEF Recovered
<1>4. /\ \A i \in 1 .. hn : Recovered[hblock[i]] = logblk[i]
      /\ \A b \in Block : (\A i \in 1 .. hn : hblock[i] # b) => Recovered[b] = home[b]
  <2>1. Recovered = Rebuilt(hn, hblock, logblk, home)
    BY ZenonT(30) DEF Recovered, Rebuilt
  <2> QED
    BY SMTT(30), <1>1, <1>2, <2>1, RecoveredIs
<1> QED
  BY ZenonT(30), <1>1, <1>3, <1>4

\* When nothing is logged, memory and disk agree.
LEMMA Settled ==
  ASSUME IInv, up, n = 0, hn = 0
  PROVE  View = Recovered
<1>1. \A b \in Block : Contents(b) = home[b]
  BY DEF IInv, Buffers, Logged, Contents
<1>2. \A b \in Block : Recovered[b] = home[b]
  BY RecoveredNow
<1> QED
  BY ZenonT(30), <1>1, <1>2, RecoveredNow DEF View

\* Steps that change no block on the disk, and neither what is in the cache nor up.
LEMMA SameBlocks ==
  ASSUME UNCHANGED <<diskVars, cached, cache, up>>
  PROVE  UNCHANGED <<Recovered, View>>
BY ZenonT(30) DEF diskVars, Recovered, View, Contents

\* A block is read into the cache, or dropped from it: what is dropped is not pinned,
\* so it is what is on the disk.
LEMMA CacheEffect ==
  ASSUME IInv, NEW b \in Block, Load(b) \/ Evict(b)
  PROVE  UNCHANGED <<Recovered, View>>
<1>1. Recovered' = Recovered
  BY ZenonT(30) DEF Load, Evict, diskVars, Recovered
<1>2. CASE Load(b)
  <2>1. \A c \in Block : Contents(c)' = Contents(c)
    BY ZenonT(30), <1>2 DEF Load, Contents, IInv, Shape, MemoryShape, diskVars
  <2> QED
    BY ZenonT(30), <1>1, <1>2, <2>1 DEF Load, View
<1>3. CASE Evict(b) /\ up
  <2>1. b \notin Logged \/ cache[b] = home[b]
    <3>1. phase \in {"none", "log", "install", "done"}
      BY ZenonT(30), <1>3 DEF IInv, Shape, FlagShape, Modes
    <3>2. ASSUME NEW i \in 1 .. n, block[i] = b, phase = "install" PROVE cache[b] = home[b]
      <4>1. i \in tail + 1 .. n \/ i \in 1 .. tail
        BY <3>2, LogAssumption DEF IInv, Shape, MemoryShape, CountShape
      <4>2. CASE i \in tail + 1 .. n
        BY ZenonT(30), <1>3, <3>2, <4>2 DEF Evict, IInv, Buffers
      <4>3. CASE i \in 1 .. tail
        BY ZenonT(30), <1>3, <3>2, <4>3 DEF Evict, IInv, Buffers, Contents
      <4> QED
        BY ZenonT(30), <4>1, <4>2, <4>3
    <3>3. phase = "done" => Logged = {}
      BY DEF IInv, Headers, Logged
    <3>4. phase \in {"none", "log"} => b \notin Logged
      BY ZenonT(30), <1>3 DEF Evict, IInv, Buffers, Logged
    <3> QED
      BY ZenonT(30), <3>1, <3>2, <3>3, <3>4 DEF Logged
  <2>2. cache[b] = home[b]
    BY ZenonT(30), <1>3, <2>1 DEF Evict, IInv, Buffers
  <2>3. \A c \in Block : Contents(c)' = Contents(c)
    BY ZenonT(30), <1>3, <2>2 DEF Evict, Contents, IInv, Shape, MemoryShape, diskVars
  <2> QED
    BY ZenonT(30), <1>1, <1>3, <2>3 DEF Evict, View
<1>4. CASE Evict(b) /\ ~up
  BY ZenonT(30), <1>1, <1>4 DEF Evict, View
<1> QED
  BY ZenonT(30), <1>2, <1>3, <1>4

\* A block of the log is written before the header names it.
LEMMA WriteLogEffect ==
  ASSUME IInv, WriteLog
  PROVE  UNCHANGED <<Recovered, View>>
<1>1. hn = 0
  BY ZenonT(30) DEF WriteLog, IInv, Headers
<1>2. Recovered' = Recovered
  BY <1>1 DEF WriteLog, Recovered
<1> QED
  BY ZenonT(30), <1>2 DEF WriteLog, View, Contents, cacheVars

\* The header names all the blocks that were logged, and the log has their contents.
LEMMA WriteHeadEffect ==
  ASSUME IInv, IInv', WriteHead
  PROVE  Recovered' = View /\ View' = View /\ Running = {}
<1>1. up /\ Running = {} /\ hn = 0 /\ tail = n /\ n \in Nat
  BY DEF WriteHead, LogWritten, IInv, Modes, Headers, Shape, FlagShape, MemoryShape
<1>2. View' = View /\ View = [b \in Block |-> Contents(b)]
  BY ZenonT(30), <1>1 DEF WriteHead, View, Contents, cacheVars
<1>3. /\ hn' = n /\ \A i \in 1 .. n : hblock'[i] = block[i] /\ block[i] \in Block
      /\ UNCHANGED <<logblk, home>>
  BY <1>1, LogAssumption DEF WriteHead, IInv, Shape, MemoryShape, Slot
<1>4. Distinct(n, block)
  BY ZenonT(30) DEF IInv, Headers
<1>5. /\ \A i \in 1 .. n : Recovered'[block[i]] = logblk[i]
      /\ \A b \in Block : (\A i \in 1 .. n : block[i] # b) => Recovered'[b] = home[b]
  <2>1. Recovered' = Rebuilt(n, hblock', logblk, home)
    BY ZenonT(30), <1>3 DEF Recovered, Rebuilt
  <2>2. Distinct(n, hblock') /\ \A i \in 1 .. n : hblock'[i] \in Block
    BY ZenonT(30), <1>3, <1>4 DEF Distinct
  <2>3. /\ \A i \in 1 .. n : Recovered'[hblock'[i]] = logblk[i]
        /\ \A b \in Block : (\A i \in 1 .. n : hblock'[i] # b) => Recovered'[b] = home[b]
    BY SMTT(30), <1>1, <2>1, <2>2, RecoveredIs
  <2> QED
    BY ZenonT(30), <1>3, <2>3
<1>6. ASSUME NEW b \in Block PROVE Recovered'[b] = Contents(b)
  <2>1. CASE \E i \in 1 .. n : block[i] = b
    BY SMTT(30), <1>1, <1>5, <2>1 DEF IInv, Buffers, WriteHead
  <2>2. CASE \A i \in 1 .. n : block[i] # b
    <3>1. Contents(b) = home[b]
      BY SMTT(30), <2>2 DEF IInv, Buffers, Logged, Contents
    <3> QED
      BY ZenonT(30), <1>5, <2>2, <3>1
  <2> QED
    BY ZenonT(30), <2>1, <2>2
<1>7. Recovered' = [b \in Block |-> Recovered'[b]]
  BY ZenonT(30) DEF Recovered
<1> QED
  BY ZenonT(30), <1>1, <1>2, <1>6, <1>7

\* A block is installed: recovery would have taken it from the log, which is what the
\* buffer has too.
LEMMA InstallEffect ==
  ASSUME IInv, IInv', Install
  PROVE  UNCHANGED <<Recovered, View>>
<1> DEFINE c == block[tail + 1]
<1>1. tail + 1 \in 1 .. hn /\ hblock[tail + 1] = c /\ hn = n /\ c \in Block
  BY LogAssumption DEF Install, IInv, Headers, Shape, MemoryShape, CountShape, Slot
<1>2. /\ UNCHANGED <<hn, hblock, logblk, up>> /\ home' = [home EXCEPT ![c] = logblk[tail + 1]]
      /\ cached' = cached \cup {c} /\ cache' = [cache EXCEPT ![c] = logblk[tail + 1]]
      /\ phase = "install"
  BY ZenonT(30) DEF Install
<1> HIDE DEF c
<1>3. Recovered' = Recovered
  <2>1. ASSUME NEW b \in Block PROVE Recovered'[b] = Recovered[b]
    <3>1. CASE \E i \in 1 .. hn : hblock[i] = b
      BY ZenonT(30), <1>2, <3>1 DEF Recovered
    <3>2. CASE ~\E i \in 1 .. hn : hblock[i] = b
      <4>1. b # c
        BY ZenonT(30), <1>1, <3>2
      <4>2. home'[b] = home[b]
        BY ZenonT(30), <1>2, <4>1 DEF IInv, Shape, DiskShape
      <4> QED
        BY ZenonT(30), <1>2, <3>2, <4>2 DEF Recovered
    <3> QED
      BY ZenonT(30), <3>1, <3>2
  <2> QED
    BY ZenonT(30), <2>1 DEF Recovered
<1>4. CASE up
  <2>1. logblk[tail + 1] = Contents(c)
    BY ZenonT(30), <1>1, <1>2, <1>4 DEF IInv, Buffers, c
  <2>2. \A b \in Block : Contents(b)' = Contents(b)
    BY ZenonT(30), <1>1, <1>2, <2>1 DEF Contents, IInv, Shape, MemoryShape, DiskShape
  <2> QED
    BY ZenonT(30), <1>2, <1>3, <1>4, <2>2 DEF View
<1>5. CASE ~up
  BY ZenonT(30), <1>2, <1>3, <1>5 DEF View
<1> QED
  BY ZenonT(30), <1>3, <1>4, <1>5 DEF IInv, Shape, FlagShape

\* The header is cleared: all of it has been installed.
LEMMA ClearHeadEffect ==
  ASSUME IInv, IInv', ClearHead
  PROVE  UNCHANGED <<Recovered, View>>
<1>1. /\ tail = n /\ hn = n /\ \A i \in 1 .. n : hblock[i] = block[i]
      /\ \A i \in 1 .. n : home[block[i]] = logblk[i]
  BY ZenonT(30) DEF ClearHead, IInv, Headers, Buffers
<1>2. \A b \in Block : Recovered[b] = home[b]
  BY SMTT(30), <1>1, RecoveredNow
<1>3. Recovered' = [b \in Block |-> home[b]]
  BY DEF ClearHead, Recovered
<1>4. Recovered' = Recovered
  BY ZenonT(30), <1>2, <1>3, RecoveredNow
<1>5. CASE up
  BY ZenonT(30), <1>4, <1>5 DEF ClearHead, View, Contents, cacheVars
<1>6. CASE ~up
  <2>1. \A b \in Block : Contents(b)' = home[b]
    BY <1>6 DEF ClearHead, cacheVars, Contents, IInv, Buffers
  <2> QED
    BY ZenonT(30), <1>2, <1>4, <1>6, <2>1, RecoveredNow DEF ClearHead, View
<1> QED
  BY ZenonT(30), <1>4, <1>5, <1>6

\* An operation changes a block that it and the others see, and nothing on the disk.
LEMMA WriteEffect ==
  ASSUME IInv, NEW p \in Proc, NEW b \in Block, Write(p, b)
  PROVE  /\ Recovered' = Recovered
         /\ \/ View' = View /\ wrote' = wrote
            \/ /\ View' = [View EXCEPT ![b] = @ \cup {op[p]}]
               /\ wrote' = [wrote EXCEPT ![b] = @ \cup {op[p]}]
<1>1. Recovered' = Recovered
  BY ZenonT(30) DEF Write, diskVars, Recovered
<1>2. up /\ up'
  BY ZenonT(30) DEF Write, IInv, Modes, Shape, FlagShape
<1>3. CASE n >= LOGBLOCKS \/ outstanding < 1
  BY ZenonT(30), <1>1, <1>3 DEF Write, View, Contents, cacheVars, diskVars
<1>4. CASE ~(n >= LOGBLOCKS \/ outstanding < 1)
  <2>1. \A c \in Block : Contents(c)' = IF c = b THEN Contents(b) \cup {op[p]} ELSE Contents(c)
    <3> DEFINE v == Contents(b) \cup {op[p]}
    <3>1. /\ cached' = cached \cup {b} /\ cache' = [cache EXCEPT ![b] = v]
          /\ home' = home /\ cache \in [Block -> SUBSET Op]
      BY ZenonT(30), <1>4 DEF Write, diskVars, IInv, Shape, MemoryShape
    <3> HIDE DEF v
    <3>2. \A c \in Block : Contents(c)' = IF c = b THEN v ELSE Contents(c)
      BY ZenonT(30), <3>1 DEF Contents
    <3> QED
      BY ZenonT(30), <3>2 DEF v
  <2>2. View' = [View EXCEPT ![b] = @ \cup {op[p]}]
    BY ZenonT(30), <1>2, <2>1 DEF View
  <2> QED
    BY ZenonT(30), <1>1, <1>4, <2>2 DEF Write
<1> QED
  BY ZenonT(30), <1>3, <1>4

\* A crash leaves the disk as it is, and what is seen is what recovery makes of it.
LEMMA CrashEffect ==
  ASSUME Crash
  PROVE  Recovered' = Recovered /\ View' = Recovered
<1>1. Recovered' = Recovered
  BY ZenonT(30) DEF Crash, diskVars, Recovered
<1> QED
  BY ZenonT(30), <1>1 DEF Crash, View, Recovered

\* The other steps of log.c.
Quiet ==
  \/ \E p \in Proc : begin_op(p) \/ end_op(p) \/ Committed(p) \/ sys_sync(p) \/ SyncCheck(p)
  \/ WriteLog \/ CommitNothing \/ ReadHead \/ Install \/ ClearHead
  \/ \E b \in Block : Load(b) \/ Evict(b)

\* They change neither what recovery would give nor what is seen.
LEMMA QuietEffect ==
  ASSUME IInv, IInv', Quiet
  PROVE  UNCHANGED <<Recovered, View>>
<1>1. ASSUME NEW p \in Proc,
             begin_op(p) \/ end_op(p) \/ Committed(p) \/ sys_sync(p) \/ SyncCheck(p)
      PROVE  UNCHANGED <<Recovered, View>>
  BY ZenonT(30), <1>1, SameBlocks DEF begin_op, end_op, Committed, sys_sync, SyncCheck, cacheVars
<1>2. CASE CommitNothing \/ ReadHead
  BY ZenonT(30), <1>2, SameBlocks DEF CommitNothing, ReadHead, cacheVars
<1> QED
  BY ZenonT(30), <1>1, <1>2, WriteLogEffect, InstallEffect, ClearHeadEffect, CacheEffect DEF Quiet

\* The operations that are active change when one begins or ends, and with a crash.
LEMMA ActiveEffect ==
  ASSUME IInv, IInv', Next
  PROVE  \/ UNCHANGED Active
         \/ \E o \in Op : Active' = Active \cup {o} /\ \E p \in Proc : begin_op(p)
         \/ \E o \in Op : Active' = Active \ {o} /\ \E p \in Proc : end_op(p)
         \/ Active' = {} /\ Crash
<1>0. Active = {op[p] : p \in Running}
  BY ZenonT(30) DEF Active, Running
<1>1. ASSUME NEW p \in Proc, begin_op(p)
      PROVE  UNCHANGED Active \/ \E o \in Op : Active' = Active \cup {o}
  <2>1. CASE MustWait
    BY <1>1, <2>1 DEF begin_op, Goto, Active, IInv, Shape, ProcShape
  <2>2. CASE ~MustWait
    <3>1. Active' = Active \cup {nops + 1}
      BY SMTT(30), <1>1, <2>2 DEF begin_op, Goto, Active, IInv, Shape, ProcShape
    <3>2. nops + 1 \in Op
      BY <1>1, LogAssumption DEF begin_op, IInv, Shape, CountShape, Op
    <3> QED
      BY ZenonT(30), <3>1, <3>2
  <2> QED
    BY ZenonT(30), <2>1, <2>2
<1>2. ASSUME NEW p \in Proc, end_op(p)
      PROVE  \E o \in Op : Active' = Active \ {o}
  <2>1. \A q \in Proc : pc'[q] = "op" <=> q # p /\ pc[q] = "op"
    BY ZenonT(30), <1>2 DEF end_op, Goto, wakeup, IInv, Shape, ProcShape
  <2>2. op' = op
    BY ZenonT(30), <1>2 DEF end_op
  <2>3. p \in Running
    BY ZenonT(30), <1>2 DEF end_op, Running
  <2>4. Active' = Active \ {op[p]}
    BY ZenonT(30), <2>1, <2>2, <2>3 DEF Active, Running, IInv, Numbered
  <2>5. op[p] \in Op
    BY <2>3, LogAssumption DEF IInv, Numbered, Shape, CountShape, Op
  <2> QED
    BY ZenonT(30), <2>4, <2>5
<1>3. CASE Crash
  BY ZenonT(30), <1>3 DEF Crash, Active
<1>4. ASSUME NEW p \in Proc, Committed(p) \/ sys_sync(p) \/ SyncCheck(p)
      PROVE  UNCHANGED Active
  <2>1. \A q \in Proc : pc'[q] = "op" <=> pc[q] = "op"
    BY ZenonT(30), <1>4 DEF Committed, wakeup, sys_sync, SyncCheck, Goto, IInv, Shape, ProcShape
  <2>2. op' = op
    BY ZenonT(30), <1>4 DEF Committed, sys_sync, SyncCheck
  <2> QED
    BY ZenonT(30), <2>1, <2>2 DEF Active
<1>5. ASSUME NEW p \in Proc, NEW b \in Block, Write(p, b) PROVE UNCHANGED Active
  BY ZenonT(30), <1>5 DEF Write, Active
<1>6. CASE Background
  BY ZenonT(30), <1>6 DEF Background, WriteLog, CommitNothing, WriteHead, ReadHead, Install, ClearHead,
     Active
<1>7. ASSUME NEW b \in Block, Load(b) \/ Evict(b) PROVE UNCHANGED Active
  BY ZenonT(30), <1>7 DEF Load, Evict, Active
<1> QED
  BY ZenonT(30), <1>1, <1>2, <1>3, <1>4, <1>5, <1>6, <1>7 DEF Next, Step

\* One step of log.c is one step of FsStore, or none.
LEMMA StepRefines ==
  ASSUME IInv, IInv', [Next]_vars
  PROVE  [Store!Next]_(Store!vars)
<1> USE DEF Store!Next, Store!vars
<1>1. CASE Next /\ Quiet
  <2>1. UNCHANGED <<Recovered, View>>
    BY ZenonT(30), <1>1, QuietEffect
  <2>2. CASE UNCHANGED Active
    BY ZenonT(30), <2>1, <2>2
  <2>3. CASE \E o \in Op : Active' = Active \cup {o}
    BY ZenonT(30), <2>1, <2>3 DEF Store!Begin
  <2>4. CASE \E o \in Op : Active' = Active \ {o}
    BY ZenonT(30), <2>1, <2>4 DEF Store!End
  <2>5. CASE Active' = {} /\ Crash
    BY ZenonT(30), <2>5, CrashEffect DEF Store!Crash
  <2> QED
    BY ZenonT(30), <1>1, <2>2, <2>3, <2>4, <2>5, ActiveEffect
<1>2. ASSUME NEW p \in Proc, NEW b \in Block, Write(p, b) PROVE [Store!Next]_(Store!vars)
  <2>1. op[p] \in Op /\ op[p] \in Active
    <3>1. p \in Running
      BY ZenonT(30), <1>2 DEF Write, Running
    <3>2. op[p] \in 1 .. nops /\ nops \in 0 .. MAX_OPS
      BY ZenonT(30), <3>1 DEF IInv, Numbered, Shape, CountShape, Op
    <3>3. op[p] \in Op
      BY <3>2, LogAssumption DEF Op
    <3> QED
      BY ZenonT(30), <3>1, <3>3 DEF Running, Active
  <2>2. Active' = Active
    BY ZenonT(30), <1>2 DEF Write, Active
  <2> QED
    BY ZenonT(30), <1>2, <2>1, <2>2, WriteEffect DEF Store!Write
<1>3. CASE WriteHead
  <2>1. Active = {} /\ Active' = Active
    BY ZenonT(30), <1>3, WriteHeadEffect DEF WriteHead, Active, Running
  <2> QED
    BY ZenonT(30), <1>3, <2>1, WriteHeadEffect DEF Store!Commit
<1>4. CASE Crash
  <2>1. Active' = {}
    BY ZenonT(30), <1>4 DEF Crash, Active
  <2> QED
    BY ZenonT(30), <1>4, <2>1, CrashEffect DEF Store!Crash
<1>5. CASE UNCHANGED vars
  BY ZenonT(30), <1>5 DEF vars, diskVars, cacheVars, Recovered, View, Contents, Active
<1>6. Next => Quiet \/ WriteHead \/ Crash \/ \E p \in Proc, b \in Block : Write(p, b)
  BY ZenonT(30) DEF Next, Step, Background, Quiet
<1> QED
  BY ZenonT(30), <1>1, <1>2, <1>3, <1>4, <1>5, <1>6

\* log.c makes the operations of the file system atomic: whenever the machine stops, in
\* a commit or in a recovery, recovery gives the blocks as they were at a commit, at
\* which no operation was active.
THEOREM Refinement == Spec => IsAtomic
<1>1. Init => Store!Init
  BY DEF Init, Store!Init, Recovered, View, Contents, Active
<1>2. IInv /\ IInv' /\ [Next]_vars => [Store!Next]_(Store!vars)
  BY ZenonT(30), StepRefines
<1> QED
  BY <1>1, <1>2, Invariance, PTL DEF Spec, IsAtomic, Store!Spec

-----------------------------------------------------------------------------
\* A process waits only while an operation or a commit will wake it up: begin_op() finds
\* room when nothing is outstanding, because then nothing is logged; and the commit that
\* sync() waits for is the next to end.
Waits ==
  /\ NoLostWakeup
  /\ \A p \in Proc : /\ target[p] <= ncommit + 1
                     /\ target[p] > ncommit => outstanding > 0 \/ committing

\* With nothing outstanding and no commit there is room for an operation.
LEMMA RoomWhenIdle ==
  ASSUME IInv, up, MustWait, ~committing
  PROVE  outstanding > 0
<1>1. IsFiniteSet(Running)
  BY ZenonT(30), FS_Subset, LogAssumption DEF Running
<1>2. outstanding \in Nat
  BY ZenonT(30), <1>1, FS_CardinalityType DEF IInv, Counted
<1>3. ASSUME outstanding = 0 PROVE FALSE
  <2>1. Running = {}
    BY ZenonT(30), <1>1, <1>3, FS_EmptySet DEF IInv, Counted
  <2>2. n = 0
    BY ZenonT(30), <2>1 DEF IInv, Modes
  <2>3. n + (outstanding + 1) * MAXOPBLOCKS = MAXOPBLOCKS
    BY SMTT(30), <2>2, <1>3, LogAssumption
  <2> QED
    BY <2>3, LogAssumption DEF MustWait
<1> QED
  BY <1>2, <1>3

\* Every step keeps those that wait in reach of a wakeup.
LEMMA StepWaits ==
  ASSUME IInv, Waits, [Next]_vars
  PROVE  Waits'
<1>0. /\ outstanding \in Nat /\ ncommit \in Nat /\ committing \in BOOLEAN /\ up \in BOOLEAN
      /\ ProcShape
  <2>1. IsFiniteSet(Running)
    BY ZenonT(30), FS_Subset, LogAssumption DEF Running
  <2> QED
    BY ZenonT(30), <2>1, FS_CardinalityType DEF IInv, Counted, Shape, FlagShape, CountShape
<1> USE <1>0 DEF ProcShape, Waits, NoLostWakeup
<1>1. ASSUME NEW p \in Proc, begin_op(p) PROVE Waits'
  BY SMTT(30), <1>1, RoomWhenIdle DEF begin_op, Goto
<1>2. ASSUME NEW p \in Proc, NEW b \in Block, Write(p, b) PROVE Waits'
  BY ZenonT(30), <1>2 DEF Write
<1>3. ASSUME NEW p \in Proc, end_op(p) PROVE Waits'
  <2>1. CASE outstanding = 1
    BY ZenonT(30), <1>3, <2>1 DEF end_op, Goto
  <2>2. CASE outstanding # 1
    <3>1. outstanding > 0
      <4>1. Running # {} /\ IsFiniteSet(Running)
        BY ZenonT(30), <1>3, FS_Subset, LogAssumption DEF end_op, Running
      <4> QED
        BY <4>1, FS_EmptySet DEF IInv, Counted
    <3> QED
      BY SMTT(30), <1>3, <2>2, <3>1 DEF end_op, wakeup
  <2> QED
    BY ZenonT(30), <2>1, <2>2
<1>4. ASSUME NEW p \in Proc, Committed(p) PROVE Waits'
  BY SMTT(30), <1>4 DEF Committed, wakeup
<1>5. ASSUME NEW p \in Proc, sys_sync(p) PROVE Waits'
  BY SMTT(30), <1>5 DEF sys_sync, SyncBusy, Goto
<1>6. ASSUME NEW p \in Proc, SyncCheck(p) PROVE Waits'
  BY <1>6 DEF SyncCheck, Goto
<1>7. CASE Background
  BY ZenonT(30), <1>7 DEF Background, WriteLog, CommitNothing, WriteHead, ReadHead, Install, ClearHead
<1>8. ASSUME NEW b \in Block, Load(b) \/ Evict(b) PROVE Waits'
  BY ZenonT(30), <1>8 DEF Load, Evict
<1>9. CASE Crash
  BY <1>9 DEF Crash
<1>10. CASE UNCHANGED vars
  BY ZenonT(30), <1>10 DEF vars
<1> QED
  BY ZenonT(30), <1>1, <1>2, <1>3, <1>4, <1>5, <1>6, <1>7, <1>8, <1>9, <1>10 DEF Next, Step

\* Nobody sleeps in begin_op() or in sync() with no operation outstanding and no
\* commit under way: the wakeup(&log) of end_op() is not missed.
THEOREM WakeupsNotLost == Spec => []NoLostWakeup
<1>1. Init => Waits
  BY DEF Init, Waits, NoLostWakeup
<1>2. IInv /\ Waits /\ [Next]_vars => Waits'
  BY ZenonT(30), StepWaits
<1>3. Waits => NoLostWakeup
  BY ZenonT(30) DEF Waits
<1> QED
  BY <1>1, <1>2, <1>3, Invariance, PTL DEF Spec

-----------------------------------------------------------------------------
\* sync().  An operation that has ended is not active and was never synced before; what
\* has ended or is active is seen; and what a sync() was promised is on the disk when the
\* commits that it waits for have been made.
Covers(S) == \A b \in Block : wrote[b] \cap S \subseteq Recovered[b]
Ended ==
  /\ ended \subseteq 1 .. nops /\ synced \subseteq 1 .. nops
  /\ \A p \in Running : op[p] \notin ended /\ op[p] \notin synced
  /\ promised \in [Proc -> SUBSET ended]
  /\ wrote \in [Block -> SUBSET (1 .. nops)]
Seen ==
  /\ \A b \in Block : wrote[b] \cap (ended \cup Active) \subseteq View[b]
  /\ \A b \in Block : Recovered[b] \subseteq View[b]
Promises ==
  /\ Covers(synced)
  /\ \A p \in Proc : target[p] <= ncommit => Covers(promised[p])
SInv == Ended /\ Seen /\ Promises

\* Numbers of operations are used once, so one that is active has not ended.
LEMMA EndedStep ==
  ASSUME IInv, Ended, [Next]_vars
  PROVE  Ended'
<1> USE DEF Ended, Running
<1>0. nops \in Nat /\ ProcShape
  BY SMTT(30), LogAssumption DEF IInv, Shape, CountShape
<1>1. ASSUME NEW p \in Proc, begin_op(p) PROVE Ended'
  BY SMTT(30), <1>0, <1>1 DEF begin_op, Goto, histVars, ProcShape
<1>2. ASSUME NEW p \in Proc, NEW b \in Block, Write(p, b) PROVE Ended'
  <2>1. op[p] \in 1 .. nops
    BY ZenonT(30), <1>2 DEF Write, IInv, Numbered
  <2>2. wrote' \in [Block -> SUBSET (1 .. nops)]
    BY SMTT(30), <1>2, <2>1 DEF Write
  <2> QED
    BY ZenonT(30), <1>2, <2>2 DEF Write
<1>3. ASSUME NEW p \in Proc, end_op(p) PROVE Ended'
  <2>1. op[p] \in 1 .. nops /\ op[p] \notin ended /\ p \in Running
    BY ZenonT(30), <1>3 DEF end_op, IInv, Numbered
  <2>2. \A q \in Proc : pc'[q] = "op" <=> q # p /\ pc[q] = "op"
    BY ZenonT(30), <1>0, <1>3 DEF end_op, Goto, wakeup, ProcShape
  <2>3. ended' = ended \cup {op[p]} /\ UNCHANGED <<nops, op, wrote, promised, synced>>
    BY ZenonT(30), <1>3 DEF end_op
  <2>4. \A q \in Running' : op'[q] \notin ended' /\ op'[q] \notin synced'
    BY ZenonT(30), <2>1, <2>2, <2>3 DEF IInv, Numbered
  <2>5. promised' \in [Proc -> SUBSET ended']
    BY ZenonT(30), <2>3
  <2> QED
    BY ZenonT(30), <2>1, <2>3, <2>4, <2>5
<1>4. ASSUME NEW p \in Proc, Committed(p) PROVE Ended'
  <2>1. \A q \in Proc : pc'[q] = "op" => pc[q] = "op"
    BY ZenonT(30), <1>0, <1>4 DEF Committed, wakeup, ProcShape
  <2> QED
    BY ZenonT(30), <1>4, <2>1 DEF Committed, histVars
<1>5. ASSUME NEW p \in Proc, sys_sync(p) PROVE Ended'
  BY ZenonT(60), <1>0, <1>5 DEF sys_sync, Goto, ProcShape
<1>6. ASSUME NEW p \in Proc, SyncCheck(p) PROVE Ended'
  BY ZenonT(30), <1>0, <1>6 DEF SyncCheck, Goto, ProcShape
<1>7. CASE Background
  BY ZenonT(30), <1>7 DEF Background, WriteLog, CommitNothing, WriteHead, ReadHead, Install, ClearHead,
     histVars
<1>8. ASSUME NEW b \in Block, Load(b) \/ Evict(b) PROVE Ended'
  BY ZenonT(30), <1>8 DEF Load, Evict, histVars
<1>9. CASE Crash
  BY ZenonT(30), <1>9 DEF Crash
<1>10. CASE UNCHANGED vars
  BY ZenonT(30), <1>10 DEF vars, histVars
<1> QED
  BY ZenonT(30), <1>1, <1>2, <1>3, <1>4, <1>5, <1>6, <1>7, <1>8, <1>9, <1>10 DEF Next, Step

\* What an operation has written is seen until a crash.
LEMMA SeenStep ==
  ASSUME IInv, IInv', Ended, Seen, [Next]_vars
  PROVE  Seen'
<1> USE DEF Seen
<1>0. nops \in Nat /\ ProcShape
  BY SMTT(30), LogAssumption DEF IInv, Shape, CountShape
<1>1. ASSUME NEW p \in Proc, begin_op(p) PROVE Seen'
  <2>1. UNCHANGED <<Recovered, View, wrote, ended>>
    BY ZenonT(30), <1>1, QuietEffect DEF Quiet, begin_op, histVars
  <2>2. Active' \subseteq Active \cup {nops + 1}
    BY ZenonT(30), <1>0, <1>1 DEF begin_op, Goto, Active, ProcShape
  <2>3. \A b \in Block : nops + 1 \notin wrote[b]
    BY <1>0 DEF Ended
  <2> QED
    BY ZenonT(30), <2>1, <2>2, <2>3
<1>2. ASSUME NEW p \in Proc, NEW b \in Block, Write(p, b) PROVE Seen'
  <2>1. UNCHANGED <<ended, Active>> /\ Recovered' = Recovered
    <3>1. UNCHANGED <<ended, Active>>
      BY ZenonT(30), <1>2 DEF Write, Active
    <3> QED
      BY ZenonT(30), <1>2, <3>1, WriteEffect
  <2>2. CASE View' = View /\ wrote' = wrote
    BY ZenonT(30), <2>1, <2>2
  <2>3. CASE /\ View' = [View EXCEPT ![b] = @ \cup {op[p]}]
             /\ wrote' = [wrote EXCEPT ![b] = @ \cup {op[p]}]
    <3>1. \A c \in Block : /\ View'[c] = IF c = b THEN View[b] \cup {op[p]} ELSE View[c]
                           /\ wrote'[c] = IF c = b THEN wrote[b] \cup {op[p]} ELSE wrote[c]
      BY ZenonT(30), <2>3 DEF View, Ended
    <3> QED
      BY ZenonT(30), <2>1, <3>1
  <2> QED
    BY ZenonT(30), <1>2, <2>2, <2>3, WriteEffect
<1>3. ASSUME NEW p \in Proc, end_op(p) PROVE Seen'
  <2>1. UNCHANGED <<Recovered, View, wrote>> /\ ended' = ended \cup {op[p]}
    BY ZenonT(30), <1>3, QuietEffect DEF Quiet, end_op
  <2>2. op[p] \in Active
    BY ZenonT(30), <1>3 DEF end_op, Active
  <2>3. Active' \subseteq Active
    BY ZenonT(30), <1>0, <1>3 DEF end_op, Goto, wakeup, Active, ProcShape
  <2> QED
    BY ZenonT(30), <2>1, <2>2, <2>3
<1>4. ASSUME NEW p \in Proc, Committed(p) \/ sys_sync(p) \/ SyncCheck(p) PROVE Seen'
  <2>1. UNCHANGED <<Recovered, View, wrote, ended, op>>
    BY ZenonT(30), <1>4, QuietEffect DEF Quiet, Committed, sys_sync, SyncCheck, histVars
  <2>2. \A q \in Proc : pc'[q] = "op" => pc[q] = "op"
    BY ZenonT(30), <1>0, <1>4 DEF Committed, wakeup, sys_sync, SyncCheck, Goto, ProcShape
  <2>3. Active' \subseteq Active
    BY ZenonT(30), <2>1, <2>2 DEF Active
  <2> QED
    BY ZenonT(30), <2>1, <2>3
<1>5. CASE WriteHead
  BY ZenonT(30), <1>5, WriteHeadEffect DEF WriteHead, histVars, Active
<1>6. CASE Background /\ ~WriteHead
  <2>1. UNCHANGED <<Recovered, View>>
    BY ZenonT(30), <1>6, QuietEffect DEF Quiet, Background
  <2> QED
    BY ZenonT(30), <1>6, <2>1 DEF Background, WriteLog, CommitNothing, ReadHead, Install, ClearHead,
       histVars, Active
<1>7. ASSUME NEW b \in Block, Load(b) \/ Evict(b) PROVE Seen'
  <2>1. UNCHANGED <<Recovered, View>>
    BY ZenonT(30), <1>7, QuietEffect DEF Quiet
  <2> QED
    BY ZenonT(30), <1>7, <2>1 DEF Load, Evict, histVars, Active
<1>8. CASE Crash
  <2>1. Active' = {} /\ ended' = {}
    BY ZenonT(30), <1>8 DEF Crash, Active
  <2> QED
    BY ZenonT(30), <1>8, <2>1, CrashEffect
<1>9. CASE UNCHANGED vars
  <2>1. UNCHANGED <<Recovered, View>>
    BY ZenonT(30), <1>9, SameBlocks DEF vars, cacheVars
  <2>2. UNCHANGED <<wrote, ended, op, pc>>
    BY ZenonT(30), <1>9 DEF vars, histVars
  <2>3. Active' = Active
    BY ZenonT(30), <2>2 DEF Active
  <2> QED
    BY ZenonT(30), <2>1, <2>2, <2>3
<1> QED
  BY ZenonT(30), <1>1, <1>2, <1>3, <1>4, <1>5, <1>6, <1>7, <1>8, <1>9 DEF Next, Step

\* When no commit is to come, all that has ended is on the disk.
LEMMA EndedCovered ==
  ASSUME IInv, Seen, up, n = 0, hn = 0
  PROVE  Covers(ended)
BY ZenonT(30), Settled DEF Seen, Covers

\* A sync() that may return has what it was promised on the disk.
LEMMA PromisesStep ==
  ASSUME IInv, IInv', SInv, [Next]_vars
  PROVE  Promises'
<1> USE DEF SInv, Promises, Covers
<1>0. ncommit \in Nat /\ ProcShape
  BY ZenonT(30) DEF IInv, Shape, CountShape
<1>1. ASSUME NEW p \in Proc, begin_op(p) \/ end_op(p) PROVE Promises'
  <2>1. UNCHANGED Recovered
    BY ZenonT(30), <1>1, QuietEffect DEF Quiet
  <2> QED
    BY ZenonT(30), <1>1, <2>1 DEF begin_op, end_op, histVars
<1>2. ASSUME NEW p \in Proc, NEW b \in Block, Write(p, b) PROVE Promises'
  <2>1. op[p] \notin synced /\ op[p] \notin ended
    BY ZenonT(30), <1>2 DEF Write, Ended, Running
  <2>2. \A q \in Proc : op[p] \notin promised[q]
    BY ZenonT(30), <2>1 DEF Ended
  <2>3. \A c \in Block : wrote'[c] \subseteq wrote[c] \cup {op[p]}
    BY ZenonT(30), <1>2 DEF Write, Ended
  <2>4. UNCHANGED <<synced, promised, target, ncommit, Recovered>>
    BY ZenonT(30), <1>2, WriteEffect DEF Write
  <2> QED
    BY SMTT(30), <2>1, <2>2, <2>3, <2>4
<1>3. ASSUME NEW p \in Proc, Committed(p) PROVE Promises'
  <2>1. UNCHANGED <<Recovered, wrote, synced, promised, target>>
    BY ZenonT(30), <1>3, QuietEffect DEF Quiet, Committed, histVars
  <2>2. up /\ n = 0 /\ hn = 0
    BY ZenonT(30), <1>3 DEF Committed, IInv, Headers, Modes, Shape, FlagShape
  <2>3. Covers(ended)
    BY ZenonT(30), <2>2, EndedCovered
  <2>4. \A q \in Proc : promised[q] \subseteq ended
    BY ZenonT(30) DEF Ended
  <2> QED
    BY ZenonT(30), <2>1, <2>3, <2>4
<1>4. ASSUME NEW p \in Proc, sys_sync(p) PROVE Promises'
  <2>1. UNCHANGED <<Recovered, wrote, ncommit>>
    BY ZenonT(30), <1>4, QuietEffect DEF Quiet, sys_sync
  <2>2. CASE SyncBusy
    <3>1. /\ target' = [target EXCEPT ![p] = ncommit + 1] /\ synced' = synced
          /\ promised' = [promised EXCEPT ![p] = ended]
      BY ZenonT(30), <1>4, <2>2 DEF sys_sync
    <3>2. target \in [Proc -> Nat] /\ DOMAIN promised = Proc
      BY ZenonT(30), <1>0 DEF ProcShape, Ended
    <3>3. /\ target'[p] = ncommit + 1 /\ ~(target'[p] <= ncommit)
          /\ \A q \in Proc : q # p => target'[q] = target[q] /\ promised'[q] = promised[q]
      BY SMTT(30), <1>0, <3>1, <3>2
    <3> QED BY ZenonT(30), <2>1, <3>1, <3>3
  <2>3. CASE ~SyncBusy
    <3>1. Running = {}
      <4>1. IsFiniteSet(Running)
        BY ZenonT(30), FS_Subset, LogAssumption DEF Running
      <4>2. outstanding = Cardinality(Running) /\ Cardinality(Running) \in Nat
        BY ZenonT(30), <4>1, FS_CardinalityType DEF IInv, Counted
      <4>3. Cardinality(Running) = 0
        BY SMTT(30), <2>3, <4>2 DEF SyncBusy
      <4> QED
        BY ZenonT(30), <4>1, <4>3, FS_EmptySet
    <3>2. up /\ n = 0 /\ hn = 0
      BY ZenonT(30), <1>4, <2>3, <3>1 DEF sys_sync, SyncBusy, IInv, Modes, Headers
    <3>3. Covers(ended)
      BY ZenonT(30), <3>2, EndedCovered
    <3> QED
      BY ZenonT(30), <1>4, <2>1, <2>3, <3>3 DEF sys_sync
  <2> QED
    BY ZenonT(30), <2>2, <2>3
<1>5. ASSUME NEW p \in Proc, SyncCheck(p) PROVE Promises'
  <2>1. UNCHANGED <<Recovered, wrote, ncommit>>
    BY ZenonT(30), <1>5, QuietEffect DEF Quiet, SyncCheck
  <2>2. CASE ncommit < target[p]
    BY ZenonT(30), <1>5, <2>1, <2>2 DEF SyncCheck
  <2>3. CASE ~(ncommit < target[p])
    <3>1. Covers(promised[p])
      BY SMTT(30), <1>0, <2>3 DEF ProcShape
    <3>2. /\ synced' = synced \cup promised[p] /\ promised' = [promised EXCEPT ![p] = {}]
          /\ target' = [target EXCEPT ![p] = 0]
      BY ZenonT(30), <1>5, <2>3 DEF SyncCheck
    <3>3. \A q \in Proc : promised'[q] = IF q = p THEN {} ELSE promised[q]
      BY ZenonT(30), <3>2 DEF Ended
    <3>4. \A q \in Proc : q # p => target'[q] = target[q]
      BY ZenonT(30), <1>0, <3>2 DEF ProcShape
    <3> QED
      BY SMTT(30), <2>1, <3>1, <3>2, <3>3, <3>4
  <2> QED
    BY ZenonT(30), <2>2, <2>3
<1>6. CASE WriteHead
  <2>1. \A b \in Block : Recovered[b] \subseteq Recovered'[b]
    BY ZenonT(30), <1>6, WriteHeadEffect DEF Seen
  <2> QED
    BY ZenonT(30), <1>6, <2>1 DEF WriteHead, histVars
<1>7. CASE Background /\ ~WriteHead
  <2>1. UNCHANGED Recovered
    BY ZenonT(30), <1>7, QuietEffect DEF Quiet, Background
  <2> QED
    BY ZenonT(30), <1>7, <2>1 DEF Background, WriteLog, CommitNothing, ReadHead, Install, ClearHead, histVars
<1>8. ASSUME NEW b \in Block, Load(b) \/ Evict(b) PROVE Promises'
  <2>1. UNCHANGED Recovered
    BY ZenonT(30), <1>8, QuietEffect DEF Quiet
  <2> QED
    BY ZenonT(30), <1>8, <2>1 DEF Load, Evict, histVars
<1>9. CASE Crash
  BY ZenonT(30), <1>9, CrashEffect DEF Crash
<1>10. CASE UNCHANGED vars
  BY <1>10 DEF vars, diskVars, histVars, Recovered
<1> QED
  BY ZenonT(30), <1>1, <1>2, <1>3, <1>4, <1>5, <1>6, <1>7, <1>8, <1>9, <1>10 DEF Next, Step

\* What had ended when sync() was called is on the disk, or in the log that recovery
\* replays, once sync() has returned, and no crash undoes it.
THEOREM SyncsSurvive == Spec => []SyncDurable
<1>1. Init => SInv
  BY ZenonT(30) DEF Init, SInv, Ended, Seen, Promises, Covers, Running, Active, Recovered, View
<1>2. IInv /\ IInv' /\ SInv /\ [Next]_vars => SInv'
  BY ZenonT(30), EndedStep, SeenStep, PromisesStep DEF SInv
<1>3. SInv => SyncDurable
  BY ZenonT(30) DEF SInv, Promises, Covers, SyncDurable
<1> QED
  BY <1>1, <1>2, <1>3, Invariance, PTL DEF Spec
=============================================================================
