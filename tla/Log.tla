--------------------------------- MODULE Log ---------------------------------
(***************************************************************************)
(* kernel/log.c: the redo log, with the processes that call begin_op(),    *)
(* log_write(), end_op() and sync(), the disk, and crashes at any moment,  *)
(* also during recovery.  A section under log.lock is one step, and so is  *)
(* the write of a block.  The buffer cache is what log.c sees of bio.c: a  *)
(* block that is pinned stays, any other may be dropped at any time.       *)
(***************************************************************************)
EXTENDS Naturals, FiniteSets

CONSTANTS
  Proc, Block,
  MAXOPBLOCKS, LOGBLOCKS,
  OPBLOCKS,     (* the blocks that an operation really changes             *)
  MAX_OPS,      (* bound: the operations begun                             *)
  MAX_CRASHES   (* bound                                                   *)

ASSUME LogAssumption ==
  /\ MAXOPBLOCKS \in Nat /\ LOGBLOCKS \in Nat /\ OPBLOCKS \in Nat /\ MAX_OPS \in Nat
  /\ OPBLOCKS < MAXOPBLOCKS /\ MAXOPBLOCKS <= LOGBLOCKS
  /\ IsFiniteSet(Proc) /\ Block # {}

Op   == 1 .. MAX_OPS
Slot == 1 .. LOGBLOCKS

VARIABLES
  home,        \* the disk: every block in its place,
  logblk,      \*   the blocks of the log,
  hn, hblock,  \*   and its header
  cached, cache, pinned,                      \* the buffer cache
  n, block, outstanding, committing, ncommit, \* struct log
  up,          \* whether recover_from_log() is over
  phase, tail, \* where commit() or recover_from_log() is
  pc, op,      \* where a process is, and its operation
  target,      \* n in sys_sync()
  nops, crashes, panicked,
  wrote,       \* history: the operations that changed a block,
  ended,       \*   those that have ended since the last crash,
  promised,    \*   those that had ended when a process called sync(),
  synced       \*   and those that a sync() has returned for

diskVars == <<home, logblk, hn, hblock>>
cacheVars == <<cached, cache, pinned>>
headVars == <<n, block>>
histVars == <<wrote, ended, promised, synced>>
vars == <<diskVars, cacheVars, headVars, outstanding, committing, ncommit, up, phase, tail,
          pc, op, target, nops, crashes, panicked, histVars>>

Init ==
  /\ home = [b \in Block |-> {}] /\ logblk = [i \in Slot |-> {}]
  /\ hn = 0 /\ hblock = [i \in Slot |-> CHOOSE b \in Block : TRUE]
  /\ cached = {} /\ cache = [b \in Block |-> {}] /\ pinned = {}
  /\ n = 0 /\ block = hblock
  /\ outstanding = 0 /\ committing = FALSE /\ ncommit = 0
  /\ up = FALSE /\ phase = "read" /\ tail = 0
  /\ pc = [p \in Proc |-> "idle"] /\ op = [p \in Proc |-> 0]
  /\ target = [p \in Proc |-> 0]
  /\ nops = 0 /\ crashes = 0 /\ panicked = FALSE
  /\ wrote = [b \in Block |-> {}]
  /\ ended = {} /\ promised = [p \in Proc |-> {}] /\ synced = {}

\* What bread() returns the contents of.
Contents(b) == IF b \in cached THEN cache[b] ELSE home[b]

-----------------------------------------------------------------------------
\* The buffer cache: a block is read, or its buffer used for another one.

Load(b) ==
  /\ up /\ b \notin cached
  /\ cached' = cached \cup {b} /\ cache' = [cache EXCEPT ![b] = home[b]]
  /\ UNCHANGED <<diskVars, pinned, headVars, outstanding, committing, ncommit, up, phase,
                 tail, pc, op, target, nops, crashes, panicked, histVars>>

Evict(b) ==
  /\ b \in cached \ pinned
  /\ cached' = cached \ {b} /\ cache' = [cache EXCEPT ![b] = {}]
  /\ UNCHANGED <<diskVars, pinned, headVars, outstanding, committing, ncommit, up, phase,
                 tail, pc, op, target, nops, crashes, panicked, histVars>>

-----------------------------------------------------------------------------
Goto(p, where) == pc' = [pc EXCEPT ![p] = where]

\* wakeup(&log), by p, which goes on at `where'.
wakeup(p, where) ==
  pc' = [q \in Proc |-> CASE q = p -> where
                          [] q # p /\ pc[q] = "begin_sleep" -> "begin"
                          [] q # p /\ pc[q] = "sync_sleep" -> "sync"
                          [] OTHER -> pc[q]]

\* Faulty variant: begin_op() does not wait for a commit.
MustWait_NotCommit == n + (outstanding + 1) * MAXOPBLOCKS > LOGBLOCKS

MustWait == committing \/ n + (outstanding + 1) * MAXOPBLOCKS > LOGBLOCKS

begin_op(p) ==
  /\ up /\ pc[p] \in {"idle", "begin"} /\ nops < MAX_OPS
  /\ \/ /\ MustWait
        /\ Goto(p, "begin_sleep")
        /\ UNCHANGED <<outstanding, nops, op>>
     \/ /\ ~MustWait
        /\ outstanding' = outstanding + 1
        /\ nops' = nops + 1 /\ op' = [op EXCEPT ![p] = nops + 1]
        /\ Goto(p, "op")
  /\ UNCHANGED <<diskVars, cacheVars, headVars, committing, ncommit, up, phase, tail, target,
                 crashes, panicked, histVars>>

\* log_write(): the block is in the header already, or is entered and pinned.
log_write(b) ==
  IF \E i \in 1 .. n : block[i] = b
  THEN UNCHANGED <<n, block, pinned>>
  ELSE /\ n' = n + 1 /\ block' = [block EXCEPT ![n + 1] = b]
       /\ pinned' = pinned \cup {b}

\* An operation changes a block: bread(), the change, log_write(), brelse().  The
\* panics: "too big a transaction" and "log_write outside of trans".
Write(p, b) ==
  /\ pc[p] = "op"
  /\ op[p] \in wrote[b] \/ Cardinality({c \in Block : op[p] \in wrote[c]}) < OPBLOCKS
  /\ IF n >= LOGBLOCKS \/ outstanding < 1
     THEN panicked' = TRUE /\ UNCHANGED <<cacheVars, headVars, wrote>>
     ELSE /\ cached' = cached \cup {b}
          /\ cache' = [cache EXCEPT ![b] = Contents(b) \cup {op[p]}]
          /\ log_write(b)
          /\ wrote' = [wrote EXCEPT ![b] = @ \cup {op[p]}]
          /\ UNCHANGED panicked
  /\ UNCHANGED <<diskVars, outstanding, committing, ncommit, up, phase, tail, pc, op, target,
                 nops, crashes, ended, promised, synced>>

\* The first half of end_op().  The last operation commits; the panic is for an end
\* during a commit.
end_op(p) ==
  /\ pc[p] = "op"
  /\ panicked' = committing
  /\ outstanding' = outstanding - 1
  /\ IF outstanding = 1
     THEN committing' = TRUE /\ phase' = "log" /\ tail' = 0 /\ Goto(p, "commit")
     ELSE wakeup(p, "idle") /\ UNCHANGED <<committing, phase, tail>>
  /\ ended' = ended \cup {op[p]}
  /\ UNCHANGED <<diskVars, cacheVars, headVars, ncommit, up, op, target, nops, crashes,
                 wrote, promised, synced>>

-----------------------------------------------------------------------------
\* commit(), by the process that has ended the last operation, and recovery.

\* One block of write_log().
WriteLog ==
  /\ phase = "log" /\ tail < n
  /\ logblk' = [logblk EXCEPT ![tail + 1] = Contents(block[tail + 1])]
  /\ tail' = tail + 1
  /\ UNCHANGED <<home, hn, hblock, cacheVars, headVars, outstanding, committing, ncommit, up,
                 phase, pc, op, target, nops, crashes, panicked, histVars>>

\* Nothing was logged, and nothing is committed.
CommitNothing ==
  /\ phase = "log" /\ n = 0
  /\ phase' = "done"
  /\ UNCHANGED <<diskVars, cacheVars, headVars, outstanding, committing, ncommit, up, tail,
                 pc, op, target, nops, crashes, panicked, histVars>>

\* Faulty variant: the header is written before the blocks.
LogWritten_AtOnce == n > 0

LogWritten == n > 0 /\ tail = n

\* write_head(): the transaction commits.
WriteHead ==
  /\ phase = "log" /\ LogWritten
  /\ hn' = n
  /\ hblock' = [i \in Slot |-> IF i <= n THEN block[i] ELSE hblock[i]]
  /\ phase' = "install" /\ tail' = 0
  /\ UNCHANGED <<home, logblk, cacheVars, headVars, outstanding, committing, ncommit, up, pc,
                 op, target, nops, crashes, panicked, histVars>>

\* read_head(), first thing after a crash.
ReadHead ==
  /\ phase = "read"
  /\ n' = hn
  /\ block' = [i \in Slot |-> IF i <= hn THEN hblock[i] ELSE block[i]]
  /\ phase' = "install" /\ tail' = 0
  /\ UNCHANGED <<diskVars, cacheVars, outstanding, committing, ncommit, up, pc, op, target,
                 nops, crashes, panicked, histVars>>

\* One block of install_trans(), which unpins it unless the system recovers.
Install ==
  LET b == block[tail + 1]
  IN /\ phase = "install" /\ tail < n
     /\ cached' = cached \cup {b}
     /\ cache' = [cache EXCEPT ![b] = logblk[tail + 1]]
     /\ home' = [home EXCEPT ![b] = logblk[tail + 1]]
     /\ pinned' = IF up THEN pinned \ {b} ELSE pinned
     /\ tail' = tail + 1
     /\ UNCHANGED <<logblk, hn, hblock, headVars, outstanding, committing, ncommit, up, phase,
                    pc, op, target, nops, crashes, panicked, histVars>>

\* log.lh.n = 0 and write_head().
ClearHead ==
  /\ phase = "install" /\ tail = n
  /\ n' = 0 /\ hn' = 0
  /\ phase' = IF up THEN "done" ELSE "none"
  /\ up' = TRUE /\ tail' = 0
  /\ UNCHANGED <<home, logblk, hblock, cacheVars, block, outstanding, committing, ncommit, pc,
                 op, target, nops, crashes, panicked, histVars>>

\* The second half of end_op(), after commit().
Committed(p) ==
  /\ pc[p] = "commit" /\ phase = "done"
  /\ committing' = FALSE /\ ncommit' = ncommit + 1
  /\ phase' = "none"
  /\ wakeup(p, "idle")
  /\ UNCHANGED <<diskVars, cacheVars, headVars, outstanding, up, tail, op, target, nops,
                 crashes, panicked, histVars>>

-----------------------------------------------------------------------------
\* Faulty variant: a commit that is under way is not waited for.
SyncBusy_NoCommit == outstanding > 0

SyncBusy == committing \/ outstanding > 0

\* sys_sync(): returns at once, or waits for one more commit.
sys_sync(p) ==
  /\ up /\ pc[p] = "idle"
  /\ IF SyncBusy
     THEN /\ target' = [target EXCEPT ![p] = ncommit + 1]
          /\ promised' = [promised EXCEPT ![p] = ended]
          /\ Goto(p, "sync_sleep") /\ UNCHANGED synced
     ELSE synced' = synced \cup ended /\ UNCHANGED <<target, promised, pc>>
  /\ UNCHANGED <<diskVars, cacheVars, headVars, outstanding, committing, ncommit, up, phase,
                 tail, op, nops, crashes, panicked, wrote, ended>>

\* The loop of sys_sync(), woken up.
SyncCheck(p) ==
  /\ pc[p] = "sync"
  /\ IF ncommit < target[p]
     THEN Goto(p, "sync_sleep") /\ UNCHANGED <<target, promised, synced>>
     ELSE /\ synced' = synced \cup promised[p]
          /\ promised' = [promised EXCEPT ![p] = {}]
          /\ target' = [target EXCEPT ![p] = 0]
          /\ Goto(p, "idle")
  /\ UNCHANGED <<diskVars, cacheVars, headVars, outstanding, committing, ncommit, up, phase,
                 tail, op, nops, crashes, panicked, wrote, ended>>

\* The machine stops and starts again: the disk is what is left.
Crash ==
  /\ crashes < MAX_CRASHES /\ crashes' = crashes + 1
  /\ cached' = {} /\ cache' = [b \in Block |-> {}] /\ pinned' = {}
  /\ n' = 0 /\ outstanding' = 0 /\ committing' = FALSE /\ ncommit' = 0
  /\ up' = FALSE /\ phase' = "read" /\ tail' = 0
  /\ pc' = [p \in Proc |-> "idle"] /\ op' = [p \in Proc |-> 0]
  /\ target' = [p \in Proc |-> 0]
  /\ ended' = {} /\ promised' = [p \in Proc |-> {}]
  /\ UNCHANGED <<diskVars, block, nops, panicked, wrote, synced>>

Step(p) ==
  \/ begin_op(p) \/ (\E b \in Block : Write(p, b))
  \/ end_op(p) \/ Committed(p) \/ sys_sync(p) \/ SyncCheck(p)

Background == WriteLog \/ CommitNothing \/ WriteHead \/ ReadHead \/ Install \/ ClearHead

Next ==
  /\ ~panicked
  /\ \/ \E p \in Proc : Step(p)
     \/ Background
     \/ \E b \in Block : Load(b) \/ Evict(b)
     \/ Crash

Spec == Init /\ [][Next]_vars

-----------------------------------------------------------------------------
\* What recovery makes of the disk.
Recovered ==
  [b \in Block |-> IF \E i \in 1 .. hn : hblock[i] = b
                   THEN logblk[CHOOSE i \in 1 .. hn : hblock[i] = b]
                   ELSE home[b]]

\* Types, and the length of the log.
TypeOK ==
  /\ home \in [Block -> SUBSET Op] /\ logblk \in [Slot -> SUBSET Op]
  /\ hn \in 0 .. LOGBLOCKS /\ hblock \in [Slot -> Block]
  /\ cached \subseteq Block /\ cache \in [Block -> SUBSET Op] /\ pinned \subseteq Block
  /\ n \in 0 .. LOGBLOCKS /\ block \in [Slot -> Block]
  /\ outstanding \in Nat /\ committing \in BOOLEAN /\ ncommit \in Nat
  /\ up \in BOOLEAN /\ phase \in {"none", "read", "log", "install", "done"}
  /\ tail \in 0 .. LOGBLOCKS
  /\ pc \in [Proc -> {"idle", "begin", "begin_sleep", "op", "commit", "sync", "sync_sleep"}]
  /\ op \in [Proc -> 0 .. MAX_OPS] /\ target \in [Proc -> Nat]
  /\ nops \in 0 .. MAX_OPS /\ panicked \in BOOLEAN

\* None of the panics of log.c happens: operations that change fewer than MAXOPBLOCKS
\* blocks never fill the log, and nobody ends or writes outside of an operation.
NoPanic == ~panicked

\* A process that sleeps on &log will be woken up: an operation has not ended, or
\* a commit is not over.
NoLostWakeup ==
  \A p \in Proc : pc[p] \in {"begin_sleep", "sync_sleep"} => outstanding > 0 \/ committing

\* What had ended when a sync() was called survives every crash once it has returned.
SyncDurable == \A b \in Block : wrote[b] \cap synced \subseteq Recovered[b]

\* The operations that have begun and not ended, and what they see of the blocks.
Active == {op[p] : p \in {q \in Proc : pc[q] = "op"}}
View == [b \in Block |-> IF up THEN Contents(b) ELSE Recovered[b]]

\* The log implements atomic durability: whatever the moment of a crash, recovery
\* gives the blocks as they were at a commit, which has no operation active, and a
\* crash during recovery changes nothing.
Store == INSTANCE FsStore WITH store <- Recovered, view <- View, active <- Active
IsAtomic == Store!Spec
=============================================================================
