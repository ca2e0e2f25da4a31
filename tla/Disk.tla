-------------------------------- MODULE Disk --------------------------------
(***************************************************************************)
(* kernel/bio.c, kernel/sleeplock.c and kernel/virtio_disk.c: processes    *)
(* that read, change, write and pin blocks through the buffer cache, the   *)
(* sleep lock of each buffer, and the driver with its descriptors, the     *)
(* rings it shares with the device, and the interrupt.  A section under a  *)
(* spin lock is one step, except virtio_disk_intr(), during which the      *)
(* device goes on.  The used ring is the sequence of its unread entries,   *)
(* the available ring the set of the requests the device has not finished. *)
(***************************************************************************)
EXTENDS Naturals, Sequences, FiniteSets, FiniteSetsExt

CONSTANTS
  Proc, Block,
  Uses,         (* bound: the blocks that each process reads,    *)
  Changed,      (*   and those that are changed and written      *)
  NBUF,
  NUMS,         (* the values of NUM, the number of descriptors  *)
  None          (* no process, no block *)

ASSUME DiskAssumption ==
  /\ NBUF \in Nat \ {0} /\ NUMS \subseteq Nat \ {0, 1, 2} /\ IsFiniteSet(NUMS)
  /\ IsFiniteSet(Proc) /\ Changed \subseteq Block /\ None \notin Proc \cup Block
  /\ Uses \in [Proc -> SUBSET Block]

Buf  == 1 .. NBUF
Desc == 0 .. Max(NUMS) - 1
Data == {0, 1}

VARIABLES
  platter, irq,            \* the device: its blocks, its interrupt
  lru,                     \* bcache: the list from head.next on,
  blockno, refcnt,         \*   and what bcache.lock protects of each struct buf
  valid, data, owned,      \* the rest of struct buf (`owned' is b->disk),
  holder,                  \*   with the process that has its lock
  num, free, desc, info,   \* struct disk,
  avail, used,             \*   and its rings
  handling,                \* virtio_disk_intr() runs
  pc, cur, write, head,    \* where a process is, its buffer, and its request
  dirty, pins,             \* history: changed and not written; pinned and not unpinned
  panicked

devVars == <<platter, irq>>
cacheVars == <<lru, blockno, refcnt>>
bufVars == <<valid, data, owned>>
ringVars == <<num, free, desc, info, avail, used>>
procVars == <<cur, write, head>>
histVars == <<dirty, pins>>
vars == <<devVars, cacheVars, bufVars, holder, ringVars, handling, pc, procVars, histVars,
          panicked>>

\* A descriptor: VRING_DESC_F_NEXT, next, and the operation that the addresses of
\* the chain lead to.
NoOp   == [write |-> FALSE, block |-> None, buf |-> 0]
NoDesc == [more |-> FALSE, next |-> 0, op |-> NoOp]
NoInfo == [buf |-> 0, status |-> 0]

\* virtio_disk_init(), once it has agreed with the device.
virtio_disk_init ==
  /\ irq = FALSE /\ handling = FALSE
  /\ num \in NUMS /\ free = 0 .. num - 1 /\ desc = [i \in Desc |-> NoDesc]
  /\ info = [i \in Desc |-> NoInfo]
  /\ avail = {} /\ used = <<>>

binit ==
  /\ lru = [i \in Buf |-> NBUF + 1 - i]
  /\ blockno = [b \in Buf |-> None] /\ refcnt = [b \in Buf |-> 0]
  /\ valid = [b \in Buf |-> FALSE] /\ data = [b \in Buf |-> 0]
  /\ owned = [b \in Buf |-> FALSE] /\ holder = [b \in Buf |-> None]

Init ==
  /\ platter = [k \in Block |-> 0]
  /\ virtio_disk_init /\ binit
  /\ pc = [p \in Proc |-> "idle"] /\ cur = [p \in Proc |-> 0]
  /\ write = [p \in Proc |-> FALSE] /\ head = [p \in Proc |-> 0]
  /\ dirty = [b \in Buf |-> FALSE] /\ pins = [b \in Buf |-> 0]
  /\ panicked = "no"

At(p, where) == pc[p] = where /\ panicked = "no"
Goto(p, where) == pc' = [pc EXCEPT ![p] = where]

\* Where a process that sleeps at a place goes on.
Awake ==
  [w \in {"lock_sleep", "rw_sleep", "wait_sleep"} |->
     CASE w = "lock_sleep" -> "lock" [] w = "rw_sleep" -> "rw" [] w = "wait_sleep" -> "wait"]

\* wakeup() of the sleepers of W, by p, which goes on at `where'.
wakeup(W, p, where) ==
  pc' = [q \in Proc |-> IF q = p THEN where ELSE IF q \in W THEN Awake[pc[q]] ELSE pc[q]]

\* The processes that sleep on the lock of b, on disk.free[0], and on b.
OnLock(b) == {q \in Proc : pc[q] = "lock_sleep" /\ cur[q] = b}

\* Faulty variant: nobody is woken up when descriptors come free.
OnFree_None == {}

OnFree == {q \in Proc : pc[q] = "rw_sleep"}

OnBuf(b) == {q \in Proc : pc[q] = "wait_sleep" /\ cur[q] = b}

panic(why) ==
  /\ panicked' = why
  /\ UNCHANGED <<devVars, cacheVars, bufVars, holder, ringVars, handling, pc, procVars, histVars>>

-----------------------------------------------------------------------------
\* bio.c

Cached(k) == \E b \in Buf : blockno[b] = k

\* Faulty variant: a buffer is used again although it is in use.
Recycled_InUse(b) == b = lru[NBUF]

\* The buffer that bget() uses again: the unused one nearest to the end of the list.
Recycled(b) ==
  /\ refcnt[b] = 0
  /\ \E i \in Buf : lru[i] = b /\ \A j \in i + 1 .. NBUF : refcnt[lru[j]] > 0

\* One more reference to b.
Referenced(b) == [refcnt EXCEPT ![b] = @ + 1]

\* bget(): the block is cached, or a buffer is used again for it.
bget(p, k) ==
  /\ At(p, "idle")
  /\ \E b \in Buf :
       /\ \/ /\ blockno[b] = k
             /\ refcnt' = Referenced(b)
             /\ UNCHANGED <<blockno, valid>>
          \/ /\ ~Cached(k) /\ Recycled(b)
             /\ blockno' = [blockno EXCEPT ![b] = k]
             /\ valid' = [valid EXCEPT ![b] = FALSE]
             /\ refcnt' = [refcnt EXCEPT ![b] = 1]
       /\ cur' = [cur EXCEPT ![p] = b]
  /\ Goto(p, "lock")
  /\ UNCHANGED <<devVars, lru, data, owned, holder, ringVars, handling, write, head, histVars,
                 panicked>>

NoBuffers(p, k) ==
  At(p, "idle") /\ ~Cached(k) /\ (\A b \in Buf : refcnt[b] > 0) /\ panic("bget")

\* acquiresleep() at the end of bget(), and the test of b->valid in bread().
acquiresleep(p) ==
  LET b == cur[p]
  IN /\ At(p, "lock")
     /\ IF holder[b] # None
        THEN Goto(p, "lock_sleep") /\ UNCHANGED holder
        ELSE /\ holder' = [holder EXCEPT ![b] = p]
             /\ Goto(p, IF valid[b] THEN "have" ELSE "rw")
     /\ UNCHANGED <<devVars, cacheVars, bufVars, ringVars, handling, procVars, histVars,
                    panicked>>

\* The process that has the buffer changes its contents.
Change(p) ==
  /\ At(p, "have") /\ blockno[cur[p]] \in Changed
  /\ data' = [data EXCEPT ![cur[p]] = 1 - @]
  /\ dirty' = [dirty EXCEPT ![cur[p]] = TRUE]
  /\ UNCHANGED <<devVars, cacheVars, valid, owned, holder, ringVars, handling, pc, procVars,
                 pins, panicked>>

\* As the log calls it: for a block that has been changed.
bwrite(p) ==
  /\ At(p, "have") /\ dirty[cur[p]]
  /\ write' = [write EXCEPT ![p] = TRUE]
  /\ Goto(p, "rw")
  /\ UNCHANGED <<devVars, cacheVars, bufVars, holder, ringVars, handling, cur, head, histVars,
                 panicked>>

\* As log_write() calls it: for a changed block, once.
bpin(p) ==
  LET b == cur[p]
  IN /\ At(p, "have") /\ dirty[b] /\ pins[b] = 0
     /\ refcnt' = Referenced(b)
     /\ pins' = [pins EXCEPT ![b] = @ + 1]
     /\ UNCHANGED <<devVars, lru, blockno, bufVars, holder, ringVars, handling, pc, procVars,
                    dirty, panicked>>

\* As install_trans() calls it: after bwrite().
bunpin(p) ==
  LET b == cur[p]
  IN /\ At(p, "have") /\ ~dirty[b] /\ pins[b] > 0
     /\ refcnt' = [refcnt EXCEPT ![b] = @ - 1]
     /\ pins' = [pins EXCEPT ![b] = @ - 1]
     /\ UNCHANGED <<devVars, lru, blockno, bufVars, holder, ringVars, handling, pc, procVars,
                    dirty, panicked>>

\* releasesleep() in brelse().  A change has been written, or the block is pinned.
releasesleep(p) ==
  LET b == cur[p]
  IN /\ At(p, "have") /\ (dirty[b] => pins[b] > 0)
     /\ holder' = [holder EXCEPT ![b] = None]
     /\ wakeup(OnLock(b), p, "brelse")
     /\ UNCHANGED <<devVars, cacheVars, bufVars, ringVars, handling, procVars, histVars, panicked>>

\* The list with b at its head.
MovedToHead(b) ==
  LET at == CHOOSE i \in Buf : lru[i] = b
  IN [i \in Buf |-> IF i = 1 THEN b ELSE IF i <= at THEN lru[i - 1] ELSE lru[i]]

\* The rest of brelse().
brelse(p) ==
  LET b == cur[p]
  IN /\ At(p, "brelse")
     /\ refcnt' = [refcnt EXCEPT ![b] = @ - 1]
     /\ lru' = IF refcnt[b] = 1 THEN MovedToHead(b) ELSE lru
     /\ cur' = [cur EXCEPT ![p] = 0]
     /\ Goto(p, "idle")
     /\ UNCHANGED <<devVars, blockno, bufVars, holder, ringVars, handling, write, head, histVars,
                    panicked>>

-----------------------------------------------------------------------------
\* virtio_disk.c.  Nobody else is in it while virtio_disk_intr() has vdisk_lock.

alloc_desc(F) == Min(F)

\* alloc3_desc() succeeds.
Three == Cardinality(free) >= 3

\* free_desc() of the descriptors of C, one after the other.
free_desc(C) ==
  /\ free' = free \cup C
  /\ desc' = [i \in Desc |-> IF i \in C THEN NoDesc ELSE desc[i]]

\* alloc3_desc() fails, after it has taken and freed what there is: free_desc()
\* wakes up the others.
AllocFails(p) ==
  /\ At(p, "rw") /\ ~handling /\ ~Three
  /\ wakeup(IF free = {} THEN {} ELSE OnFree, p, "rw_sleep")
  /\ UNCHANGED <<devVars, cacheVars, bufVars, holder, ringVars, handling, procVars, histVars,
                 panicked>>

\* The request is formatted and made available, and the process sleeps on b.
Submit(p) ==
  LET b == cur[p]
      i == alloc_desc(free)
      j == alloc_desc(free \ {i})
      k == alloc_desc(free \ {i, j})
  IN /\ At(p, "rw") /\ ~handling /\ Three
     /\ free' = free \ {i, j, k}
     /\ desc' = [desc EXCEPT ![i] = [more |-> TRUE, next |-> j,
                                     op |-> [write |-> write[p], block |-> blockno[b], buf |-> b]],
                             ![j] = [more |-> TRUE, next |-> k, op |-> NoOp],
                             ![k] = [more |-> FALSE, next |-> 0, op |-> NoOp]]
     /\ info' = [info EXCEPT ![i] = [buf |-> b, status |-> 255]]
     /\ owned' = [owned EXCEPT ![b] = TRUE]
     /\ avail' = avail \cup {i}
     /\ head' = [head EXCEPT ![p] = i]
     /\ Goto(p, "wait_sleep")
     /\ UNCHANGED <<devVars, cacheVars, valid, data, holder, num, used, handling, cur, write,
                    histVars, panicked>>

\* virtio_disk_rw() looks again at b->disk, and the request is not over yet.
NotYet(p) ==
  /\ At(p, "wait") /\ ~handling /\ owned[cur[p]]
  /\ Goto(p, "wait_sleep")
  /\ UNCHANGED <<devVars, cacheVars, bufVars, holder, ringVars, handling, procVars, histVars,
                 panicked>>

\* Faulty variant: only the first descriptor is freed.
Chain_First(i) == {i}

\* The descriptors that free_chain() frees.
Chain(i) ==
  LET j == desc[i].next
  IN IF ~desc[i].more THEN {i} ELSE IF ~desc[j].more THEN {i, j} ELSE {i, j, desc[j].next}

\* The request is over: free_chain(), and the end of bread() or bwrite().
Finished(p) ==
  LET b == cur[p]
      C == Chain(head[p])
  IN /\ At(p, "wait") /\ ~handling /\ ~owned[b]
     /\ IF C \cap free # {}
        THEN panic("free_desc")
        ELSE /\ info' = [info EXCEPT ![head[p]].buf = 0]
             /\ free_desc(C)
             /\ valid' = [valid EXCEPT ![b] = @ \/ ~write[p]]
             /\ dirty' = [dirty EXCEPT ![b] = @ /\ ~write[p]]
             /\ wakeup(OnFree, p, "have")
             /\ write' = [write EXCEPT ![p] = FALSE] /\ head' = [head EXCEPT ![p] = 0]
             /\ UNCHANGED <<devVars, cacheVars, data, owned, holder, num, avail, used, handling, cur,
                            pins, panicked>>

\* virtio_disk_intr(): the interrupt is acknowledged, and then the used ring is read
\* until it is empty.
IntrStart ==
  /\ irq /\ ~handling /\ panicked = "no"
  /\ irq' = FALSE /\ handling' = TRUE
  /\ UNCHANGED <<platter, cacheVars, bufVars, holder, ringVars, pc, procVars, histVars,
                 panicked>>

IntrEntry ==
  LET id == Head(used)
      b == info[id].buf
  IN /\ handling /\ panicked = "no" /\ used # <<>>
     /\ IF info[id].status # 0
        THEN panic("status")
        ELSE /\ owned' = [owned EXCEPT ![b] = FALSE]
             /\ pc' = [q \in Proc |-> IF q \in OnBuf(b) THEN "wait" ELSE pc[q]]
             /\ used' = Tail(used)
             /\ UNCHANGED <<devVars, cacheVars, valid, data, holder, num, free, desc, info, avail,
                            handling, procVars, histVars, panicked>>

\* Faulty variant: the handler returns although the used ring is not empty.
IntrEnd_Early ==
  /\ handling /\ panicked = "no"
  /\ handling' = FALSE
  /\ UNCHANGED <<devVars, cacheVars, bufVars, holder, ringVars, pc, procVars, histVars, panicked>>

IntrEnd ==
  /\ handling /\ panicked = "no" /\ used = <<>>
  /\ handling' = FALSE
  /\ UNCHANGED <<devVars, cacheVars, bufVars, holder, ringVars, pc, procVars, histVars, panicked>>

-----------------------------------------------------------------------------
\* The device carries out the requests that it has been told of, in any order.

DevDone(i) ==
  LET o == desc[i].op
  IN /\ i \in avail
     /\ IF o.write
        THEN platter' = [platter EXCEPT ![o.block] = data[o.buf]] /\ UNCHANGED data
        ELSE data' = [data EXCEPT ![o.buf] = platter[o.block]] /\ UNCHANGED platter
     /\ info' = [info EXCEPT ![i].status = 0]
     /\ avail' = avail \ {i}
     /\ used' = Append(used, i) /\ irq' = TRUE
     /\ UNCHANGED <<cacheVars, valid, owned, holder, num, free, desc, handling, pc, procVars,
                    histVars, panicked>>

\* kill() lets a process that sleeps go on.
Kill(p) ==
  /\ pc[p] \in DOMAIN Awake /\ panicked = "no"
  /\ Goto(p, Awake[pc[p]])
  /\ UNCHANGED <<devVars, cacheVars, bufVars, holder, ringVars, handling, procVars, histVars,
                 panicked>>

Driver(p) == acquiresleep(p) \/ AllocFails(p) \/ Submit(p) \/ NotYet(p) \/ Finished(p)

Caller(p) ==
  \/ \E k \in Uses[p] : bget(p, k) \/ NoBuffers(p, k)
  \/ Change(p) \/ bwrite(p) \/ bpin(p) \/ bunpin(p) \/ releasesleep(p) \/ brelse(p)

Intr == IntrStart \/ IntrEntry \/ IntrEnd
Device == \E i \in Desc : DevDone(i)

\* panic() spins for ever.
Panicked == panicked # "no" /\ UNCHANGED vars

Next ==
  \/ \E p \in Proc : Driver(p) \/ Caller(p) \/ Kill(p)
  \/ Intr \/ Device \/ Panicked

\* The device answers, interrupts are taken, and a process in the driver runs.
Fairness ==
  /\ \A i \in Desc : WF_vars(DevDone(i))
  /\ WF_vars(Intr)
  /\ \A p \in Proc : SF_vars(Finished(p))

Spec == Init /\ [][Next]_vars /\ Fairness

-----------------------------------------------------------------------------
Op == [write : BOOLEAN, block : Block \cup {None}, buf : Buf \cup {0}]
InDriver == {p \in Proc : pc[p] \in {"wait", "wait_sleep"}}

\* Types, and the references to a buffer: one for every process that is between bget()
\* and brelse(), and one for every pin.
TypeOK ==
  /\ platter \in [Block -> Data] /\ irq \in BOOLEAN
  /\ lru \in [Buf -> Buf] /\ blockno \in [Buf -> Block \cup {None}]
  /\ valid \in [Buf -> BOOLEAN] /\ data \in [Buf -> Data] /\ owned \in [Buf -> BOOLEAN]
  /\ holder \in [Buf -> Proc \cup {None}]
  /\ num \in NUMS /\ free \subseteq Desc /\ desc \in [Desc -> [more : BOOLEAN, next : Desc, op : Op]]
  /\ info \in [Desc -> [buf : Buf \cup {0}, status : {0, 255}]]
  /\ avail \subseteq Desc /\ used \in Seq(Desc) /\ handling \in BOOLEAN
  /\ pc \in [Proc -> {"idle", "lock", "lock_sleep", "rw", "rw_sleep", "wait", "wait_sleep",
                      "have", "brelse"}]
  /\ cur \in [Proc -> Buf \cup {0}] /\ write \in [Proc -> BOOLEAN] /\ head \in [Proc -> Desc]
  /\ dirty \in [Buf -> BOOLEAN] /\ pins \in [Buf -> Nat]
  /\ \A b \in Buf : refcnt[b] = Cardinality({p \in Proc : cur[p] = b}) + pins[b]

\* The list of bget() and brelse() has every buffer once, and a block is in one buffer
\* at most: what bget() recycles is never a second copy.
OneCopy ==
  /\ \A i, j \in Buf : lru[i] = lru[j] => i = j
  /\ \A b, c \in Buf : blockno[b] = blockno[c] /\ blockno[b] # None => b = c

\* Descriptors are neither lost nor freed twice: those that are not free are the three
\* of every request that has not finished, and the panics of virtio_disk.c never
\* happen.  bget() alone can panic.
DescriptorsKept ==
  /\ panicked \in {"no", "bget"}
  /\ \A p \in InDriver : Cardinality(Chain(head[p])) = 3 /\ Chain(head[p]) \cap free = {}
  /\ \A p, q \in InDriver : p # q => Chain(head[p]) \cap Chain(head[q]) = {}
  /\ Cardinality(free) + 3 * Cardinality(InDriver) = num

\* Whoever sleeps has a wakeup to come: the lock is held, a request holds descriptors,
\* or the device or its interrupt has the request.
NoLostWakeup ==
  \A p \in Proc :
    /\ pc[p] = "lock_sleep" => holder[cur[p]] # None
    /\ pc[p] = "rw_sleep" => Cardinality(free) < 3
    /\ pc[p] = "wait_sleep" => owned[cur[p]]

\* Every read or write that has been submitted is answered, whatever the order in which
\* the device completes requests and the moment of its interrupts.
Answered ==
  \A p \in Proc :
    pc[p] \in {"wait", "wait_sleep"} ~> pc[p] = "have" \/ panicked # "no"

\* What a block is for those that read it, and who has it.
Value ==
  [k \in Block |-> IF \E b \in Buf : blockno[b] = k /\ valid[b]
                   THEN data[CHOOSE b \in Buf : blockno[b] = k]
                   ELSE platter[k]]
Owner ==
  [k \in Block |-> IF Cached(k) THEN holder[CHOOSE b \in Buf : blockno[b] = k] ELSE None]

\* The cache and the driver implement blocks that one process at a time may change:
\* eviction, rereading and requests in flight never change what a block is, and what
\* reaches the disk is what its owner wrote.
Store == INSTANCE BlockStore WITH value <- Value, store <- platter, owner <- Owner
IsBlockStore == Store!Spec
=============================================================================
