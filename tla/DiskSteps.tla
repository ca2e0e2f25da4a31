------------------------------ MODULE DiskSteps ------------------------------
(***************************************************************************)
(* The inductive invariant of Disk, and lemmas about its steps: what they  *)
(* do to the cache, to the descriptors and to the rings, to the contents   *)
(* of the buffers and the disk, and to the blocks of BlockStore.  What     *)
(* needs the sizes of sets is in DiskProofs.                               *)
(***************************************************************************)
EXTENDS Disk, TLAPS

\* What the buffers and the processes are, and that a process between bget() and
\* brelse() has a buffer.
Shape ==
  /\ blockno \in [Buf -> Block \cup {None}]
  /\ owned \in [Buf -> BOOLEAN]
  /\ holder \in [Buf -> Proc \cup {None}]
  /\ pc \in [Proc -> {"idle", "lock", "lock_sleep", "rw", "rw_sleep", "wait", "wait_sleep",
                      "have", "brelse"}]
  /\ cur \in [Proc -> Buf \cup {0}]
  /\ \A p \in Proc : pc[p] # "idle" => cur[p] \in Buf

\* The list has every buffer; with the first part of OneCopy it is a permutation, so
\* brelse() finds the place of the buffer that it moves.
Listed ==
  /\ lru \in [Buf -> Buf]
  /\ \A b \in Buf : \E i \in Buf : lru[i] = b

\* The inductive invariant.
IInv == Shape /\ Listed /\ OneCopy /\ IsFiniteSet(free) /\ NoLostWakeup

\* Types without the count of the references.
Typed ==
  /\ platter \in [Block -> Data] /\ irq \in BOOLEAN
  /\ valid \in [Buf -> BOOLEAN] /\ data \in [Buf -> Data]
  /\ num \in NUMS /\ free \subseteq Desc /\ desc \in [Desc -> [more : BOOLEAN, next : Desc, op : Op]]
  /\ info \in [Desc -> [buf : Buf \cup {0}, status : {0, 255}]]
  /\ avail \subseteq Desc /\ used \in Seq(Desc) /\ handling \in BOOLEAN
  /\ write \in [Proc -> BOOLEAN] /\ head \in [Proc -> Desc]
  /\ dirty \in [Buf -> BOOLEAN]

\* The lock of a buffer belongs to the process that is between acquiresleep() and
\* releasesleep() with it.
Holding == {"rw", "rw_sleep", "wait", "wait_sleep", "have"}
Held == \A b \in Buf, p \in Proc : holder[b] = p <=> pc[p] \in Holding /\ cur[p] = b

\* The references are counted, and a buffer with a reference from a process has a block.
Users(b) == {p \in Proc : cur[p] = b}
Counted ==
  /\ pins \in [Buf -> Nat]
  /\ refcnt \in [Buf -> Nat]
  /\ \A b \in Buf : refcnt[b] = Cardinality(Users(b)) + pins[b]
  /\ \A p \in Proc : cur[p] \in Buf => pc[p] # "idle" /\ blockno[cur[p]] \in Block

\* The descriptors of a request are three, and of no other request.
Linked(i) ==
  LET j == desc[i].next
      k == desc[j].next
  IN desc[i].more /\ desc[j].more /\ i # j /\ j # k /\ i # k
Chains ==
  /\ \A p \in InDriver : Linked(head[p]) /\ Chain(head[p]) \cap free = {}
  /\ \A p, q \in InDriver : p # q => Chain(head[p]) \cap Chain(head[q]) = {}
  /\ Cardinality(free) + 3 * Cardinality(InDriver) = num

\* What is in the rings are requests whose buffers the device or the handler has, each
\* once; those of the used ring have been answered.
InUsed == {used[n] : n \in DOMAIN used}
Rings ==
  /\ panicked \in {"no", "bget"}
  /\ \A p \in InDriver :
       info[head[p]].buf = cur[p] /\ (owned[cur[p]] <=> head[p] \in avail \cup InUsed)
  /\ \A i \in avail \cup InUsed : \E p \in InDriver : head[p] = i
  /\ avail \cap InUsed = {}
  /\ \A m, n \in DOMAIN used : used[m] = used[n] => m = n
  /\ \A i \in InUsed : info[i].status = 0

\* What a request says, and that it has been carried out when the device has done with it.
Ops ==
  \A p \in InDriver :
    /\ desc[head[p]].op = [write |-> write[p], block |-> blockno[cur[p]], buf |-> cur[p]]
    /\ head[p] \notin avail => data[cur[p]] = platter[blockno[cur[p]]]

\* A request writes a buffer that is valid and reads one that is not.
Writes ==
  \A p \in Proc :
    /\ write[p] <=> pc[p] \in Holding \ {"have"} /\ valid[cur[p]]
    /\ pc[p] = "have" => valid[cur[p]]

\* A buffer has the data of its block from the time it is read until it is changed, and a
\* change is not forgotten: somebody has the buffer, or it is pinned.
Clean ==
  \A b \in Buf :
    /\ valid[b] => blockno[b] \in Block
    /\ dirty[b] => valid[b] /\ (pins[b] > 0 \/ holder[b] # None)
    /\ valid[b] /\ ~dirty[b] => data[b] = platter[blockno[b]]

\* The three together.
Contents == Ops /\ Writes /\ Clean

\* What follows from the sizes of the sets: descriptors are numbers, alloc3_desc() takes
\* three different free ones, and a buffer without references has no users.
TakesThree ==
  LET i == alloc_desc(free)
      j == alloc_desc(free \ {i})
      k == alloc_desc(free \ {i, j})
  IN /\ i \in free /\ j \in free /\ k \in free /\ i # j /\ j # k /\ i # k
     /\ Cardinality(free \ {i, j, k}) = Cardinality(free) - 3
Sized ==
  /\ num \in Nat /\ num >= 3 /\ Desc \subseteq Nat /\ 0 \in Desc
  /\ Three => TakesThree
  /\ \A b \in Buf : refcnt[b] = 0 => pins[b] = 0 /\ Users(b) = {}

\* The second invariant, of the steps that keep IInv.
RInv == Typed /\ Held /\ Counted /\ Chains /\ Rings /\ Contents /\ Sized

-----------------------------------------------------------------------------
\* A list that is a permutation is one after MovedToHead().
LEMMA MovedKeeps ==
  ASSUME NEW b \in Buf, Listed, \A i, j \in Buf : lru[i] = lru[j] => i = j
  PROVE  /\ MovedToHead(b) \in [Buf -> Buf]
         /\ \A c \in Buf : \E i \in Buf : MovedToHead(b)[i] = c
         /\ \A i, j \in Buf : MovedToHead(b)[i] = MovedToHead(b)[j] => i = j
<1> DEFINE at == CHOOSE i \in Buf : lru[i] = b
           new == [i \in Buf |-> IF i = 1 THEN b ELSE IF i <= at THEN lru[i - 1] ELSE lru[i]]
<1>1. at \in Buf /\ lru[at] = b
  BY DEF Listed
<1>2. MovedToHead(b) = new
  BY DEF MovedToHead
<1> HIDE DEF at
<1>3. NBUF \in Nat \ {0} /\ 1 \in Buf
  BY DiskAssumption DEF Buf
<1>4. \A i \in Buf : i # 1 => i - 1 \in Buf
  BY <1>3 DEF Buf
<1>5. new \in [Buf -> Buf]
  BY <1>4 DEF Listed
<1>6. ASSUME NEW c \in Buf PROVE \E i \in Buf : new[i] = c
  <2>1. PICK k \in Buf : lru[k] = c
    BY DEF Listed
  <2>2. CASE c = b
    BY <2>2, <1>3
  <2>3. CASE c # b /\ k < at
    <3>1. k + 1 \in Buf /\ k + 1 # 1 /\ k + 1 <= at /\ (k + 1) - 1 = k
      BY <2>3, <1>1, <1>3 DEF Buf
    <3>2. new[k + 1] = c
      BY <3>1, <2>1
    <3> QED BY <3>1, <3>2
  <2>4. CASE c # b /\ ~(k < at)
    <3>1. k # at
      BY <2>1, <2>4, <1>1
    <3>2. k # 1 /\ ~(k <= at)
      BY <2>4, <3>1, <1>1, <1>3 DEF Buf
    <3>3. new[k] = c
      BY <3>2, <2>1
    <3> QED BY <3>3
  <2> QED BY <2>2, <2>3, <2>4
<1>7. ASSUME NEW i \in Buf, NEW j \in Buf, new[i] = new[j] PROVE i = j
  <2> DEFINE from(n) == IF n = 1 THEN at ELSE IF n <= at THEN n - 1 ELSE n
  <2>1. \A n \in Buf : from(n) \in Buf /\ new[n] = lru[from(n)]
    BY <1>1, <1>4
  <2>2. from(i) = from(j)
    BY <2>1, <1>7
  <2> QED BY <2>2, <1>1, <1>3 DEF Buf
<1> QED BY <1>2, <1>5, <1>6, <1>7

\* A step that leaves what the invariant is about alone keeps it.
LEMMA StutterIInv ==
  IInv /\ UNCHANGED <<lru, blockno, owned, holder, free, pc, cur>> => IInv'
BY DEF IInv, Shape, Listed, OneCopy, NoLostWakeup

\* A step that leaves the cache alone keeps Listed and OneCopy.
LEMMA CacheKept ==
  Listed /\ OneCopy /\ UNCHANGED <<lru, blockno>> => Listed' /\ OneCopy'
BY ZenonT(30) DEF Listed, OneCopy

\* The steps of a process in the cache.
LEMMA CallerIInv ==
  ASSUME IInv, NEW p \in Proc, Caller(p)
  PROVE  IInv'
<1> USE DEF IInv
<1>1. ASSUME NEW k \in Uses[p], bget(p, k) PROVE IInv'
  <2> k \in Block
    BY DiskAssumption
  <2>1. PICK b \in Buf :
          /\ \/ blockno[b] = k /\ UNCHANGED blockno
             \/ ~Cached(k) /\ blockno' = [blockno EXCEPT ![b] = k]
          /\ cur' = [cur EXCEPT ![p] = b]
    BY <1>1, ZenonT(60) DEF bget
  <2>2. pc[p] = "idle" /\ pc' = [pc EXCEPT ![p] = "lock"] /\ UNCHANGED <<lru, owned, holder, free>>
    BY <1>1 DEF bget, At, Goto, ringVars
  <2>3. Shape'
    BY <2>1, <2>2, <1>1 DEF Shape
  <2>4. Listed'
    BY ZenonT(30), <2>2 DEF Listed
  <2>5. OneCopy'
    BY <2>1, <2>2 DEF OneCopy, Cached, Shape
  <2>6. NoLostWakeup'
    BY ZenonT(30), <2>1, <2>2 DEF NoLostWakeup, Shape
  <2> QED BY ZenonT(30), <2>2, <2>3, <2>4, <2>5, <2>6
<1>2. ASSUME NEW k \in Uses[p], NoBuffers(p, k) PROVE IInv'
  BY ZenonT(30), <1>2, StutterIInv DEF NoBuffers, panic, cacheVars, bufVars, ringVars, procVars
<1>3. CASE Change(p)
  BY <1>3, StutterIInv DEF Change, cacheVars, ringVars, procVars
<1>4. CASE bwrite(p)
  <2>1. pc[p] = "have" /\ pc' = [pc EXCEPT ![p] = "rw"]
        /\ UNCHANGED <<lru, blockno, owned, holder, free, cur>>
    BY <1>4 DEF bwrite, At, Goto, cacheVars, bufVars, ringVars
  <2>2. Shape' /\ NoLostWakeup'
    BY ZenonT(30), <2>1 DEF Shape, NoLostWakeup
  <2> QED BY <2>1, <2>2, CacheKept
<1>5. CASE bpin(p)
  BY ZenonT(30), <1>5, StutterIInv DEF bpin, bufVars, ringVars, procVars
<1>6. CASE bunpin(p)
  BY ZenonT(30), <1>6, StutterIInv DEF bunpin, bufVars, ringVars, procVars
<1>7. CASE releasesleep(p)
  <2>1. /\ pc[p] = "have" /\ holder' = [holder EXCEPT ![cur[p]] = None]
        /\ pc' = [q \in Proc |-> IF q = p THEN "brelse"
                                 ELSE IF q \in OnLock(cur[p]) THEN "lock" ELSE pc[q]]
        /\ UNCHANGED <<lru, blockno, owned, free, cur>>
    BY <1>7 DEF releasesleep, At, wakeup, OnLock, Awake, cacheVars, bufVars, ringVars, procVars
  <2>2. Shape'
    BY <2>1 DEF Shape, OnLock
  <2>3. NoLostWakeup'
    BY <2>1 DEF NoLostWakeup, Shape, OnLock
  <2> QED BY <2>1, <2>2, <2>3, CacheKept
<1>8. CASE brelse(p)
  <2>1. /\ pc[p] = "brelse" /\ pc' = [pc EXCEPT ![p] = "idle"] /\ cur' = [cur EXCEPT ![p] = 0]
        /\ lru' = lru \/ lru' = MovedToHead(cur[p])
        /\ UNCHANGED <<blockno, owned, holder, free>>
    BY <1>8 DEF brelse, At, Goto, bufVars, ringVars
  <2>2. Shape' /\ NoLostWakeup'
    BY <2>1 DEF Shape, NoLostWakeup
  <2>3. cur[p] \in Buf
    BY <2>1 DEF Shape
  <2>4. Listed' /\ OneCopy'
    <3>1. CASE lru' = lru
      BY <3>1, <2>1, CacheKept
    <3>2. CASE lru' = MovedToHead(cur[p])
      <4> DEFINE new == MovedToHead(cur[p])
      <4>1. Listed /\ \A i, j \in Buf : lru[i] = lru[j] => i = j
        BY DEF OneCopy
      <4>2. /\ new \in [Buf -> Buf]
            /\ \A c \in Buf : \E i \in Buf : new[i] = c
            /\ \A i, j \in Buf : new[i] = new[j] => i = j
        BY ONLY <4>1, <2>3, MovedKeeps, Zenon
      <4>3. lru' = new
        BY <3>2
      <4> HIDE DEF new
      <4>4. /\ lru' \in [Buf -> Buf]
            /\ \A c \in Buf : \E i \in Buf : lru'[i] = c
            /\ \A i, j \in Buf : lru'[i] = lru'[j] => i = j
        BY ONLY <4>2, <4>3
      <4>5. Listed'
        BY <4>4 DEF Listed
      <4>6. OneCopy'
        BY ZenonT(30), <4>4, <2>1 DEF OneCopy
      <4> QED BY <4>5, <4>6
    <3> QED BY <2>1, <3>1, <3>2
  <2> QED BY <2>1, <2>2, <2>4
<1> QED BY ZenonT(30), <1>1, <1>2, <1>3, <1>4, <1>5, <1>6, <1>7, <1>8 DEF Caller

-----------------------------------------------------------------------------
\* free_chain() of a request frees its three descriptors.
LEMMA LinkedChain ==
  ASSUME NEW i, Linked(i)
  PROVE  Chain(i) = {i, desc[i].next, desc[desc[i].next].next}
BY DEF Linked, Chain

\* A step that leaves what Typed is about alone keeps it.
LEMMA TypedKept ==
  Typed /\ UNCHANGED <<devVars, valid, data, ringVars, handling, write, head, dirty>> => Typed'
BY SMTT(30) DEF Typed, devVars, ringVars

\* Every step keeps the types: the device reads and writes the buffer of a request.
LEMMA TypedStep == IInv /\ RInv /\ [Next]_vars => Typed'
<1> SUFFICES ASSUME IInv, RInv, [Next]_vars PROVE Typed'
  BY ZenonT(30)
<1> USE DEF RInv
<1>1. ASSUME NEW p \in Proc, NEW k \in Block, bget(p, k) PROVE Typed'
  <2>1. valid' = valid \/ \E b \in Buf : valid' = [valid EXCEPT ![b] = FALSE]
    BY <1>1 DEF bget
  <2>2. valid' \in [Buf -> BOOLEAN]
    <3>1. valid \in [Buf -> BOOLEAN]
      BY ZenonT(30) DEF Typed
    <3> QED BY ONLY ZenonT(30), <2>1, <3>1
  <2> QED BY <1>1, <2>2 DEF bget, Typed, devVars, ringVars, histVars
<1>2. ASSUME NEW p \in Proc, Change(p) PROVE Typed'
  <2>1. pc[p] = "have" /\ cur[p] \in Buf
    BY ZenonT(30), <1>2 DEF Change, At, IInv, Shape
  <2>2. data' \in [Buf -> Data]
    BY SMTT(30), <1>2, <2>1 DEF Change, Typed, Data
  <2>3. dirty' \in [Buf -> BOOLEAN]
    BY ZenonT(30), <1>2, <2>1 DEF Change, Typed
  <2> QED BY ZenonT(30), <1>2, <2>2, <2>3 DEF Change, Typed, devVars, ringVars, procVars
<1>3. ASSUME NEW p \in Proc, bwrite(p) PROVE Typed'
  <2>1. write' \in [Proc -> BOOLEAN]
    BY <1>3 DEF bwrite, Typed
  <2> QED BY ZenonT(30), <1>3, <2>1 DEF bwrite, Typed, devVars, bufVars, ringVars, histVars
<1>4. ASSUME NEW p \in Proc, Submit(p) PROVE Typed'
  <2> DEFINE b == cur[p]
             i == alloc_desc(free)
             j == alloc_desc(free \ {i})
             k == alloc_desc(free \ {i, j})
             D == [more : BOOLEAN, next : Desc, op : Op]
  <2>1. i \in Desc /\ j \in Desc /\ k \in Desc /\ 0 \in Desc
    <3>1. free \subseteq Nat /\ free \subseteq Desc /\ 0 \in Desc
      BY DEF Typed, Sized
    <3>2. TakesThree
      BY ZenonT(30), <1>4 DEF Submit, Sized
    <3> QED BY <3>1, <3>2, ZenonT(60) DEF TakesThree
  <2>2. b \in Buf
    BY ZenonT(30), <1>4 DEF Submit, At, IInv, Shape
  <2> DEFINE o == [write |-> write[p], block |-> blockno[b], buf |-> b]
  <2>3. o \in Op /\ NoOp \in Op
    BY <2>2 DEF Op, NoOp, Typed, IInv, Shape
  <2> DEFINE di == [more |-> TRUE, next |-> j, op |-> o]
             dj == [more |-> TRUE, next |-> k, op |-> NoOp]
             dk == [more |-> FALSE, next |-> 0, op |-> NoOp]
  <2>4. /\ desc' = [desc EXCEPT ![i] = di, ![j] = dj, ![k] = dk]
        /\ info' = [info EXCEPT ![i] = [buf |-> b, status |-> 255]]
        /\ free' = free \ {i, j, k} /\ avail' = avail \cup {i} /\ head' = [head EXCEPT ![p] = i]
        /\ UNCHANGED <<platter, irq, valid, data, num, used, handling, write, dirty>>
    BY <1>4, Zenon DEF Submit, devVars, histVars
  <2> HIDE DEF i, j, k, o, b
  <2>5. di \in D /\ dj \in D /\ dk \in D
    BY <2>1, <2>3
  <2> HIDE DEF di, dj, dk
  <2>6. desc' \in [Desc -> D]
    BY <2>4, <2>5, Zenon DEF Typed
  <2>7. info' \in [Desc -> [buf : Buf \cup {0}, status : {0, 255}]]
    BY <2>2, <2>4, ZenonT(60) DEF Typed
  <2>8. free' \subseteq Desc /\ avail' \subseteq Desc /\ head' \in [Proc -> Desc]
    BY ZenonT(30), <2>1, <2>4 DEF Typed
  <2> QED BY <2>4, <2>6, <2>7, <2>8, Zenon DEF Typed
<1>5. ASSUME NEW p \in Proc, Finished(p) PROVE Typed'
  <2>1. CASE Chain(head[p]) \cap free # {}
    BY ZenonT(30), <1>5, <2>1, TypedKept DEF Finished, panic, bufVars, procVars, histVars
  <2>2. CASE Chain(head[p]) \cap free = {}
    <3> DEFINE C == Chain(head[p])
               D == [more : BOOLEAN, next : Desc, op : Op]
    <3>1. /\ pc[p] = "wait" /\ info' = [info EXCEPT ![head[p]].buf = 0]
          /\ free' = free \cup C /\ desc' = [i \in Desc |-> IF i \in C THEN NoDesc ELSE desc[i]]
          /\ valid' = [valid EXCEPT ![cur[p]] = @ \/ ~write[p]]
          /\ dirty' = [dirty EXCEPT ![cur[p]] = @ /\ ~write[p]]
          /\ write' = [write EXCEPT ![p] = FALSE] /\ head' = [head EXCEPT ![p] = 0]
          /\ UNCHANGED <<platter, irq, data, num, avail, used, handling>>
      BY ZenonT(30), <1>5, <2>2 DEF Finished, At, free_desc, devVars
    <3>2. Linked(head[p]) /\ head[p] \in Desc
      BY ZenonT(30), <3>1 DEF Chains, InDriver, Typed
    <3>3. C \subseteq Desc
      BY SMTT(30), <3>2, LinkedChain DEF Typed
    <3>4. 0 \in Desc
      BY DEF Sized
    <3> HIDE DEF C
    <3>5. NoDesc \in D
      BY <3>4 DEF NoDesc, NoOp, Op
    <3>6. free' \subseteq Desc /\ desc' \in [Desc -> D]
      BY <3>1, <3>3, <3>5 DEF Typed
    <3>7. info' \in [Desc -> [buf : Buf \cup {0}, status : {0, 255}]]
      <4> DEFINE R == [buf : Buf \cup {0}, status : {0, 255}]
                 new == [info[head[p]] EXCEPT !.buf = 0]
      <4>1. info \in [Desc -> R] /\ info[head[p]] \in R
        BY <3>2 DEF Typed
      <4>2. new \in R
        BY ZenonT(30), <4>1
      <4>3. info' = [info EXCEPT ![head[p]] = new]
        BY <3>1, <3>2, <4>1
      <4> HIDE DEF new, R
      <4>4. info' \in [Desc -> R]
        BY <4>1, <4>2, <4>3, Zenon
      <4> QED BY ZenonT(30), <4>4 DEF R
    <3>8. valid' \in [Buf -> BOOLEAN] /\ dirty' \in [Buf -> BOOLEAN]
      BY <3>1, ZenonT(60) DEF Typed
    <3>9. write' \in [Proc -> BOOLEAN]
      BY <3>1 DEF Typed
    <3>10. head' \in [Proc -> Desc]
      BY <3>1, <3>4 DEF Typed
    <3> QED BY ZenonT(30), <3>1, <3>6, <3>7, <3>8, <3>9, <3>10 DEF Typed
  <2> QED BY <2>1, <2>2
<1>6. CASE IntrStart
  BY <1>6, Zenon DEF IntrStart, Typed, bufVars, ringVars, procVars, histVars
<1>7. CASE IntrEntry
  <2>1. CASE info[Head(used)].status # 0
    BY ZenonT(30), <1>7, <2>1, TypedKept DEF IntrEntry, panic, bufVars, procVars, histVars
  <2>2. CASE info[Head(used)].status = 0
    <3>1. used # <<>> /\ used' = Tail(used)
      BY <1>7, <2>2 DEF IntrEntry
    <3>2. used' \in Seq(Desc)
      BY <3>1 DEF Typed
    <3> QED BY SMTT(30), <1>7, <2>2, <3>2 DEF IntrEntry, Typed, devVars, procVars, histVars
  <2> QED BY ZenonT(30), <2>1, <2>2
<1>8. CASE IntrEnd
  BY <1>8, ZenonT(60) DEF IntrEnd, Typed, devVars, bufVars, ringVars, procVars, histVars
<1>9. ASSUME NEW i \in Desc, DevDone(i) PROVE Typed'
  <2>1. PICK p \in InDriver : head[p] = i
    BY ZenonT(30), <1>9 DEF DevDone, Rings
  <2>2. cur[p] \in Buf /\ blockno[cur[p]] \in Block
    BY ZenonT(30), <2>1 DEF InDriver, IInv, Shape, Counted
  <2>3. desc[i].op.block \in Block /\ desc[i].op.buf \in Buf
    <3>1. desc[i].op = [write |-> write[p], block |-> blockno[cur[p]], buf |-> cur[p]]
      BY ZenonT(30), <2>1 DEF Contents, Ops
    <3> QED BY SMTT(30), <3>1, <2>2
  <2>4. platter' \in [Block -> Data] /\ data' \in [Buf -> Data]
    <3> DEFINE k == desc[i].op.block
               b == desc[i].op.buf
    <3>1. /\ platter \in [Block -> Data] /\ data \in [Buf -> Data]
          /\ platter[k] \in Data /\ data[b] \in Data
      BY SMTT(30), <2>3 DEF Typed
    <3>2. \/ platter' = [platter EXCEPT ![k] = data[b]] /\ data' = data
          \/ data' = [data EXCEPT ![b] = platter[k]] /\ platter' = platter
      BY <1>9 DEF DevDone
    <3> HIDE DEF k, b
    <3> QED BY ZenonT(30), <3>1, <3>2
  <2>5. info' \in [Desc -> [buf : Buf \cup {0}, status : {0, 255}]]
    <3>1. info \in [Desc -> [buf : Buf \cup {0}, status : {0, 255}]]
      BY ZenonT(30) DEF Typed
    <3>2. info' = [info EXCEPT ![i].status = 0]
      BY ZenonT(30), <1>9 DEF DevDone
    <3> QED BY ONLY SMTT(30), <3>1, <3>2
  <2>6. avail' \subseteq Desc /\ used' \in Seq(Desc)
    BY SMTT(30), <1>9 DEF DevDone, Typed
  <2>7. irq' \in BOOLEAN
    BY <1>9 DEF DevDone
  <2> QED BY ZenonT(30), <1>9, <2>4, <2>5, <2>6, <2>7 DEF DevDone, Typed, procVars, histVars
<1>10. ASSUME NEW p \in Proc,
              \/ acquiresleep(p) \/ AllocFails(p) \/ NotYet(p) \/ Kill(p)
              \/ bpin(p) \/ bunpin(p) \/ releasesleep(p) \/ brelse(p)
              \/ \E k \in Block : NoBuffers(p, k)
       PROVE  Typed'
  BY <1>10, TypedKept, ZenonT(60) DEF acquiresleep, AllocFails, NotYet, Kill, bpin, bunpin, releasesleep,
     brelse, NoBuffers, panic, bufVars, procVars, histVars
<1>11. CASE UNCHANGED vars
  BY <1>11, TypedKept DEF vars, bufVars, procVars, histVars
<1> QED BY ZenonT(30), <1>1, <1>2, <1>3, <1>4, <1>5, <1>6, <1>7, <1>8, <1>9, <1>10, <1>11, DiskAssumption
        DEF Next, Driver, Caller, Intr, Device, Panicked

-----------------------------------------------------------------------------
\* Nobody takes or gives back a buffer or its lock.
Same ==
  /\ UNCHANGED <<cur, holder, blockno, refcnt, pins>>
  /\ \A q \in Proc : (pc'[q] \in Holding <=> pc[q] \in Holding)
                    /\ (pc'[q] = "idle" <=> pc[q] = "idle")

\* The steps that do.
Taking ==
  \/ \E p \in Proc, k \in Block : bget(p, k)
  \/ \E p \in Proc : acquiresleep(p) \/ releasesleep(p) \/ brelse(p) \/ bpin(p) \/ bunpin(p)

\* Every step is one of those, or leaves the locks and the references alone.
LEMMA Moves ==
  ASSUME IInv, [Next]_vars
  PROVE  Taking \/ Same
<1>0. DOMAIN pc = Proc
  BY DEF IInv, Shape
<1>1. ASSUME UNCHANGED <<cur, holder, blockno, refcnt, pins, pc>> PROVE Same
  BY <1>1 DEF Same
<1>2. ASSUME NEW p \in Proc, bwrite(p) PROVE Same
  BY <1>2, <1>0, ZenonT(60) DEF bwrite, At, Goto, Holding, Same, cacheVars, histVars
<1>3. ASSUME NEW p \in Proc, AllocFails(p) PROVE Same
  <2>1. PICK W \in SUBSET OnFree :
          pc' = [q \in Proc |-> IF q = p THEN "rw_sleep" ELSE IF q \in W THEN "rw" ELSE pc[q]]
    <3>1. CASE free = {}
      BY <1>3, <3>1 DEF AllocFails, wakeup
    <3>2. CASE free # {}
      BY <1>3, <3>2, ZenonT(60) DEF AllocFails, wakeup, OnFree, Awake
    <3> QED BY ZenonT(30), <3>1, <3>2
  <2>2. pc[p] = "rw" /\ UNCHANGED <<cur, holder, blockno, refcnt, pins>>
    BY <1>3 DEF AllocFails, At, cacheVars, procVars, histVars
  <2> QED BY ZenonT(30), <2>1, <2>2, <1>0 DEF OnFree, Holding, Same
<1>4. ASSUME NEW p \in Proc, Submit(p) PROVE Same
  <2>1. /\ pc[p] = "rw" /\ pc' = [pc EXCEPT ![p] = "wait_sleep"]
        /\ UNCHANGED <<cur, holder, blockno, refcnt, pins>>
    BY ZenonT(30), <1>4 DEF Submit, At, Goto, cacheVars, histVars
  <2> QED BY ZenonT(30), <2>1, <1>0 DEF Holding, Same
<1>5. ASSUME NEW p \in Proc, NotYet(p) PROVE Same
  BY <1>5, <1>0 DEF NotYet, At, Goto, Holding, Same, cacheVars, procVars, histVars
<1>6. ASSUME NEW p \in Proc, Finished(p) PROVE Same
  <2>1. CASE Chain(head[p]) \cap free # {}
    BY ZenonT(30), <1>6, <2>1, <1>1 DEF Finished, panic, cacheVars, procVars, histVars
  <2>2. CASE Chain(head[p]) \cap free = {}
    <3>1. /\ pc[p] = "wait"
          /\ pc' = [q \in Proc |-> IF q = p THEN "have" ELSE IF q \in OnFree THEN "rw" ELSE pc[q]]
          /\ UNCHANGED <<cur, holder, blockno, refcnt, pins>>
      BY <1>6, <2>2, ZenonT(60) DEF Finished, At, wakeup, OnFree, Awake, cacheVars
    <3> QED BY <3>1, <1>0 DEF OnFree, Holding, Same
  <2> QED BY <2>1, <2>2
<1>7. ASSUME NEW p \in Proc, Kill(p) PROVE Same
  <2>1. /\ \/ pc[p] = "lock_sleep" /\ pc' = [pc EXCEPT ![p] = "lock"]
           \/ pc[p] = "rw_sleep" /\ pc' = [pc EXCEPT ![p] = "rw"]
           \/ pc[p] = "wait_sleep" /\ pc' = [pc EXCEPT ![p] = "wait"]
        /\ UNCHANGED <<cur, holder, blockno, refcnt, pins>>
    BY <1>7, Zenon DEF Kill, Goto, Awake, cacheVars, procVars, histVars
  <2> QED BY <2>1, <1>0 DEF Holding, Same
<1>8. ASSUME IntrEntry PROVE Same
  <2>1. CASE info[Head(used)].status # 0
    BY ZenonT(30), <1>8, <2>1, <1>1 DEF IntrEntry, panic, cacheVars, procVars, histVars
  <2>2. CASE info[Head(used)].status = 0
    <3>1. /\ pc' = [q \in Proc |-> IF q \in OnBuf(info[Head(used)].buf) THEN "wait" ELSE pc[q]]
          /\ UNCHANGED <<cur, holder, blockno, refcnt, pins>>
      BY ZenonT(30), <1>8, <2>2 DEF IntrEntry, cacheVars, procVars, histVars
    <3> QED BY <3>1, <1>0 DEF OnBuf, Holding, Same
  <2> QED BY ZenonT(30), <2>1, <2>2
<1>9. ASSUME NEW p \in Proc, \/ Change(p) \/ \E k \in Block : NoBuffers(p, k)
      PROVE  Same
  BY ZenonT(30), <1>9, <1>1 DEF Change, NoBuffers, panic, cacheVars, procVars, histVars
<1>10. ASSUME IntrStart \/ IntrEnd \/ Device \/ UNCHANGED vars PROVE Same
  BY <1>10, <1>1 DEF IntrStart, IntrEnd, Device, DevDone, vars, cacheVars, procVars, histVars
<1>11. ASSUME NEW p \in Proc, Driver(p) PROVE Taking \/ Same
  BY ZenonT(30), <1>11, <1>3, <1>4, <1>5, <1>6 DEF Driver, Taking
<1>12. ASSUME NEW p \in Proc, Caller(p) PROVE Taking \/ Same
  <2>1. Uses[p] \subseteq Block
    BY DiskAssumption
  <2> QED BY ZenonT(30), <1>12, <2>1, <1>2, <1>9 DEF Caller, Taking
<1> QED BY ZenonT(30), <1>7, <1>8, <1>10, <1>11, <1>12 DEF Next, Intr, Panicked

\* Every step keeps Held: acquiresleep() takes a lock that nobody has, and what a
\* process does between acquiresleep() and releasesleep() leaves the lock with it.
LEMMA HeldStep == IInv /\ RInv /\ [Next]_vars => Held'
<1> SUFFICES ASSUME IInv, RInv, [Next]_vars PROVE Held'
  OBVIOUS
<1> USE DEF RInv
<1>0. None \notin Proc /\ 0 \notin Buf
  BY SMTT(30), DiskAssumption DEF Buf
<1>1. ASSUME NEW p \in Proc, NEW k \in Block, bget(p, k) PROVE Held'
  <2>1. PICK b \in Buf : cur' = [cur EXCEPT ![p] = b]
    BY <1>1, ZenonT(60) DEF bget
  <2>2. pc[p] = "idle" /\ pc' = [pc EXCEPT ![p] = "lock"] /\ UNCHANGED holder
    BY ZenonT(30), <1>1 DEF bget, At, Goto
  <2> QED BY <2>1, <2>2 DEF Held, Holding, IInv, Shape
<1>2. ASSUME NEW p \in Proc, acquiresleep(p) PROVE Held'
  <2>1. /\ pc[p] = "lock" /\ UNCHANGED cur
        /\ \/ UNCHANGED holder /\ pc' = [pc EXCEPT ![p] = "lock_sleep"]
           \/ /\ holder[cur[p]] = None /\ holder' = [holder EXCEPT ![cur[p]] = p]
              /\ \/ pc' = [pc EXCEPT ![p] = "have"]
                 \/ pc' = [pc EXCEPT ![p] = "rw"]
    BY <1>2, ZenonT(60) DEF acquiresleep, At, Goto, procVars
  <2>2. cur[p] \in Buf
    BY ZenonT(30), <2>1 DEF IInv, Shape
  <2> QED BY <2>1, <2>2, <1>0 DEF Held, Holding, IInv, Shape
<1>3. ASSUME NEW p \in Proc, releasesleep(p) PROVE Held'
  <2>1. /\ pc[p] = "have" /\ holder' = [holder EXCEPT ![cur[p]] = None]
        /\ pc' = [q \in Proc |-> IF q = p THEN "brelse"
                                 ELSE IF q \in OnLock(cur[p]) THEN "lock" ELSE pc[q]]
        /\ UNCHANGED cur
    BY ZenonT(30), <1>3 DEF releasesleep, At, wakeup, OnLock, Awake, procVars
  <2>2. cur[p] \in Buf /\ holder[cur[p]] = p
    BY ZenonT(30), <2>1 DEF IInv, Shape, Held, Holding
  <2> QED BY <2>1, <2>2, <1>0 DEF Held, Holding, IInv, Shape, OnLock
<1>4. ASSUME NEW p \in Proc, brelse(p) PROVE Held'
  <2>1. pc[p] = "brelse" /\ pc' = [pc EXCEPT ![p] = "idle"] /\ cur' = [cur EXCEPT ![p] = 0]
        /\ UNCHANGED holder
    BY ZenonT(30), <1>4 DEF brelse, At, Goto
  <2> QED BY <2>1, <1>0 DEF Held, Holding, IInv, Shape
<1>5. ASSUME NEW p \in Proc, bpin(p) \/ bunpin(p) PROVE Held'
  BY SMTT(30), <1>5 DEF bpin, bunpin, procVars, Held
<1>6. CASE Same
  <2>1. ASSUME NEW b \in Buf, NEW p \in Proc
        PROVE  holder'[b] = p <=> pc'[p] \in Holding /\ cur'[p] = b
    <3>1. pc'[p] \in Holding <=> pc[p] \in Holding
      BY ZenonT(30), <1>6 DEF Same
    <3>2. holder' = holder /\ cur' = cur
      BY <1>6 DEF Same
    <3> QED BY ZenonT(30), <3>1, <3>2 DEF Held
  <2> QED BY ZenonT(30), <2>1 DEF Held, Holding
<1> QED BY ZenonT(30), <1>1, <1>2, <1>3, <1>4, <1>5, <1>6, Moves DEF Taking

-----------------------------------------------------------------------------
\* Nothing happens to the requests.
Apart ==
  /\ UNCHANGED <<num, free, desc, head, info, avail, used, owned>>
  /\ InDriver' = InDriver
  /\ panicked' \in {panicked, "bget"}
  /\ \A q \in InDriver : cur'[q] = cur[q]

\* The steps of the driver, its handler and the device; by the others nothing happens
\* to the requests.
LEMMA Requests ==
  ASSUME IInv, [Next]_vars
  PROVE  (\E p \in Proc : Submit(p) \/ Finished(p)) \/ IntrEntry \/ Device \/ Apart
<1>0. Shape
  BY ZenonT(30) DEF IInv
<1>1. ASSUME UNCHANGED <<num, free, desc, head, info, avail, used, owned, pc, cur>>,
             panicked' \in {panicked, "bget"}
      PROVE  Apart
  BY ZenonT(30), <1>1 DEF Apart, InDriver
<1>2. ASSUME NEW p \in Proc, NEW k \in Block, bget(p, k) PROVE Apart
  <2>1. PICK b \in Buf : cur' = [cur EXCEPT ![p] = b]
    BY <1>2, ZenonT(60) DEF bget
  <2>2. /\ pc[p] = "idle" /\ pc' = [pc EXCEPT ![p] = "lock"] /\ panicked' = panicked
        /\ UNCHANGED <<num, free, desc, head, info, avail, used, owned>>
    BY ZenonT(30), <1>2 DEF bget, At, Goto, ringVars
  <2> QED BY <2>1, <2>2, <1>0 DEF Apart, InDriver, Shape
<1>3. ASSUME NEW p \in Proc, brelse(p) PROVE Apart
  <2>1. /\ pc[p] = "brelse" /\ pc' = [pc EXCEPT ![p] = "idle"] /\ cur' = [cur EXCEPT ![p] = 0]
        /\ panicked' = panicked /\ UNCHANGED <<num, free, desc, head, info, avail, used, owned>>
    BY ZenonT(30), <1>3 DEF brelse, At, Goto, ringVars, bufVars
  <2> QED BY <2>1, <1>0 DEF Apart, InDriver, Shape
<1>4. ASSUME NEW p \in Proc,
             Change(p) \/ bpin(p) \/ bunpin(p) \/ \E k \in Block : NoBuffers(p, k)
      PROVE  Apart
  BY ZenonT(30), <1>4, <1>1 DEF Change, bpin, bunpin, NoBuffers, panic, ringVars, bufVars, procVars
<1>5. ASSUME IntrStart \/ IntrEnd \/ UNCHANGED vars PROVE Apart
  BY ZenonT(30), <1>5, <1>1 DEF IntrStart, IntrEnd, vars, ringVars, bufVars, procVars
<1>6. ASSUME UNCHANGED <<num, free, desc, head, info, avail, used, owned, cur, panicked>>,
             InDriver' = InDriver
      PROVE  Apart
  BY <1>6 DEF Apart
<1>7. ASSUME NEW p \in Proc, acquiresleep(p) PROVE Apart
  <2>1. pc[p] = "lock" /\ \E w \in {"lock_sleep", "have", "rw"} : pc' = [pc EXCEPT ![p] = w]
    BY ZenonT(30), <1>7 DEF acquiresleep, At, Goto
  <2>2. InDriver' = InDriver
    BY ZenonT(30), <2>1, <1>0 DEF InDriver, Shape
  <2> QED BY <1>7, <2>2, <1>6, Zenon DEF acquiresleep, ringVars, bufVars, procVars
<1>8. ASSUME NEW p \in Proc, AllocFails(p) PROVE Apart
  <2>1. PICK W \in SUBSET OnFree :
          pc' = [q \in Proc |-> IF q = p THEN "rw_sleep" ELSE IF q \in W THEN "rw" ELSE pc[q]]
    <3>1. CASE free = {}
      BY <1>8, <3>1 DEF AllocFails, wakeup
    <3>2. CASE free # {}
      BY <1>8, <3>2, ZenonT(60) DEF AllocFails, wakeup, OnFree, Awake
    <3> QED BY ZenonT(30), <3>1, <3>2
  <2>2. InDriver' = InDriver
    BY ZenonT(30), <1>8, <2>1, <1>0 DEF AllocFails, At, InDriver, OnFree, Shape
  <2> QED BY ZenonT(30), <1>8, <2>2, <1>6 DEF AllocFails, ringVars, bufVars, procVars
<1>9. ASSUME NEW p \in Proc, NotYet(p) PROVE Apart
  <2>1. InDriver' = InDriver
    BY ZenonT(30), <1>9, <1>0 DEF NotYet, At, Goto, InDriver, Shape
  <2> QED BY <1>9, <2>1, <1>6 DEF NotYet, ringVars, bufVars, procVars
<1>10. ASSUME NEW p \in Proc, bwrite(p) PROVE Apart
  <2>1. InDriver' = InDriver
    BY ZenonT(30), <1>10, <1>0 DEF bwrite, At, Goto, InDriver, Shape
  <2> QED BY <1>10, <2>1, <1>6 DEF bwrite, ringVars, bufVars
<1>11. ASSUME NEW p \in Proc, releasesleep(p) PROVE Apart
  <2>1. InDriver' = InDriver
    BY ZenonT(30), <1>11, <1>0 DEF releasesleep, At, wakeup, OnLock, Awake, InDriver, Shape
  <2> QED BY <1>11, <2>1, <1>6 DEF releasesleep, ringVars, bufVars, procVars
<1>12. ASSUME NEW p \in Proc, Kill(p) PROVE Apart
  <2>1. InDriver' = InDriver
    BY <1>12, <1>0 DEF Kill, Goto, Awake, InDriver, Shape
  <2> QED BY ZenonT(30), <1>12, <2>1, <1>6 DEF Kill, ringVars, bufVars, procVars
<1>13. ASSUME NEW p \in Proc, Driver(p) PROVE Submit(p) \/ Finished(p) \/ Apart
  BY ZenonT(30), <1>13, <1>7, <1>8, <1>9 DEF Driver
<1>14. ASSUME NEW p \in Proc, Caller(p) PROVE Apart
  <2>1. Uses[p] \subseteq Block
    BY ZenonT(30), DiskAssumption
  <2> QED BY ZenonT(30), <1>14, <2>1, <1>2, <1>3, <1>4, <1>10, <1>11 DEF Caller
<1> QED BY <1>5, <1>12, <1>13, <1>14 DEF Next, Intr, Panicked

\* A request whose descriptors are left alone keeps them.
LEMMA ChainKept ==
  ASSUME NEW h, Linked(h), \A x \in Chain(h) : desc'[x] = desc[x]
  PROVE  Linked(h)' /\ Chain(h)' = Chain(h)
<1> DEFINE j == desc[h].next
           k == desc[j].next
<1>1. Chain(h) = {h, j, k}
  BY ZenonT(30), LinkedChain
<1>2. desc'[h] = desc[h] /\ desc'[j] = desc[j]
  BY ZenonT(30), <1>1
<1> QED BY <1>2 DEF Linked, Chain

\* The descriptors of a request are descriptors.
LEMMA ChainInDesc ==
  ASSUME Typed, NEW h \in Desc, Linked(h)
  PROVE  Chain(h) \subseteq Desc
<1>1. \A x \in Desc : desc[x].next \in Desc
  BY ZenonT(30) DEF Typed
<1> QED BY SMTT(30), <1>1, LinkedChain

\* Two requests have nothing in common.
LEMMA Distinct ==
  ASSUME Chains, Held, IInv, NEW p \in InDriver, NEW q \in InDriver, p # q
  PROVE  head[p] # head[q] /\ cur[p] # cur[q]
<1>1. head[p] \in Chain(head[p]) /\ head[q] \in Chain(head[q])
  BY ZenonT(30), LinkedChain DEF Chains
<1>2. head[p] # head[q]
  BY ZenonT(30), <1>1 DEF Chains
<1>3. holder[cur[p]] = p /\ holder[cur[q]] = q
  BY ZenonT(30) DEF Held, Holding, InDriver, IInv, Shape
<1> QED BY ZenonT(30), <1>2, <1>3

\* What virtio_disk_rw() does when it submits a request of p for b, with i, j and k.
Submitted(p, b, i, j, k) ==
  /\ pc[p] = "rw" /\ cur[p] = b /\ i # j /\ j # k /\ i # k
  /\ free' = free \ {i, j, k} /\ Cardinality(free') = Cardinality(free) - 3
  /\ desc' = [desc EXCEPT ![i] = [more |-> TRUE, next |-> j,
                                  op |-> [write |-> write[p], block |-> blockno[b], buf |-> b]],
                          ![j] = [more |-> TRUE, next |-> k, op |-> NoOp],
                          ![k] = [more |-> FALSE, next |-> 0, op |-> NoOp]]
  /\ info' = [info EXCEPT ![i] = [buf |-> b, status |-> 255]]
  /\ owned' = [owned EXCEPT ![b] = TRUE] /\ avail' = avail \cup {i}
  /\ head' = [head EXCEPT ![p] = i] /\ pc' = [pc EXCEPT ![p] = "wait_sleep"]
  /\ InDriver' = InDriver \cup {p} /\ p \notin InDriver
  /\ UNCHANGED <<platter, blockno, valid, data, holder, num, used, cur, write, dirty, pins,
                 panicked>>

\* That is what Submit does.
LEMMA SubmitEffect ==
  ASSUME IInv, RInv, NEW p \in Proc, Submit(p)
  PROVE  \E b \in Buf, i \in free, j \in free, k \in free : Submitted(p, b, i, j, k)
<1> DEFINE b == cur[p]
           i == alloc_desc(free)
           j == alloc_desc(free \ {i})
           k == alloc_desc(free \ {i, j})
<1>1. pc[p] = "rw" /\ b \in Buf
  BY ZenonT(30) DEF Submit, At, IInv, Shape
<1>2. /\ i \in free /\ j \in free /\ k \in free /\ i # j /\ j # k /\ i # k
      /\ Cardinality(free \ {i, j, k}) = Cardinality(free) - 3
  <2>1. TakesThree
    BY Zenon DEF Submit, RInv, Sized
  <2> QED BY <2>1 DEF TakesThree
<1>3. pc' = [pc EXCEPT ![p] = "wait_sleep"]
  BY ZenonT(60) DEF Submit, Goto
<1>4. InDriver' = InDriver \cup {p} /\ p \notin InDriver
  BY <1>1, <1>3 DEF InDriver, IInv, Shape
<1>5. Submitted(p, b, i, j, k)
  BY <1>1, <1>2, <1>3, <1>4, ZenonT(60) DEF Submit, Submitted, devVars, cacheVars, histVars
<1> HIDE DEF b, i, j, k
<1> QED BY <1>1, <1>2, <1>5

\* What it does when the request of p for b, at h, is over.
Ended(p, b, h) ==
  /\ pc[p] = "wait" /\ cur[p] = b /\ head[p] = h /\ ~owned[b]
  /\ info' = [info EXCEPT ![h].buf = 0]
  /\ free' = free \cup Chain(h)
  /\ desc' = [i \in Desc |-> IF i \in Chain(h) THEN NoDesc ELSE desc[i]]
  /\ valid' = [valid EXCEPT ![b] = @ \/ ~write[p]]
  /\ dirty' = [dirty EXCEPT ![b] = @ /\ ~write[p]]
  /\ write' = [write EXCEPT ![p] = FALSE] /\ head' = [head EXCEPT ![p] = 0]
  /\ pc' = [q \in Proc |-> IF q = p THEN "have" ELSE IF q \in OnFree THEN "rw" ELSE pc[q]]
  /\ InDriver' = InDriver \ {p} /\ p \in InDriver
  /\ UNCHANGED <<platter, blockno, data, owned, holder, num, avail, used, cur, pins, panicked>>

\* That is what Finished does.
LEMMA FinishedEffect ==
  ASSUME IInv, RInv, NEW p \in Proc, Finished(p)
  PROVE  \E b \in Buf, h \in Desc : Ended(p, b, h)
<1> DEFINE b == cur[p]
           h == head[p]
<1>1. pc[p] = "wait" /\ b \in Buf /\ h \in Desc /\ p \in InDriver /\ ~owned[b]
  BY ZenonT(30) DEF Finished, At, IInv, Shape, RInv, Typed, InDriver
<1>2. Chain(h) \cap free = {}
  BY <1>1 DEF RInv, Chains
<1>3. pc' = [q \in Proc |-> IF q = p THEN "have" ELSE IF q \in OnFree THEN "rw" ELSE pc[q]]
  BY <1>2, ZenonT(60) DEF Finished, wakeup, OnFree, Awake
<1>4. InDriver' = InDriver \ {p}
  BY ZenonT(30), <1>1, <1>3 DEF InDriver, IInv, Shape, OnFree
<1>5. Ended(p, b, h)
  BY ZenonT(30), <1>1, <1>2, <1>3, <1>4 DEF Finished, Ended, free_desc, devVars, cacheVars
<1> HIDE DEF b, h
<1> QED BY <1>1, <1>5

-----------------------------------------------------------------------------
\* What virtio_disk_intr() does with the entry i of the used ring, of the request of p.
Entered(p, b, i) ==
  /\ head[p] = i /\ cur[p] = b /\ i \in InUsed
  /\ owned' = [owned EXCEPT ![b] = FALSE]
  /\ used' \in Seq(Desc) /\ InUsed' = InUsed \ {i}
  /\ \A m, n \in DOMAIN used' : used'[m] = used'[n] => m = n
  /\ pc' = [q \in Proc |-> IF q \in OnBuf(b) THEN "wait" ELSE pc[q]]
  /\ InDriver' = InDriver
  /\ UNCHANGED <<platter, blockno, valid, data, holder, num, free, desc, info, avail, head, cur,
                 write, dirty, pins, panicked>>

\* What is left of the used ring when its first element has been taken.
LEMMA TailOf ==
  ASSUME NEW S, NEW s \in Seq(S), Len(s) >= 1
  PROVE  /\ Tail(s) \in Seq(S) /\ DOMAIN Tail(s) = 1 .. Len(s) - 1
         /\ \A n \in 1 .. Len(s) - 1 : Tail(s)[n] = s[n + 1]
BY SMTT(30)

\* That is what the handler does with the first answer.
LEMMA EntryEffect ==
  ASSUME IInv, RInv, IntrEntry
  PROVE  \E p \in InDriver, b \in Buf, i \in Desc : Entered(p, b, i)
<1> DEFINE i == Head(used)
<1>0. Typed /\ Rings /\ Shape /\ used # <<>>
  BY ZenonT(30) DEF IInv, RInv, IntrEntry
<1>1. used \in Seq(Desc) /\ Len(used) \in Nat /\ Len(used) >= 1 /\ i = used[1] /\ i \in Desc
  BY SMTT(30), <1>0 DEF Typed
<1>2. DOMAIN used = 1 .. Len(used) /\ i \in InUsed
  BY <1>1 DEF InUsed
<1>3. PICK p \in InDriver : head[p] = i
  BY ZenonT(30), <1>0, <1>2 DEF Rings
<1>4. info[i].buf = cur[p] /\ info[i].status = 0 /\ cur[p] \in Buf
  BY ZenonT(30), <1>0, <1>2, <1>3 DEF Rings, InDriver, Shape
<1>5. /\ owned' = [owned EXCEPT ![cur[p]] = FALSE] /\ used' = Tail(used)
      /\ pc' = [q \in Proc |-> IF q \in OnBuf(cur[p]) THEN "wait" ELSE pc[q]]
      /\ UNCHANGED <<platter, blockno, valid, data, holder, num, free, desc, info, avail, head, cur,
                     write, dirty, pins, panicked>>
  BY <1>4 DEF IntrEntry, devVars, cacheVars, procVars, histVars
<1>6. InDriver' = InDriver
  BY ZenonT(30), <1>0, <1>5 DEF InDriver, OnBuf, Shape
<1>7. /\ used' \in Seq(Desc) /\ DOMAIN used' = 1 .. Len(used) - 1
      /\ \A n \in 1 .. Len(used) - 1 : used'[n] = used[n + 1]
  BY ZenonT(30), <1>1, <1>5, TailOf
<1>8. \A m, n \in DOMAIN used : used[m] = used[n] => m = n
  BY ZenonT(30), <1>0 DEF Rings
<1>9. \A m, n \in DOMAIN used' : used'[m] = used'[n] => m = n
  BY SMTT(30), <1>1, <1>2, <1>7, <1>8
<1>10. InUsed' = InUsed \ {i}
  <2>1. ASSUME NEW n \in DOMAIN used' PROVE used'[n] \in InUsed \ {i}
    <3>1. n + 1 \in DOMAIN used /\ n + 1 # 1 /\ 1 \in DOMAIN used /\ used'[n] = used[n + 1]
      BY SMTT(30), <1>1, <1>2, <1>7
    <3>2. used[n + 1] # used[1]
      BY ZenonT(30), <3>1, <1>8
    <3> QED BY ZenonT(30), <3>1, <3>2, <1>1 DEF InUsed
  <2>2. ASSUME NEW x \in InUsed \ {i} PROVE \E n \in DOMAIN used' : used'[n] = x
    <3>1. PICK m \in DOMAIN used : used[m] = x
      BY ZenonT(30) DEF InUsed
    <3>2. m # 1
      BY ZenonT(30), <3>1, <1>1
    <3>3. m - 1 \in DOMAIN used' /\ used'[m - 1] = used[m]
      BY SMTT(30), <3>2, <1>1, <1>2, <1>7
    <3> QED BY ZenonT(30), <3>1, <3>3
  <2> QED BY <2>1, <2>2 DEF InUsed
<1> HIDE DEF i
<1>11. Entered(p, cur[p], i)
  BY ZenonT(30), <1>2, <1>3, <1>5, <1>6, <1>7, <1>9, <1>10 DEF Entered
<1> QED BY ZenonT(30), <1>1, <1>4, <1>11

\* What the device does with the request of p, at i.
Done(p, b, i) ==
  /\ head[p] = i /\ cur[p] = b /\ i \in avail
  /\ \/ write[p] /\ platter' = [platter EXCEPT ![blockno[b]] = data[b]] /\ data' = data
     \/ ~write[p] /\ data' = [data EXCEPT ![b] = platter[blockno[b]]] /\ platter' = platter
  /\ info' = [info EXCEPT ![i].status = 0] /\ avail' = avail \ {i}
  /\ InUsed' = InUsed \cup {i} /\ InDriver' = InDriver
  /\ \A m, n \in DOMAIN used' : used'[m] = used'[n] => m = n
  /\ UNCHANGED <<blockno, valid, holder, owned, num, free, desc, head, cur, pc, write, dirty, pins,
                 panicked>>

\* That is what a step of the device that answers does.
LEMMA DeviceEffect ==
  ASSUME IInv, RInv, Device
  PROVE  \E p \in InDriver, b \in Buf, i \in Desc : Done(p, b, i)
<1>0. Typed /\ Rings /\ Shape /\ Contents
  BY DEF IInv, RInv
<1>1. PICK i \in Desc : DevDone(i)
  BY DEF Device
<1>2. i \in avail
  BY ZenonT(30), <1>1 DEF DevDone
<1>3. PICK p \in InDriver : head[p] = i
  BY ZenonT(30), <1>0, <1>2 DEF Rings
<1>4. cur[p] \in Buf
  BY ZenonT(30), <1>0 DEF InDriver, Shape
<1>5. desc[i].op = [write |-> write[p], block |-> blockno[cur[p]], buf |-> cur[p]]
  BY ZenonT(30), <1>0, <1>3 DEF Contents, Ops
<1>6. /\ \/ write[p] /\ platter' = [platter EXCEPT ![blockno[cur[p]]] = data[cur[p]]] /\ data' = data
         \/ /\ ~write[p] /\ data' = [data EXCEPT ![cur[p]] = platter[blockno[cur[p]]]]
            /\ platter' = platter
      /\ info' = [info EXCEPT ![i].status = 0] /\ avail' = avail \ {i} /\ used' = Append(used, i)
      /\ UNCHANGED <<blockno, valid, holder, owned, num, free, desc, head, cur, pc, write, dirty, pins,
                     panicked>>
  BY SMTT(30), <1>1, <1>5 DEF DevDone, cacheVars, procVars, histVars
<1>7. InDriver' = InDriver
  BY ZenonT(30), <1>6 DEF InDriver
<1>8. /\ DOMAIN used = 1 .. Len(used) /\ Len(used) \in Nat /\ DOMAIN used' = 1 .. Len(used) + 1
      /\ used'[Len(used) + 1] = i /\ \A n \in 1 .. Len(used) : used'[n] = used[n]
  BY SMTT(30), <1>0, <1>6 DEF Typed
<1>9. i \notin InUsed
  BY ZenonT(30), <1>0, <1>2 DEF Rings
<1>10. \A m, n \in DOMAIN used' : used'[m] = used'[n] => m = n
  <2>1. \A n \in DOMAIN used : used[n] # i
    BY ZenonT(30), <1>9 DEF InUsed
  <2>2. \A m, n \in DOMAIN used : used[m] = used[n] => m = n
    BY ZenonT(30), <1>0 DEF Rings
  <2> QED BY SMTT(30), <1>8, <2>1, <2>2
<1>11. InUsed' = InUsed \cup {i}
  <2>1. ASSUME NEW n \in DOMAIN used' PROVE used'[n] \in InUsed \cup {i}
    BY SMTT(30), <1>8 DEF InUsed
  <2>2. ASSUME NEW x \in InUsed \cup {i} PROVE \E n \in DOMAIN used' : used'[n] = x
    BY SMTT(30), <1>8 DEF InUsed
  <2> QED BY ZenonT(30), <2>1, <2>2 DEF InUsed
<1>12. Done(p, cur[p], i)
  BY ZenonT(30), <1>2, <1>3, <1>6, <1>7, <1>10, <1>11 DEF Done
<1> QED BY <1>4, <1>12

\* Every step keeps the rings: the descriptors of a new request are in neither, and
\* those of a request that is over have left both.
LEMMA RingsStep == IInv /\ RInv /\ [Next]_vars => Rings'
<1> SUFFICES ASSUME IInv, RInv, [Next]_vars PROVE Rings'
  OBVIOUS
<1>0. Rings /\ Typed /\ Chains /\ Held /\ Shape
  BY ZenonT(30) DEF RInv, IInv
<1>00. \A p, q \in InDriver : p # q => head[p] # head[q] /\ cur[p] # cur[q]
  BY ZenonT(30), <1>0, Distinct
<1>01. \A p \in InDriver : p \in Proc /\ head[p] \in Desc /\ cur[p] \in Buf /\ head[p] \notin free
  <2>1. \A p \in InDriver : p \in Proc /\ head[p] \in Desc /\ cur[p] \in Buf
    BY <1>0 DEF InDriver, Typed, Shape
  <2>2. ASSUME NEW p \in InDriver PROVE head[p] \notin free
    <3>1. head[p] \in Chain(head[p])
      BY ZenonT(30), <1>0, LinkedChain DEF Chains
    <3> QED BY ZenonT(30), <3>1, <1>0 DEF Chains
  <2> QED BY ZenonT(30), <2>1, <2>2
<1>1. ASSUME NEW p \in Proc, Submit(p) PROVE Rings'
  <2>1. PICK b \in Buf, i \in free, j \in free, k \in free : Submitted(p, b, i, j, k)
    BY <1>1, SubmitEffect, ZenonT(60)
  <2>2. /\ info' = [info EXCEPT ![i] = [buf |-> b, status |-> 255]]
        /\ owned' = [owned EXCEPT ![b] = TRUE] /\ avail' = avail \cup {i}
        /\ head' = [head EXCEPT ![p] = i] /\ pc[p] = "rw" /\ cur[p] = b
        /\ InDriver' = InDriver \cup {p} /\ p \notin InDriver
        /\ used' = used /\ cur' = cur /\ panicked' = panicked
    BY ZenonT(30), <2>1 DEF Submitted
  <2>3. i \in Desc /\ InUsed' = InUsed
    <3>1. i \in Desc
      BY <1>0 DEF Typed
    <3>2. InUsed' = InUsed
      BY ZenonT(30), <2>2 DEF InUsed
    <3> QED BY ZenonT(30), <3>1, <3>2
  <2>4. i \notin avail \cup InUsed
    <3> SUFFICES ASSUME i \in avail \cup InUsed PROVE FALSE
      OBVIOUS
    <3>1. PICK q \in InDriver : head[q] = i
      BY ZenonT(30), <1>0 DEF Rings
    <3> QED BY ZenonT(30), <3>1, <1>01
  <2>5. ASSUME NEW q \in InDriver
        PROVE  /\ head'[q] = head[q] /\ head[q] # i /\ cur[q] # b
               /\ info'[head[q]] = info[head[q]] /\ owned'[cur[q]] = owned[cur[q]]
    <3>1. cur[q] # b
      <4>1. holder[b] = p
        BY ZenonT(30), <2>2, <1>0 DEF Held, Holding
      <4>2. holder[cur[q]] = q
        BY ZenonT(30), <1>01, <1>0 DEF Held, Holding, InDriver
      <4> QED BY ZenonT(30), <4>1, <4>2, <2>2
    <3>2. head[q] # i /\ q # p
      BY ZenonT(30), <1>01, <2>2
    <3> QED BY ZenonT(30), <3>1, <3>2, <2>2, <1>0, <1>01 DEF Typed, Shape
  <2>6. /\ head'[p] = i /\ owned'[b] = TRUE /\ info'[i].buf = b
    BY ZenonT(30), <2>2, <2>3, <1>0 DEF Typed, Shape
  <2>7. \A q \in InDriver' :
          info'[head'[q]].buf = cur'[q] /\ (owned'[cur'[q]] <=> head'[q] \in avail' \cup InUsed')
    <3>1. ASSUME NEW q \in InDriver
          PROVE  info'[head'[q]].buf = cur'[q]
                 /\ (owned'[cur'[q]] <=> head'[q] \in avail' \cup InUsed')
      <4>1. info[head[q]].buf = cur[q] /\ (owned[cur[q]] <=> head[q] \in avail \cup InUsed)
        BY ZenonT(30), <1>0 DEF Rings
      <4>2. head'[q] \in avail' \cup InUsed' <=> head[q] \in avail \cup InUsed
        <5>1. head'[q] = head[q] /\ head[q] # i
          BY ZenonT(30), <2>5
        <5>2. avail' = avail \cup {i} /\ InUsed' = InUsed
          BY ZenonT(30), <2>2, <2>3
        <5> QED BY ONLY SMTT(30), <5>1, <5>2
      <4>3. cur'[q] = cur[q] /\ owned'[cur[q]] = owned[cur[q]] /\ info'[head'[q]] = info[head[q]]
        BY <2>5, <2>2, ZenonT(60)
      <4> QED BY ONLY ZenonT(30), <4>1, <4>2, <4>3
    <3>2. info'[head'[p]].buf = cur'[p] /\ owned'[cur'[p]] /\ head'[p] \in avail' \cup InUsed'
      BY SMTT(30), <2>2, <2>6
    <3> QED BY <2>2, <3>1, <3>2, ZenonT(60)
  <2>8. \A n \in avail' \cup InUsed' : \E q \in InDriver' : head'[q] = n
    <3>1. ASSUME NEW n \in avail \cup InUsed PROVE \E q \in InDriver' : head'[q] = n
      <4>1. PICK q \in InDriver : head[q] = n
        BY ZenonT(30), <1>0 DEF Rings
      <4> QED BY ZenonT(30), <4>1, <2>2, <2>5
    <3> QED BY ZenonT(30), <3>1, <2>2, <2>3, <2>6
  <2>9. avail' \cap InUsed' = {} /\ panicked' \in {"no", "bget"}
    BY SMTT(30), <2>2, <2>3, <2>4, <1>0 DEF Rings
  <2>10. \A n \in InUsed' : info'[n].status = 0
    <3>1. \A n \in InUsed : info'[n] = info[n]
      <4>1. ASSUME NEW n \in InUsed PROVE n \in Desc /\ n # i
        <5>1. PICK q \in InDriver : head[q] = n
          BY ZenonT(30), <1>0 DEF Rings
        <5> QED BY ZenonT(30), <5>1, <2>4, <1>01
      <4>2. DOMAIN info = Desc
        BY <1>0 DEF Typed
      <4> QED BY ZenonT(30), <4>1, <4>2, <2>2
    <3> QED BY ZenonT(30), <3>1, <2>3, <1>0 DEF Rings
  <2>11. \A m, n \in DOMAIN used' : used'[m] = used'[n] => m = n
    BY ZenonT(30), <2>2, <1>0 DEF Rings
  <2> QED BY ZenonT(30), <2>7, <2>8, <2>9, <2>10, <2>11 DEF Rings
<1>2. ASSUME NEW p \in Proc, Finished(p) PROVE Rings'
  <2>1. PICK b \in Buf, h \in Desc : Ended(p, b, h)
    BY ZenonT(30), <1>2, FinishedEffect
  <2>2. /\ head[p] = h /\ cur[p] = b /\ ~owned[b] /\ p \in InDriver /\ InDriver' = InDriver \ {p}
        /\ info' = [info EXCEPT ![h].buf = 0] /\ head' = [head EXCEPT ![p] = 0]
        /\ UNCHANGED <<owned, avail, used, cur, panicked>>
    BY <2>1 DEF Ended
  <2>3. h \notin avail \cup InUsed /\ InUsed' = InUsed
    BY SMTT(30), <2>2, <1>0 DEF Rings, InUsed
  <2>4. \A x \in Desc : info'[x].status = info[x].status /\ (x # h => info'[x] = info[x])
    BY SMTT(30), <2>2, <1>0 DEF Typed
  <2>5. ASSUME NEW q \in InDriver, q # p
        PROVE  head'[q] = head[q] /\ info'[head[q]] = info[head[q]]
    BY SMTT(30), <2>2, <2>4, <2>5, <1>0, <1>00, <1>01 DEF Typed
  <2>6. \A q \in InDriver' :
          info'[head'[q]].buf = cur'[q] /\ (owned'[cur'[q]] <=> head'[q] \in avail' \cup InUsed')
    <3>1. ASSUME NEW q \in InDriver, q # p
          PROVE  info'[head'[q]].buf = cur'[q]
                 /\ (owned'[cur'[q]] <=> head'[q] \in avail' \cup InUsed')
      <4>1. info[head[q]].buf = cur[q] /\ (owned[cur[q]] <=> head[q] \in avail \cup InUsed)
        BY ZenonT(60), <1>0 DEF Rings
      <4> QED BY <4>1, <3>1, <2>5, <2>2, <2>3, ZenonT(60)
    <3> QED BY <2>2, <3>1
  <2>7. \A n \in avail' \cup InUsed' : \E q \in InDriver' : head'[q] = n
    <3>1. ASSUME NEW n \in avail \cup InUsed PROVE \E q \in InDriver' : head'[q] = n
      <4>1. PICK q \in InDriver : head[q] = n
        BY <1>0 DEF Rings
      <4>2. q # p
        BY <4>1, <2>2, <2>3
      <4> QED BY ZenonT(30), <4>1, <4>2, <2>2, <2>5
    <3> QED BY <3>1, <2>2, <2>3
  <2>8. avail' \cap InUsed' = {} /\ panicked' \in {"no", "bget"}
    BY ZenonT(30), <2>2, <2>3, <1>0 DEF Rings
  <2>9. \A n \in InUsed' : info'[n].status = 0
    <3>1. \A n \in InUsed : n \in Desc
      BY <1>0, <1>01 DEF Rings
    <3> QED BY ZenonT(30), <3>1, <2>3, <2>4, <1>0 DEF Rings
  <2>10. \A m, n \in DOMAIN used' : used'[m] = used'[n] => m = n
    BY ZenonT(30), <2>2, <1>0 DEF Rings
  <2> QED BY ZenonT(60), <2>6, <2>7, <2>8, <2>9, <2>10 DEF Rings
<1>3. CASE IntrEntry
  <2>1. PICK p \in InDriver, b \in Buf, i \in Desc : Entered(p, b, i)
    BY <1>3, EntryEffect
  <2>2. /\ head[p] = i /\ cur[p] = b /\ i \in InUsed /\ owned' = [owned EXCEPT ![b] = FALSE]
        /\ InUsed' = InUsed \ {i} /\ InDriver' = InDriver
        /\ UNCHANGED <<info, avail, head, cur, panicked>>
    BY <2>1, ZenonT(60) DEF Entered
  <2>3. i \notin avail
    BY ZenonT(30), <2>2, <1>0 DEF Rings
  <2>4. ASSUME NEW q \in InDriver
        PROVE  info[head[q]].buf = cur[q] /\ (owned'[cur[q]] <=> head[q] \in avail \cup InUsed')
    <3>1. info[head[q]].buf = cur[q] /\ (owned[cur[q]] <=> head[q] \in avail \cup InUsed)
      BY ZenonT(30), <1>0 DEF Rings
    <3>2. CASE q = p
      <4>1. owned'[b] = FALSE
        BY ZenonT(30), <2>2, <1>0 DEF Shape
      <4> QED BY ZenonT(30), <3>1, <3>2, <4>1, <2>2, <2>3
    <3>3. CASE q # p
      <4>1. cur[q] # b /\ head[q] # i
        BY ZenonT(30), <3>3, <1>00, <2>2
      <4>2. owned'[cur[q]] = owned[cur[q]]
        BY ZenonT(30), <4>1, <2>2, <1>0, <1>01 DEF Shape
      <4> QED BY ZenonT(30), <3>1, <4>1, <4>2, <2>2
    <3> QED BY ZenonT(30), <3>2, <3>3
  <2>5. \A m, n \in DOMAIN used' : used'[m] = used'[n] => m = n
    BY ZenonT(30), <2>1 DEF Entered
  <2> QED BY ZenonT(30), <2>2, <2>4, <2>5, <1>0 DEF Rings
<1>4. CASE Device
  <2>1. PICK p \in InDriver, b \in Buf, i \in Desc : Done(p, b, i)
    BY ZenonT(30), <1>4, DeviceEffect
  <2>2. /\ head[p] = i /\ i \in avail /\ info' = [info EXCEPT ![i].status = 0]
        /\ avail' = avail \ {i} /\ InUsed' = InUsed \cup {i} /\ InDriver' = InDriver
        /\ \A m, n \in DOMAIN used' : used'[m] = used'[n] => m = n
        /\ UNCHANGED <<owned, head, cur, panicked>>
    BY <2>1 DEF Done
  <2>3. avail' \cup InUsed' = avail \cup InUsed /\ avail' \cap InUsed' = {}
    BY ZenonT(30), <2>2, <1>0 DEF Rings
  <2>4. /\ \A x \in Desc : info'[x].buf = info[x].buf /\ (x # i => info'[x] = info[x])
        /\ info'[i].status = 0
    BY <2>2, <1>0 DEF Typed
  <2>5. \A n \in InUsed' : info'[n].status = 0
    <3>1. \A n \in InUsed : n \in Desc /\ info[n].status = 0
      BY <1>0, <1>01 DEF Rings
    <3> QED BY ZenonT(30), <3>1, <2>2, <2>4
  <2>6. \A q \in InDriver : info'[head[q]].buf = cur[q]
    BY ZenonT(30), <2>4, <1>0, <1>01 DEF Rings
  <2> QED BY ZenonT(30), <2>2, <2>3, <2>5, <2>6, <1>0 DEF Rings
<1>5. CASE Apart
  <2>1. InUsed' = InUsed
    BY ZenonT(30), <1>5 DEF Apart, InUsed
  <2>2. /\ UNCHANGED <<info, head, owned, avail, used>> /\ InDriver' = InDriver
        /\ panicked' \in {panicked, "bget"} /\ \A q \in InDriver : cur'[q] = cur[q]
    BY <1>5 DEF Apart
  <2> QED BY ZenonT(30), <2>1, <2>2, <1>0 DEF Rings
<1> QED BY ZenonT(30), <1>1, <1>2, <1>3, <1>4, <1>5, Requests

-----------------------------------------------------------------------------
(* Contents and blocks.                                                    *)

\* Nothing happens to what blocks, buffers and requests hold, nor to who has them.
Quiet ==
  /\ UNCHANGED <<platter, blockno, valid, data, holder, desc, avail, cur, write, head, dirty, pins>>
  /\ InDriver' = InDriver
  /\ \A q \in Proc : (pc'[q] \in Holding <=> pc[q] \in Holding) /\ (pc'[q] = "have" <=> pc[q] = "have")

\* The steps by which something does.
Busy ==
  \/ \E p \in Proc, k \in Block : bget(p, k)
  \/ \E p \in Proc : \/ acquiresleep(p) \/ Change(p) \/ bwrite(p) \/ bpin(p) \/ bunpin(p)
                     \/ releasesleep(p) \/ brelse(p) \/ Submit(p) \/ Finished(p)
  \/ Device

\* There are no other steps.
LEMMA QuietSteps ==
  ASSUME IInv, RInv, [Next]_vars
  PROVE  Busy \/ Quiet
<1>0. Shape
  BY DEF IInv
<1>1. ASSUME UNCHANGED <<platter, blockno, valid, data, holder, desc, avail, cur, write, head, dirty,
                         pins, pc>>
      PROVE  Quiet
  BY <1>1 DEF Quiet, InDriver
<1>2. ASSUME NEW p \in Proc, NEW k \in Block, NoBuffers(p, k) PROVE Quiet
  BY ZenonT(30), <1>2, <1>1 DEF NoBuffers, panic, devVars, cacheVars, bufVars, ringVars, procVars, histVars
<1>3. ASSUME NEW p \in Proc, AllocFails(p) PROVE Quiet
  <2>1. PICK W \in SUBSET OnFree :
          pc' = [q \in Proc |-> IF q = p THEN "rw_sleep" ELSE IF q \in W THEN "rw" ELSE pc[q]]
    <3>1. CASE free = {}
      BY <1>3, <3>1 DEF AllocFails, wakeup
    <3>2. CASE free # {}
      BY <1>3, <3>2, ZenonT(60) DEF AllocFails, wakeup, OnFree, Awake
    <3> QED BY <3>1, <3>2
  <2>2. pc[p] = "rw"
    BY <1>3 DEF AllocFails, At
  <2>3. InDriver' = InDriver
    BY ZenonT(30), <2>1, <2>2, <1>0 DEF InDriver, OnFree, Shape
  <2>4. \A q \in Proc : /\ (pc'[q] \in Holding <=> pc[q] \in Holding)
                       /\ (pc'[q] = "have" <=> pc[q] = "have")
    BY ZenonT(30), <2>1, <2>2, <1>0 DEF Holding, OnFree, Shape
  <2> QED BY <1>3, <2>3, <2>4 DEF AllocFails, Quiet, devVars, cacheVars, bufVars, ringVars,
             procVars, histVars
<1>4. ASSUME NEW p \in Proc, NotYet(p) PROVE Quiet
  <2>1. pc[p] = "wait" /\ pc' = [pc EXCEPT ![p] = "wait_sleep"]
    BY <1>4 DEF NotYet, At, Goto
  <2>2. InDriver' = InDriver
    BY <2>1, <1>0 DEF InDriver, Shape
  <2>3. \A q \in Proc : /\ (pc'[q] \in Holding <=> pc[q] \in Holding)
                       /\ (pc'[q] = "have" <=> pc[q] = "have")
    BY <2>1, <1>0 DEF Holding, Shape
  <2> QED BY ZenonT(30), <1>4, <2>2, <2>3 DEF NotYet, Quiet, devVars, cacheVars, bufVars, ringVars, procVars,
             histVars
<1>5. ASSUME NEW p \in Proc, Kill(p) PROVE Quiet
  <2>1. \/ pc[p] = "lock_sleep" /\ pc' = [pc EXCEPT ![p] = "lock"]
        \/ pc[p] = "rw_sleep" /\ pc' = [pc EXCEPT ![p] = "rw"]
        \/ pc[p] = "wait_sleep" /\ pc' = [pc EXCEPT ![p] = "wait"]
    BY <1>5, ZenonT(60) DEF Kill, Goto, Awake
  <2>2. InDriver' = InDriver
    BY ZenonT(30), <2>1, <1>0 DEF InDriver, Shape
  <2>3. \A q \in Proc : /\ (pc'[q] \in Holding <=> pc[q] \in Holding)
                       /\ (pc'[q] = "have" <=> pc[q] = "have")
    BY ZenonT(30), <2>1, <1>0 DEF Holding, Shape
  <2> QED BY <1>5, <2>2, <2>3, ZenonT(60) DEF Kill, Quiet, devVars, cacheVars, bufVars, ringVars, procVars,
             histVars
<1>6. ASSUME IntrEntry PROVE Quiet
  <2>1. PICK p \in InDriver, b \in Buf, i \in Desc : Entered(p, b, i)
    BY <1>6, EntryEffect
  <2>2. \A q \in Proc : /\ (pc'[q] \in Holding <=> pc[q] \in Holding)
                       /\ (pc'[q] = "have" <=> pc[q] = "have")
    BY ZenonT(30), <2>1 DEF Entered, OnBuf, Holding
  <2> QED BY <2>1, <2>2 DEF Entered, Quiet
<1>7. ASSUME IntrStart \/ IntrEnd \/ UNCHANGED vars PROVE Quiet
  BY ZenonT(30), <1>7, <1>1 DEF IntrStart, IntrEnd, vars, devVars, cacheVars, bufVars, ringVars, procVars,
     histVars
<1>8. ASSUME NEW p \in Proc, Driver(p) PROVE Busy \/ Quiet
  BY <1>8, <1>3, <1>4 DEF Driver, Busy
<1>9. ASSUME NEW p \in Proc, Caller(p) PROVE Busy \/ Quiet
  <2>1. Uses[p] \subseteq Block
    BY DiskAssumption
  <2> QED BY <1>9, <2>1, <1>2, ZenonT(60) DEF Caller, Busy
<1> QED BY ZenonT(30), <1>5, <1>6, <1>7, <1>8, <1>9 DEF Next, Intr, Panicked, Busy

\* A step that leaves what is held alone keeps it.
LEMMA QuietContents ==
  ASSUME Contents, Shape, Quiet
  PROVE  Contents'
<1>1. Ops'
  BY DEF Contents, Ops, Quiet
<1>2. Writes'
  BY Zenon DEF Contents, Writes, Quiet
<1>3. Clean'
  BY DEF Contents, Clean, Quiet
<1> QED BY ZenonT(30), <1>1, <1>2, <1>3 DEF Contents

\* Whoever is past acquiresleep() has a buffer with a block to itself, and a buffer without
\* references has no user, no owner and no change.
LEMMA Having ==
  ASSUME IInv, RInv
  PROVE  /\ \A p \in Proc : pc[p] \in Holding =>
                 cur[p] \in Buf /\ holder[cur[p]] = p /\ blockno[cur[p]] \in Block
         /\ \A p, q \in Proc : pc[p] \in Holding /\ pc[q] \in Holding /\ p # q => cur[p] # cur[q]
         /\ \A b \in Buf : refcnt[b] = 0 =>
                 holder[b] = None /\ ~dirty[b] /\ \A p \in Proc : cur[p] # b
<1>0. Shape /\ Held /\ Counted /\ Clean /\ Sized
  BY DEF IInv, RInv, Contents
<1>1. ASSUME NEW p \in Proc, pc[p] \in Holding
      PROVE  cur[p] \in Buf /\ holder[cur[p]] = p /\ blockno[cur[p]] \in Block
  <2>1. cur[p] \in Buf
    BY <1>1, <1>0 DEF Shape, Holding
  <2> QED BY ZenonT(30), <2>1, <1>1, <1>0 DEF Held, Counted
<1>2. \A p, q \in Proc : pc[p] \in Holding /\ pc[q] \in Holding /\ p # q => cur[p] # cur[q]
  BY <1>1
<1>3. ASSUME NEW b \in Buf, refcnt[b] = 0
      PROVE  holder[b] = None /\ ~dirty[b] /\ \A p \in Proc : cur[p] # b
  <2>1. pins[b] = 0 /\ Users(b) = {}
    BY <1>3, <1>0 DEF Sized
  <2>2. \A p \in Proc : cur[p] # b
    BY <2>1 DEF Users
  <2>3. holder[b] = None
    BY <2>2, <1>0 DEF Held, Shape
  <2> QED BY SMTT(30), <2>1, <2>2, <2>3, <1>0 DEF Clean
<1> QED BY <1>1, <1>2, <1>3

\* The steps of a process that takes, has or gives back a buffer keep what is held.
LEMMA CacheContents ==
  ASSUME IInv, RInv, NEW p \in Proc,
         \/ \E k \in Block : bget(p, k)
         \/ acquiresleep(p) \/ Change(p) \/ bwrite(p) \/ bpin(p) \/ bunpin(p)
         \/ releasesleep(p) \/ brelse(p)
  PROVE  Contents'
<1>0. Shape /\ Typed /\ Held /\ Counted /\ Ops /\ Writes /\ Clean /\ None \notin Proc
      /\ None \notin Block /\ 0 \notin Buf
  BY SMTT(30), DiskAssumption DEF IInv, RInv, Contents, Buf
<1>h. /\ \A q \in Proc : pc[q] \in Holding =>
             cur[q] \in Buf /\ holder[cur[q]] = q /\ blockno[cur[q]] \in Block
      /\ \A q, r \in Proc : pc[q] \in Holding /\ pc[r] \in Holding /\ q # r => cur[q] # cur[r]
      /\ \A b \in Buf : refcnt[b] = 0 =>
             holder[b] = None /\ ~dirty[b] /\ \A q \in Proc : cur[q] # b
  BY ZenonT(30), Having
<1>d. \A q \in InDriver : q \in Proc /\ pc[q] \in Holding /\ pc[q] # "have" /\ cur[q] \in Buf
  BY <1>h DEF InDriver, Holding
<1>1. ASSUME NEW k \in Block, bget(p, k) PROVE Contents'
  <2>1. PICK b \in Buf :
          /\ \/ UNCHANGED <<blockno, valid>>
             \/ /\ refcnt[b] = 0 /\ blockno' = [blockno EXCEPT ![b] = k]
                /\ valid' = [valid EXCEPT ![b] = FALSE]
          /\ cur' = [cur EXCEPT ![p] = b]
    BY <1>1, ZenonT(60) DEF bget, Recycled
  <2>2. /\ pc[p] = "idle" /\ pc' = [pc EXCEPT ![p] = "lock"]
        /\ UNCHANGED <<platter, data, holder, desc, avail, head, write, dirty, pins>>
    BY ZenonT(30), <1>1 DEF bget, At, Goto, devVars, ringVars, histVars
  <2>3. InDriver' = InDriver
    BY ZenonT(30), <2>2, <1>0 DEF InDriver, Shape
  <2>4. ASSUME NEW q \in Proc, pc[q] \in Holding
        PROVE  cur'[q] = cur[q] /\ blockno'[cur[q]] = blockno[cur[q]] /\ valid'[cur[q]] = valid[cur[q]]
    <3>1. q # p
      BY <2>2, <2>4 DEF Holding
    <3>2. cur[q] \in Buf /\ (refcnt[b] = 0 => cur[q] # b)
      BY <2>4, <1>h, ZenonT(60)
    <3> QED BY SMTT(30), <3>1, <3>2, <2>1, <1>0 DEF Shape, Typed
  <2>5. Ops'
    <3>1. ASSUME NEW q \in InDriver
          PROVE  cur'[q] = cur[q] /\ blockno'[cur[q]] = blockno[cur[q]]
      BY <2>4, <1>d, ZenonT(60)
    <3>2. ASSUME NEW q \in InDriver
          PROVE  /\ desc[head[q]].op = [write |-> write[q], block |-> blockno'[cur'[q]], buf |-> cur'[q]]
                 /\ head[q] \notin avail => data[cur'[q]] = platter[blockno'[cur'[q]]]
      <4>1. /\ desc[head[q]].op = [write |-> write[q], block |-> blockno[cur[q]], buf |-> cur[q]]
            /\ head[q] \notin avail => data[cur[q]] = platter[blockno[cur[q]]]
        BY <1>0, Zenon DEF Ops
      <4> QED BY <4>1, <3>1, ZenonT(60)
    <3> QED BY <3>2, <2>2, <2>3, ZenonT(60) DEF Ops
  <2>6. Writes'
    <3>1. ASSUME NEW q \in Proc
          PROVE  /\ write[q] <=> pc'[q] \in Holding \ {"have"} /\ valid'[cur'[q]]
                 /\ pc'[q] = "have" => valid'[cur'[q]]
      <4>1. CASE q = p
        BY ZenonT(30), <4>1, <2>2, <1>0 DEF Writes, Holding, Shape
      <4>2. CASE q # p /\ pc[q] \in Holding
        BY ZenonT(30), <4>2, <2>2, <2>4, <1>0 DEF Writes, Shape
      <4>3. CASE q # p /\ pc[q] \notin Holding
        BY ZenonT(30), <4>3, <2>2, <1>0 DEF Writes, Holding, Shape
      <4> QED BY ZenonT(30), <4>1, <4>2, <4>3
    <3> QED BY <3>1, <2>2, ZenonT(60) DEF Writes
  <2>7. Clean'
    <3>1. CASE UNCHANGED <<blockno, valid>>
      BY <3>1, <2>2, <1>0, ZenonT(60) DEF Clean
    <3>2. CASE /\ refcnt[b] = 0 /\ blockno' = [blockno EXCEPT ![b] = k]
               /\ valid' = [valid EXCEPT ![b] = FALSE]
      <4>1. ~dirty[b] /\ valid'[b] = FALSE
        BY <3>2, <1>h, <1>0, ZenonT(60) DEF Typed
      <4>2. \A c \in Buf : c # b => blockno'[c] = blockno[c] /\ valid'[c] = valid[c]
        BY <3>2, <1>0 DEF Shape, Typed
      <4> QED BY <4>1, <4>2, <2>2, <1>0, ZenonT(60) DEF Clean
    <3> QED BY ZenonT(30), <2>1, <3>1, <3>2
  <2> QED BY ZenonT(30), <2>5, <2>6, <2>7 DEF Contents
<1>2. CASE acquiresleep(p)
  <2>1. /\ pc[p] = "lock"
        /\ \/ UNCHANGED holder /\ pc' = [pc EXCEPT ![p] = "lock_sleep"]
           \/ /\ holder' = [holder EXCEPT ![cur[p]] = p]
              /\ \/ valid[cur[p]] /\ pc' = [pc EXCEPT ![p] = "have"]
                 \/ ~valid[cur[p]] /\ pc' = [pc EXCEPT ![p] = "rw"]
        /\ UNCHANGED <<platter, blockno, valid, data, desc, avail, cur, head, write, dirty, pins>>
    BY <1>2, Zenon DEF acquiresleep, At, Goto, devVars, cacheVars, bufVars, ringVars, procVars, histVars
  <2>2. InDriver' = InDriver
    BY <2>1, <1>0 DEF InDriver, Shape
  <2>3. Ops'
    BY <2>1, <2>2, <1>0, Zenon DEF Ops
  <2>4. Writes'
    <3>1. ASSUME NEW q \in Proc
          PROVE  /\ write[q] <=> pc'[q] \in Holding \ {"have"} /\ valid[cur[q]]
                 /\ pc'[q] = "have" => valid[cur[q]]
      <4>1. CASE q = p
        BY SMTT(30), <4>1, <2>1, <1>0 DEF Writes, Holding, Shape
      <4>2. CASE q # p
        BY <4>2, <2>1, <1>0 DEF Writes, Shape
      <4> QED BY <4>1, <4>2, Zenon
    <3> QED BY <3>1, <2>1, Zenon DEF Writes
  <2>5. Clean'
    <3>1. \A b \in Buf : holder[b] # None => holder'[b] # None
      BY <2>1, <1>0 DEF Shape
    <3> QED BY <3>1, <2>1, <1>0, ZenonT(60) DEF Clean
  <2> QED BY <2>3, <2>4, <2>5 DEF Contents
<1>3. CASE Change(p)
  <2>0. PICK b \in Buf : b = cur[p]
    BY ZenonT(30), <1>3, <1>0 DEF Change, At, Shape
  <2>1. /\ pc[p] = "have" /\ data' = [data EXCEPT ![b] = 1 - @] /\ dirty' = [dirty EXCEPT ![b] = TRUE]
        /\ UNCHANGED <<platter, blockno, valid, holder, desc, avail, cur, head, write, pc, pins>>
    BY ZenonT(30), <1>3, <2>0 DEF Change, At, devVars, cacheVars, ringVars, procVars
  <2>2. InDriver' = InDriver /\ pc[p] \in Holding
    BY <2>1 DEF InDriver, Holding
  <2>3. holder[b] = p /\ valid[b]
    BY <2>0, <2>1, <2>2, <1>h, <1>0, ZenonT(60) DEF Writes
  <2>4. \A q \in InDriver : cur[q] # b
    BY ZenonT(30), <2>0, <2>1, <2>2, <1>d, <1>h
  <2>5. Ops'
    <3>1. \A q \in InDriver : data'[cur[q]] = data[cur[q]]
      BY <2>1, <2>4, <1>d, <1>0, Zenon DEF Typed
    <3> QED BY <3>1, <2>1, <2>2, <1>0, ZenonT(60) DEF Ops
  <2>6. Writes'
    BY <2>1, <1>0, Zenon DEF Writes
  <2>7. Clean'
    <3>1. \A c \in Buf : c # b => data'[c] = data[c] /\ dirty'[c] = dirty[c]
      BY ZenonT(30), <2>1, <1>0 DEF Typed
    <3>2. dirty'[b] = TRUE
      BY SMTT(30), <2>1, <1>0 DEF Typed
    <3>3. holder[b] # None
      BY ZenonT(30), <2>3, <1>0
    <3> QED BY ZenonT(30), <3>1, <3>2, <3>3, <2>1, <2>3, <1>0 DEF Clean
  <2> QED BY ZenonT(30), <2>5, <2>6, <2>7 DEF Contents
<1>4. CASE bwrite(p)
  <2>1. /\ pc[p] = "have" /\ write' = [write EXCEPT ![p] = TRUE] /\ pc' = [pc EXCEPT ![p] = "rw"]
        /\ UNCHANGED <<platter, blockno, valid, data, holder, desc, avail, cur, head, dirty, pins>>
    BY ZenonT(30), <1>4 DEF bwrite, At, Goto, devVars, cacheVars, bufVars, ringVars, histVars
  <2>2. InDriver' = InDriver
    BY ZenonT(30), <2>1, <1>0 DEF InDriver, Shape
  <2>3. valid[cur[p]]
    BY <2>1, <1>0 DEF Writes
  <2>4. Ops'
    <3>1. \A q \in InDriver : write'[q] = write[q]
      BY <2>1, <1>d, <1>0, ZenonT(60) DEF Typed
    <3> QED BY <3>1, <2>1, <2>2, <1>0, ZenonT(60) DEF Ops
  <2>5. Writes'
    <3>1. ASSUME NEW q \in Proc
          PROVE  /\ write'[q] <=> pc'[q] \in Holding \ {"have"} /\ valid[cur[q]]
                 /\ pc'[q] = "have" => valid[cur[q]]
      <4>1. CASE q = p
        <5>1. write'[p] = TRUE /\ pc'[p] = "rw"
          BY SMTT(30), <2>1, <1>0 DEF Typed, Shape
        <5> QED BY ZenonT(30), <4>1, <5>1, <2>3 DEF Holding
      <4>2. CASE q # p
        <5>1. write'[q] = write[q] /\ pc'[q] = pc[q]
          BY <4>2, <2>1, <1>0 DEF Typed, Shape
        <5> QED BY ZenonT(30), <5>1, <1>0 DEF Writes
      <4> QED BY <4>1, <4>2, ZenonT(60)
    <3> QED BY <3>1, <2>1 DEF Writes
  <2>6. Clean'
    BY <2>1, <1>0, ZenonT(60) DEF Clean
  <2> QED BY ZenonT(30), <2>4, <2>5, <2>6 DEF Contents
<1>5. CASE bpin(p) \/ bunpin(p)
  <2>0. PICK b \in Buf : b = cur[p]
    BY <1>5, <1>0 DEF bpin, bunpin, At, Shape
  <2>1. /\ \/ pins' = [pins EXCEPT ![b] = @ + 1]
           \/ ~dirty[b] /\ pins' = [pins EXCEPT ![b] = @ - 1]
        /\ UNCHANGED <<platter, blockno, valid, data, holder, desc, avail, cur, head, write, pc, dirty>>
    BY <1>5, <2>0, ZenonT(60) DEF bpin, bunpin, devVars, bufVars, ringVars, procVars
  <2>2. InDriver' = InDriver
    BY <2>1, Zenon DEF InDriver
  <2>3. Ops' /\ Writes'
    BY <2>1, <2>2, <1>0, ZenonT(60) DEF Ops, Writes
  <2>4. Clean'
    <3>1. \A c \in Buf : dirty[c] /\ pins[c] > 0 => pins'[c] > 0
      <4>1. pins \in [Buf -> Nat]
        BY <1>0, ZenonT(60) DEF Counted
      <4> QED BY <4>1, <2>1
    <3> QED BY <3>1, <2>1, <1>0, ZenonT(60) DEF Clean
  <2> QED BY ZenonT(30), <2>3, <2>4 DEF Contents
<1>6. CASE releasesleep(p)
  <2>0. PICK b \in Buf : b = cur[p]
    BY ZenonT(30), <1>6, <1>0 DEF releasesleep, At, Shape
  <2>1. /\ pc[p] = "have" /\ (dirty[b] => pins[b] > 0) /\ holder' = [holder EXCEPT ![b] = None]
        /\ pc' = [q \in Proc |-> IF q = p THEN "brelse" ELSE IF q \in OnLock(b) THEN "lock" ELSE pc[q]]
        /\ UNCHANGED <<platter, blockno, valid, data, desc, avail, cur, head, write, dirty, pins>>
    BY ZenonT(30), <1>6, <2>0 DEF releasesleep, At, wakeup, OnLock, Awake, devVars, cacheVars, bufVars,
       ringVars, procVars, histVars
  <2>2. InDriver' = InDriver
    BY <2>1, <1>0 DEF InDriver, Shape, OnLock
  <2>3. Ops'
    BY <2>1, <2>2, <1>0, ZenonT(60) DEF Ops
  <2>4. Writes'
    <3>1. ASSUME NEW q \in Proc
          PROVE  /\ write[q] <=> pc'[q] \in Holding \ {"have"} /\ valid[cur[q]]
                 /\ pc'[q] = "have" => valid[cur[q]]
      <4>1. CASE q = p
        BY ZenonT(30), <4>1, <2>1, <1>0 DEF Writes, Holding, Shape
      <4>2. CASE q # p /\ q \in OnLock(b)
        BY <4>2, <2>1, <1>0, ZenonT(60) DEF Writes, Holding, OnLock
      <4>3. CASE q # p /\ q \notin OnLock(b)
        BY <4>3, <2>1, <1>0, ZenonT(60) DEF Writes
      <4> QED BY <4>1, <4>2, <4>3, ZenonT(60)
    <3> QED BY <3>1, <2>1, ZenonT(60) DEF Writes
  <2>5. Clean'
    <3>1. \A c \in Buf : c # b => holder'[c] = holder[c]
      BY ZenonT(30), <2>1, <1>0 DEF Shape
    <3> QED BY <3>1, <2>1, <1>0, ZenonT(60) DEF Clean
  <2> QED BY ZenonT(30), <2>3, <2>4, <2>5 DEF Contents
<1>7. CASE brelse(p)
  <2>1. /\ pc[p] = "brelse" /\ pc' = [pc EXCEPT ![p] = "idle"] /\ cur' = [cur EXCEPT ![p] = 0]
        /\ UNCHANGED <<platter, blockno, valid, data, holder, desc, avail, head, write, dirty, pins>>
    BY ZenonT(30), <1>7 DEF brelse, At, Goto, devVars, bufVars, ringVars, histVars
  <2>2. InDriver' = InDriver
    BY ZenonT(30), <2>1, <1>0 DEF InDriver, Shape
  <2>3. \A q \in Proc : q # p => cur'[q] = cur[q] /\ pc'[q] = pc[q]
    BY <2>1, <1>0 DEF Shape
  <2>4. Ops'
    <3>1. \A q \in InDriver : cur'[q] = cur[q]
      BY <2>1, <2>3, <1>d DEF Holding
    <3> QED BY <3>1, <2>1, <2>2, <1>0, ZenonT(60) DEF Ops
  <2>5. Writes'
    <3>1. ASSUME NEW q \in Proc
          PROVE  /\ write[q] <=> pc'[q] \in Holding \ {"have"} /\ valid[cur'[q]]
                 /\ pc'[q] = "have" => valid[cur'[q]]
      <4>1. CASE q = p
        BY ZenonT(30), <4>1, <2>1, <1>0 DEF Writes, Holding, Shape
      <4>2. CASE q # p
        BY <4>2, <2>3, <1>0, ZenonT(60) DEF Writes
      <4> QED BY ZenonT(30), <4>1, <4>2
    <3> QED BY <3>1, <2>1 DEF Writes
  <2>6. Clean'
    BY ZenonT(30), <2>1, <1>0 DEF Clean
  <2> QED BY ZenonT(30), <2>4, <2>5, <2>6 DEF Contents
<1> QED BY ZenonT(30), <1>1, <1>2, <1>3, <1>4, <1>5, <1>6, <1>7

\* A request that is submitted or over, and one that the device carries out, keep it too.
LEMMA DriverContents ==
  ASSUME IInv, RInv, (\E p \in Proc : Submit(p) \/ Finished(p)) \/ Device
  PROVE  Contents'
<1>0. Shape /\ Typed /\ Held /\ Chains /\ Rings /\ Ops /\ Writes /\ Clean /\ OneCopy
      /\ None \notin Block
  BY DiskAssumption DEF IInv, RInv, Contents
<1>h. /\ \A q \in Proc : pc[q] \in Holding =>
             cur[q] \in Buf /\ holder[cur[q]] = q /\ blockno[cur[q]] \in Block
      /\ \A q, r \in Proc : pc[q] \in Holding /\ pc[r] \in Holding /\ q # r => cur[q] # cur[r]
  BY Having, ZenonT(60)
<1>d. \A q \in InDriver : /\ q \in Proc /\ pc[q] \in Holding /\ pc[q] # "have" /\ cur[q] \in Buf
                         /\ head[q] \in Desc /\ blockno[cur[q]] \in Block
  BY ZenonT(30), <1>h, <1>0 DEF InDriver, Holding, Typed
<1>1. ASSUME NEW p \in Proc, Submit(p) PROVE Contents'
  <2>1. PICK b \in Buf, i \in free, j \in free, k \in free : Submitted(p, b, i, j, k)
    BY <1>1, SubmitEffect
  <2>2. /\ i # j /\ i # k /\ pc[p] = "rw" /\ cur[p] = b /\ avail' = avail \cup {i}
        /\ head' = [head EXCEPT ![p] = i] /\ pc' = [pc EXCEPT ![p] = "wait_sleep"]
        /\ InDriver' = InDriver \cup {p} /\ p \notin InDriver
        /\ UNCHANGED <<platter, blockno, valid, data, holder, cur, write, dirty, pins>>
    BY <2>1, Zenon DEF Submitted
  <2>3. /\ desc'[i].op = [write |-> write[p], block |-> blockno[b], buf |-> b]
        /\ \A x \in Desc \ {i, j, k} : desc'[x] = desc[x]
    <3>1. i \in Desc /\ j \in Desc /\ k \in Desc /\ DOMAIN desc = Desc
      BY <1>0 DEF Typed
    <3> QED BY <3>1, <2>1, ZenonT(60) DEF Submitted
  <2>4. ASSUME NEW q \in InDriver
        PROVE  head'[q] = head[q] /\ desc'[head[q]] = desc[head[q]]
    <3>1. head[q] \in Chain(head[q]) /\ Chain(head[q]) \cap free = {}
      BY <1>0, LinkedChain, ZenonT(60) DEF Chains
    <3>2. head[q] \in Desc \ {i, j, k}
      BY ZenonT(30), <3>1, <1>d
    <3>3. q # p /\ q \in Proc
      BY <2>2, <1>d
    <3> QED BY <3>2, <3>3, <2>2, <2>3, <1>0, ZenonT(60) DEF Typed
  <2>5. Ops'
    <3>1. ASSUME NEW q \in InDriver
          PROVE  /\ desc'[head'[q]].op = [write |-> write[q], block |-> blockno[cur[q]], buf |-> cur[q]]
                 /\ head'[q] \notin avail' => data[cur[q]] = platter[blockno[cur[q]]]
      <4>1. /\ desc[head[q]].op = [write |-> write[q], block |-> blockno[cur[q]], buf |-> cur[q]]
            /\ head[q] \notin avail => data[cur[q]] = platter[blockno[cur[q]]]
        BY <1>0, ZenonT(60) DEF Ops
      <4>2. head'[q] \notin avail' => head[q] \notin avail
        BY SMTT(30), <2>2, <2>4
      <4> QED BY <4>1, <4>2, <2>4, ZenonT(60)
    <3>2. head'[p] = i
      BY ZenonT(30), <2>2, <1>0 DEF Typed
    <3>3. /\ desc'[head'[p]].op = [write |-> write[p], block |-> blockno[cur[p]], buf |-> cur[p]]
          /\ head'[p] \in avail'
      BY <3>2, <2>2, <2>3, ZenonT(60)
    <3> QED BY <3>1, <3>3, <2>2, ZenonT(60) DEF Ops
  <2>6. Writes'
    <3>1. ASSUME NEW q \in Proc
          PROVE  /\ write[q] <=> pc'[q] \in Holding \ {"have"} /\ valid[cur[q]]
                 /\ pc'[q] = "have" => valid[cur[q]]
      <4>1. CASE q = p
        BY ZenonT(30), <4>1, <2>2, <1>0 DEF Writes, Holding, Shape
      <4>2. CASE q # p
        BY ZenonT(30), <4>2, <2>2, <1>0 DEF Writes, Shape
      <4> QED BY ZenonT(30), <4>1, <4>2
    <3> QED BY <3>1, <2>2, ZenonT(60) DEF Writes
  <2>7. Clean'
    BY ZenonT(30), <2>2, <1>0 DEF Clean
  <2> QED BY ZenonT(30), <2>5, <2>6, <2>7 DEF Contents
<1>2. ASSUME NEW p \in Proc, Finished(p) PROVE Contents'
  <2>1. PICK b \in Buf, h \in Desc : Ended(p, b, h)
    BY ZenonT(30), <1>2, FinishedEffect
  <2>2. /\ pc[p] = "wait" /\ cur[p] = b /\ head[p] = h /\ ~owned[b]
        /\ desc' = [i \in Desc |-> IF i \in Chain(h) THEN NoDesc ELSE desc[i]]
        /\ write' = [write EXCEPT ![p] = FALSE] /\ head' = [head EXCEPT ![p] = 0]
        /\ pc' = [q \in Proc |-> IF q = p THEN "have" ELSE IF q \in OnFree THEN "rw" ELSE pc[q]]
        /\ InDriver' = InDriver \ {p} /\ p \in InDriver
        /\ UNCHANGED <<platter, blockno, data, holder, avail, cur, pins>>
    BY <2>1 DEF Ended
  <2>3. head[p] \notin avail
    BY <2>2, <1>0, ZenonT(60) DEF Rings
  <2>4. data[b] = platter[blockno[b]] /\ (write[p] <=> valid[b]) /\ blockno[b] \in Block
    BY <2>2, <2>3, <1>0, <1>d, ZenonT(60) DEF Ops, Writes, Holding
  <2>5. valid'[b] = TRUE /\ dirty'[b] = FALSE
    <3>1. valid' = [valid EXCEPT ![b] = @ \/ ~write[p]] /\ dirty' = [dirty EXCEPT ![b] = @ /\ ~write[p]]
      BY ZenonT(30), <2>1 DEF Ended
    <3>2. valid'[b] = (valid[b] \/ ~write[p]) /\ dirty'[b] = (dirty[b] /\ ~write[p])
      BY <3>1, <1>0 DEF Typed
    <3>3. dirty[b] => valid[b]
      BY <1>0, ZenonT(60) DEF Clean
    <3> QED BY <3>2, <3>3, <2>4, ZenonT(60)
  <2>6. \A c \in Buf : c # b => valid'[c] = valid[c] /\ dirty'[c] = dirty[c]
    BY <2>1, <1>0 DEF Ended, Typed
  <2>7. ASSUME NEW q \in InDriver, q # p
        PROVE  /\ head'[q] = head[q] /\ write'[q] = write[q]
               /\ desc'[head[q]] = desc[head[q]]
    <3>1. head[q] \in Chain(head[q]) /\ Chain(head[q]) \cap Chain(h) = {}
      BY <2>2, <2>7, <1>0, LinkedChain, ZenonT(60) DEF Chains
    <3> QED BY <3>1, <2>2, <2>7, <1>d, <1>0, ZenonT(60) DEF Typed
  <2>8. Ops'
    <3>1. ASSUME NEW q \in InDriver, q # p
          PROVE  /\ desc'[head'[q]].op = [write |-> write'[q], block |-> blockno[cur[q]], buf |-> cur[q]]
                 /\ head'[q] \notin avail => data[cur[q]] = platter[blockno[cur[q]]]
      <4>1. /\ desc[head[q]].op = [write |-> write[q], block |-> blockno[cur[q]], buf |-> cur[q]]
            /\ head[q] \notin avail => data[cur[q]] = platter[blockno[cur[q]]]
        BY <1>0, Zenon DEF Ops
      <4> QED BY <4>1, <3>1, <2>7, Zenon
    <3> QED BY <3>1, <2>2, ZenonT(60) DEF Ops
  <2>9. Writes'
    <3>1. ASSUME NEW q \in Proc
          PROVE  /\ write'[q] <=> pc'[q] \in Holding \ {"have"} /\ valid'[cur[q]]
                 /\ pc'[q] = "have" => valid'[cur[q]]
      <4>1. CASE q = p
        <5>1. write'[p] = FALSE /\ pc'[p] = "have"
          BY <2>2, <1>0, ZenonT(60) DEF Typed
        <5> QED BY <4>1, <5>1, <2>2, <2>5, ZenonT(60)
      <4>2. CASE q # p
        <5>1. write'[q] = write[q]
          BY <4>2, <2>2, <1>0, ZenonT(60) DEF Typed
        <5>2. /\ pc'[q] \in Holding \ {"have"} <=> pc[q] \in Holding \ {"have"}
              /\ pc'[q] = "have" <=> pc[q] = "have"
          BY <4>2, <2>2, Zenon DEF Holding, OnFree
        <5>3. pc[q] \in Holding => valid'[cur[q]] = valid[cur[q]]
          <6>1. p \in Proc /\ pc[p] \in Holding
            BY ZenonT(30), <2>2, <1>d
          <6>2. pc[q] \in Holding => cur[q] # b /\ cur[q] \in Buf
            BY ZenonT(30), <4>2, <6>1, <2>2, <1>h
          <6> QED BY <6>2, <2>6
        <5>4. /\ write[q] <=> pc[q] \in Holding \ {"have"} /\ valid[cur[q]]
              /\ pc[q] = "have" => valid[cur[q]]
          BY <1>0, ZenonT(60) DEF Writes
        <5>5. "have" \in Holding
          BY DEF Holding
        <5> QED BY ONLY <5>1, <5>2, <5>3, <5>4, <5>5, Zenon
      <4> QED BY <4>1, <4>2
    <3> QED BY <3>1, <2>2, ZenonT(60) DEF Writes
  <2>10. Clean'
    BY <2>2, <2>4, <2>5, <2>6, <1>0, ZenonT(60) DEF Clean
  <2> QED BY ZenonT(30), <2>8, <2>9, <2>10 DEF Contents
<1>3. CASE Device
  <2>1. PICK p \in InDriver, b \in Buf, i \in Desc : Done(p, b, i)
    BY <1>3, DeviceEffect
  <2>2. /\ head[p] = i /\ cur[p] = b /\ avail' = avail \ {i} /\ InDriver' = InDriver
        /\ UNCHANGED <<blockno, valid, holder, desc, head, cur, pc, write, dirty, pins>>
    BY <2>1 DEF Done
  <2>3. \/ write[p] /\ platter' = [platter EXCEPT ![blockno[b]] = data[b]] /\ data' = data
        \/ ~write[p] /\ data' = [data EXCEPT ![b] = platter[blockno[b]]] /\ platter' = platter
    BY <2>1 DEF Done
  <2>4. blockno[b] \in Block /\ (write[p] <=> valid[b])
    BY <2>2, <1>d, <1>0 DEF Writes
  <2>5. data'[b] = platter'[blockno[b]]
    BY SMTT(30), <2>3, <2>4, <1>0 DEF Typed
  <2>6. ASSUME NEW c \in Buf, c # b, blockno[c] \in Block
        PROVE  data'[c] = data[c] /\ platter'[blockno[c]] = platter[blockno[c]]
    <3>1. blockno[c] # blockno[b]
      BY <2>4, <2>6, <1>0 DEF OneCopy
    <3> QED BY ZenonT(60), <3>1, <2>3, <2>4, <2>6, <1>0 DEF Typed
  <2>7. Ops'
    <3>1. ASSUME NEW q \in InDriver
          PROVE  /\ desc[head[q]].op = [write |-> write[q], block |-> blockno[cur[q]], buf |-> cur[q]]
                 /\ head[q] \notin avail' => data'[cur[q]] = platter'[blockno[cur[q]]]
      <4>1. CASE q = p
        BY ZenonT(30), <4>1, <2>2, <2>5, <1>0 DEF Ops
      <4>2. CASE q # p
        <5>1. cur[q] # b /\ head[q] # i
          BY <4>2, <2>2, <1>0, Distinct, ZenonT(60)
        <5>2. head[q] \notin avail' => head[q] \notin avail
          BY ZenonT(30), <5>1, <2>2
        <5>3. data'[cur[q]] = data[cur[q]] /\ platter'[blockno[cur[q]]] = platter[blockno[cur[q]]]
          BY ZenonT(30), <5>1, <2>6, <1>d
        <5> QED BY <5>2, <5>3, <1>0, Zenon DEF Ops
      <4> QED BY ZenonT(30), <4>1, <4>2
    <3> QED BY <3>1, <2>2, Zenon DEF Ops
  <2>8. Writes'
    BY <2>2, <1>0 DEF Writes
  <2>9. Clean'
    BY <2>2, <2>5, <2>6, <1>0, ZenonT(60) DEF Clean
  <2> QED BY <2>7, <2>8, <2>9 DEF Contents
<1> QED BY ZenonT(30), <1>1, <1>2, <1>3

\* Every step keeps what is held.
LEMMA ContentsStep == IInv /\ RInv /\ [Next]_vars => Contents'
<1> SUFFICES ASSUME IInv, RInv, [Next]_vars PROVE Contents'
  BY ZenonT(30)
<1>1. CASE Busy
  BY <1>1, CacheContents, DriverContents DEF Busy
<1>2. CASE Quiet
  BY ZenonT(30), <1>2, QuietContents DEF RInv, IInv
<1> QED BY <1>1, <1>2, QuietSteps

-----------------------------------------------------------------------------
\* What a block is and who has it, by the buffer that it is in.
Seen ==
  \A k \in Block :
    /\ \A b \in Buf : blockno[b] = k =>
         /\ Cached(k) /\ Owner[k] = holder[b]
         /\ Value[k] = IF valid[b] THEN data[b] ELSE platter[k]
    /\ ~Cached(k) => Owner[k] = None /\ Value[k] = platter[k]

\* The blocks of BlockStore are what the buffers have.
LEMMA Mapped == OneCopy => Seen
<1> SUFFICES ASSUME OneCopy, NEW k \in Block
             PROVE  /\ \A b \in Buf : blockno[b] = k =>
                         /\ Cached(k) /\ Owner[k] = holder[b]
                         /\ Value[k] = IF valid[b] THEN data[b] ELSE platter[k]
                    /\ ~Cached(k) => Owner[k] = None /\ Value[k] = platter[k]
  BY DEF Seen
<1>1. ASSUME NEW b \in Buf, blockno[b] = k
      PROVE  Cached(k) /\ Owner[k] = holder[b] /\ Value[k] = IF valid[b] THEN data[b] ELSE platter[k]
  <2>1. \A c \in Buf : blockno[c] = k => c = b
    BY ZenonT(30), <1>1, DiskAssumption DEF OneCopy
  <2>2. (CHOOSE c \in Buf : blockno[c] = k) = b
    BY <1>1, <2>1
  <2>3. Cached(k)
    BY ZenonT(30), <1>1 DEF Cached
  <2>4. (\E c \in Buf : blockno[c] = k /\ valid[c]) <=> valid[b]
    BY ZenonT(30), <1>1, <2>1
  <2> QED BY <2>2, <2>3, <2>4, ZenonT(60) DEF Owner, Value
<1>2. ~Cached(k) => Owner[k] = None /\ Value[k] = platter[k]
  BY DEF Cached, Owner, Value
<1> QED BY ZenonT(30), <1>1, <1>2

\* The same after a step.
LEMMA MappedNext == OneCopy' => Seen'
BY Mapped, PTL

\* A block that is in a buffer.
LEMMA SeenAt ==
  ASSUME Seen, NEW b \in Buf, NEW k \in Block, blockno[b] = k
  PROVE  Owner[k] = holder[b] /\ Value[k] = IF valid[b] THEN data[b] ELSE platter[k]
BY Zenon DEF Seen

\* The same after a step.
LEMMA SeenAtNext ==
  ASSUME Seen', NEW b \in Buf, NEW k \in Block, blockno'[b] = k
  PROVE  Owner'[k] = holder'[b] /\ Value'[k] = IF valid'[b] THEN data'[b] ELSE platter'[k]
BY Zenon DEF Seen

\* Two states in which every block is the same and has the same owner.
LEMMA SameStore ==
  ASSUME \A k \in Block : Value'[k] = Value[k] /\ Owner'[k] = Owner[k]
  PROVE  Value' = Value /\ Owner' = Owner
BY ZenonT(60) DEF Value, Owner

\* When no block moves, each can be looked at in its buffer.
LEMMA InPlace ==
  ASSUME Seen, Seen', UNCHANGED <<blockno, platter>>, NEW D \in SUBSET Buf,
         \A b \in D : blockno[b] \in Block =>
            /\ holder'[b] = holder[b]
            /\ (IF valid'[b] THEN data'[b] ELSE platter[blockno[b]])
                 = (IF valid[b] THEN data[b] ELSE platter[blockno[b]])
  PROVE  \A k \in Block : (\A b \in Buf \ D : blockno[b] # k) =>
            Value'[k] = Value[k] /\ Owner'[k] = Owner[k]
<1> SUFFICES ASSUME NEW k \in Block, \A b \in Buf \ D : blockno[b] # k
             PROVE  Value'[k] = Value[k] /\ Owner'[k] = Owner[k]
  BY ZenonT(30)
<1>1. Cached(k)' <=> Cached(k)
  BY ZenonT(30) DEF Cached
<1>2. CASE ~Cached(k)
  BY ZenonT(30), <1>1, <1>2 DEF Seen
<1>3. CASE Cached(k)
  <2>1. PICK b \in Buf : blockno[b] = k
    BY ZenonT(30), <1>3 DEF Cached
  <2>2. b \in D
    BY ZenonT(30), <2>1
  <2> QED BY ZenonT(30), <2>1, <2>2 DEF Seen
<1> QED BY <1>2, <1>3

\* A step that leaves blocks and locks alone, whatever it does to descriptors and places.
LEMMA StillStore ==
  UNCHANGED <<platter, blockno, valid, data, holder>> => UNCHANGED <<Value, platter, Owner>>
BY SMTT(30) DEF Value, Owner, Cached

\* bget() uses a buffer again: the block that it had is on the disk as it was in the buffer.
LEMMA bgetStore ==
  ASSUME IInv, RInv, IInv', NEW p \in Proc, NEW k \in Block, bget(p, k)
  PROVE  UNCHANGED <<Value, platter, Owner>>
<1>0. Shape /\ Typed /\ Clean /\ Seen /\ Seen' /\ OneCopy
  BY ZenonT(30), Mapped, MappedNext DEF IInv, RInv, Contents
<1>1. UNCHANGED <<platter, data, holder>>
  BY ZenonT(30) DEF bget, devVars
<1>2. CASE UNCHANGED <<blockno, valid>>
  BY <1>1, <1>2, StillStore
<1>3. ASSUME NEW b \in Buf, ~Cached(k), refcnt[b] = 0, blockno' = [blockno EXCEPT ![b] = k],
             valid' = [valid EXCEPT ![b] = FALSE]
      PROVE  UNCHANGED <<Value, platter, Owner>>
  <2>1. holder[b] = None /\ ~dirty[b]
    BY ZenonT(30), <1>3, Having
  <2>2. blockno'[b] = k /\ ~valid'[b]
    BY ZenonT(60), <1>3, <1>0 DEF Shape, Typed
  <2>3. \A c \in Buf : c # b => blockno'[c] = blockno[c] /\ valid'[c] = valid[c]
    BY <1>3, <1>0 DEF Shape, Typed
  <2>4. ASSUME NEW l \in Block PROVE Value'[l] = Value[l] /\ Owner'[l] = Owner[l]
    <3>1. CASE l = k
      <4>1. Value[l] = platter[l] /\ Owner[l] = None
        BY ZenonT(30), <3>1, <1>3, <1>0 DEF Seen
      <4>2. Value'[l] = platter[l] /\ Owner'[l] = None
        BY <3>1, <2>1, <2>2, <1>0, <1>1 DEF Seen
      <4> QED BY <4>1, <4>2
    <3>2. CASE l # k /\ l = blockno[b]
      <4>1. Value[l] = platter[l] /\ Owner[l] = None
        <5>1. Owner[l] = holder[b] /\ Value[l] = IF valid[b] THEN data[b] ELSE platter[l]
          BY <3>2, <1>0, SeenAt, Zenon
        <5>2. valid[b] => data[b] = platter[l]
          BY <3>2, <2>1, <1>0, Zenon DEF Clean
        <5> QED BY <5>1, <5>2, <2>1, Zenon
      <4>2. \A c \in Buf : c # b => blockno[c] # l
        BY ZenonT(30), <3>2, <1>0, DiskAssumption DEF OneCopy
      <4>3. ~Cached(l)'
        BY ZenonT(30), <3>2, <4>2, <2>2, <2>3 DEF Cached
      <4>4. Value'[l] = platter[l] /\ Owner'[l] = None
        BY <4>3, <1>0, <1>1, ZenonT(60) DEF Seen
      <4> QED BY <4>1, <4>4
    <3>3. CASE l # k /\ l # blockno[b] /\ Cached(l)
      <4>1. PICK c \in Buf : blockno[c] = l
        BY ZenonT(30), <3>3 DEF Cached
      <4>2. c # b
        BY ZenonT(30), <3>3, <4>1
      <4>3. Owner[l] = holder[c] /\ Value[l] = IF valid[c] THEN data[c] ELSE platter[l]
        BY <4>1, <1>0, SeenAt, ZenonT(60)
      <4>4. Owner'[l] = holder'[c] /\ Value'[l] = IF valid'[c] THEN data'[c] ELSE platter'[l]
        BY <4>1, <4>2, <2>3, <1>0, SeenAtNext, ZenonT(60)
      <4> QED BY ZenonT(30), <4>2, <4>3, <4>4, <2>3, <1>1
    <3>4. CASE l # k /\ ~Cached(l)
      <4>1. ~Cached(l)'
        BY ZenonT(30), <3>4, <2>2, <2>3 DEF Cached
      <4> QED BY <3>4, <4>1, <1>0, <1>1, ZenonT(60) DEF Seen
    <3> QED BY <3>1, <3>2, <3>3, <3>4, Zenon
  <2> QED BY ZenonT(30), <2>4, <1>1, SameStore
<1> QED BY ZenonT(30), <1>2, <1>3 DEF bget, Recycled

\* acquiresleep() and releasesleep() are Acquire and Release of the block of the buffer.
LEMMA LockStore ==
  ASSUME IInv, RInv, IInv', NEW p \in Proc, acquiresleep(p) \/ releasesleep(p)
  PROVE  [Store!Next]_<<Value, platter, Owner>>
<1>0. Shape /\ Counted /\ Held /\ Seen /\ Seen' /\ OneCopy
  BY ZenonT(30), Mapped, MappedNext DEF IInv, RInv
<1>1. UNCHANGED <<platter, blockno, valid, data>>
  BY ZenonT(30) DEF acquiresleep, releasesleep, devVars, cacheVars, bufVars
<1>2. PICK b \in Buf, k \in Block : b = cur[p] /\ k = blockno[b]
  BY ZenonT(30), <1>0 DEF acquiresleep, releasesleep, At, Shape, Counted
<1>3. CASE UNCHANGED holder
  BY ZenonT(30), <1>1, <1>3, StillStore
<1>4. ASSUME NEW o \in Proc \cup {None}, holder' = [holder EXCEPT ![b] = o]
      PROVE  UNCHANGED <<Value, platter>> /\ Owner[k] = holder[b] /\ Owner' = [Owner EXCEPT ![k] = o]
  <2>1. holder'[b] = o /\ \A c \in Buf : c # b => holder'[c] = holder[c]
    BY ZenonT(30), <1>4, <1>0 DEF Shape
  <2>2. Value' = Value
    BY SMTT(30), <1>1 DEF Value
  <2>3. Owner[k] = holder[b] /\ Owner'[k] = o
    BY ZenonT(30), <1>0, <1>1, <1>2, <2>1 DEF Seen
  <2>4. ASSUME NEW l \in Block, l # k PROVE Owner'[l] = Owner[l]
    <3> DEFINE D == Buf \ {b}
    <3>1. \A c \in D : holder'[c] = holder[c]
      BY ZenonT(30), <2>1
    <3>2. \A c \in Buf \ D : blockno[c] # l
      BY ZenonT(30), <1>2, <2>4
    <3>3. D \in SUBSET Buf
      BY ZenonT(30)
    <3>4. \A c \in D : (IF valid'[c] THEN data'[c] ELSE platter[blockno[c]])
                       = (IF valid[c] THEN data[c] ELSE platter[blockno[c]])
      BY ZenonT(30), <1>1
    <3> HIDE DEF D
    <3> QED BY ZenonT(30), <1>0, <1>1, <3>1, <3>2, <3>3, <3>4, InPlace
  <2>5. DOMAIN Owner = Block /\ Owner = [l \in Block |-> Owner[l]] /\ Owner' = [l \in Block |-> Owner'[l]]
    <3>1. DOMAIN Owner = Block /\ Owner = [l \in Block |-> Owner[l]]
      BY SMTT(30) DEF Owner
    <3>2. Owner' = [l \in Block |-> Owner'[l]]
      BY SMTT(30) DEF Owner
    <3> QED BY ZenonT(30), <3>1, <3>2
  <2> HIDE DEF Owner
  <2>6. Owner' = [Owner EXCEPT ![k] = o]
    BY ZenonT(30), <2>3, <2>4, <2>5
  <2> QED BY ZenonT(30), <1>1, <2>2, <2>3, <2>6
<1>5. CASE holder[b] = None /\ holder' = [holder EXCEPT ![b] = p]
  <2>1. Store!Acquire(p, k)
    BY <1>4, <1>5, ZenonT(60) DEF Store!Acquire
  <2> QED BY <2>1 DEF Store!Next
<1>6. CASE holder[b] = p /\ holder' = [holder EXCEPT ![b] = None]
  <2>1. Store!Release(p, k)
    BY <1>4, <1>6, ZenonT(60) DEF Store!Release
  <2> QED BY <2>1 DEF Store!Next
<1>7. CASE acquiresleep(p)
  BY ZenonT(30), <1>2, <1>3, <1>5, <1>7 DEF acquiresleep
<1>8. CASE releasesleep(p)
  <2>1. holder[b] = p
    BY <1>2, <1>8, <1>0, ZenonT(60) DEF releasesleep, At, Held, Holding
  <2> QED BY <1>2, <1>6, <1>8, <2>1, ZenonT(60) DEF releasesleep
<1> QED BY ZenonT(30), <1>7, <1>8

\* What the blocks hold is a function of the block, before and after a step.
ValueForm == DOMAIN Value = Block /\ Value = [l \in Block |-> Value[l]]

LEMMA ValueFunction == ValueForm
BY DEF ValueForm, Value

LEMMA ValueFunctionNext == ValueForm'
BY ValueFunction, PTL

\* A change of the buffer is a change of its block by its owner.
LEMMA ChangeStore ==
  ASSUME IInv, RInv, IInv', NEW p \in Proc, Change(p)
  PROVE  Store!Next
<1>0. Shape /\ Typed /\ Counted /\ Held /\ Writes /\ Seen /\ Seen' /\ OneCopy
  BY Mapped, MappedNext DEF IInv, RInv, Contents
<1>1. pc[p] = "have" /\ data' = [data EXCEPT ![cur[p]] = 1 - @]
      /\ UNCHANGED <<platter, blockno, valid, holder>>
  BY Zenon DEF Change, At, devVars, cacheVars
<1>2. PICK b \in Buf, k \in Block : b = cur[p] /\ k = blockno[b]
  BY ZenonT(30), <1>0, <1>1 DEF Shape, Counted
<1>3. holder[b] = p /\ valid[b]
  BY ZenonT(30), <1>0, <1>1, <1>2 DEF Held, Holding, Writes
<1>4. Value[k] = data[b] /\ Owner[k] = p /\ Value'[k] = data'[b]
  <2>1. Owner[k] = holder[b] /\ Value[k] = IF valid[b] THEN data[b] ELSE platter[k]
    BY <1>0, <1>2, SeenAt, ZenonT(60)
  <2>2. Value'[k] = IF valid'[b] THEN data'[b] ELSE platter'[k]
    BY <1>0, <1>1, <1>2, SeenAtNext, ZenonT(60)
  <2> QED BY ZenonT(30), <2>1, <2>2, <1>1, <1>3
<1>5. data'[b] = 1 - data[b] /\ \A c \in Buf : c # b => data'[c] = data[c]
  BY <1>0, <1>1, <1>2, ZenonT(60) DEF Typed
<1>6. Owner' = Owner
  BY <1>1, Zenon DEF Owner, Cached
<1>7. ASSUME NEW l \in Block, l # k PROVE Value'[l] = Value[l]
  <2> DEFINE D == Buf \ {b}
  <2>1. \A c \in D : /\ holder'[c] = holder[c]
                    /\ (IF valid'[c] THEN data'[c] ELSE platter[blockno[c]])
                         = (IF valid[c] THEN data[c] ELSE platter[blockno[c]])
    BY ZenonT(30), <1>1, <1>5
  <2>2. D \in SUBSET Buf /\ \A c \in Buf \ D : blockno[c] # l
    BY ZenonT(30), <1>2, <1>7
  <2> HIDE DEF D
  <2>3. UNCHANGED <<blockno, platter>>
    BY ZenonT(30), <1>1
  <2>4. Value'[l] = Value[l] /\ Owner'[l] = Owner[l]
    BY ZenonT(30), <1>0, <2>1, <2>2, <2>3, InPlace
  <2> QED BY ZenonT(30), <2>4
<1>8. DOMAIN Value = Block /\ Value = [l \in Block |-> Value[l]] /\ Value' = [l \in Block |-> Value'[l]]
  BY ZenonT(30), ValueFunction, ValueFunctionNext DEF ValueForm
<1>9. Value' = [Value EXCEPT ![k] = 1 - @]
  BY ZenonT(30), <1>4, <1>5, <1>7, <1>8
<1>10. Store!Change(p, k)
  BY ZenonT(30), <1>1, <1>4, <1>6, <1>9 DEF Store!Change
<1> QED BY ZenonT(30), <1>10 DEF Store!Next

\* The end of a request makes nothing visible that was not there before.
LEMMA FinishedStore ==
  ASSUME IInv, RInv, IInv', NEW p \in Proc, Finished(p)
  PROVE  UNCHANGED <<Value, platter, Owner>>
<1>0. Shape /\ Typed /\ Rings /\ Ops /\ Seen /\ Seen'
  BY ZenonT(30), Mapped, MappedNext DEF IInv, RInv, Contents
<1>1. PICK b \in Buf, h \in Desc : Ended(p, b, h)
  BY FinishedEffect
<1>2. /\ p \in InDriver /\ cur[p] = b /\ head[p] = h /\ ~owned[b]
      /\ valid' = [valid EXCEPT ![b] = @ \/ ~write[p]]
      /\ UNCHANGED <<platter, blockno, data, holder>>
  BY <1>1 DEF Ended
<1>3. data[b] = platter[blockno[b]]
  BY <1>0, <1>2, ZenonT(60) DEF Rings, Ops
<1>4. \A c \in Buf : c # b => valid'[c] = valid[c]
  BY <1>0, <1>2 DEF Typed
<1>5. \A c \in Buf : /\ holder'[c] = holder[c]
                    /\ (IF valid'[c] THEN data'[c] ELSE platter[blockno[c]])
                         = (IF valid[c] THEN data[c] ELSE platter[blockno[c]])
  BY <1>2, <1>3, <1>4, ZenonT(60)
<1>6. \A k \in Block : Value'[k] = Value[k] /\ Owner'[k] = Owner[k]
  BY <1>0, <1>2, <1>5, InPlace, ZenonT(60)
<1> QED BY ZenonT(30), <1>2, <1>6, SameStore

\* What the device writes is what the owner of the block has; what it reads nobody sees yet.
LEMMA DeviceStore ==
  ASSUME IInv, RInv, IInv', Device
  PROVE  [Store!Next]_<<Value, platter, Owner>>
<1>0. Shape /\ Typed /\ Writes /\ Seen /\ Seen' /\ OneCopy
  BY ZenonT(30), Mapped, MappedNext DEF IInv, RInv, Contents
<1>1. PICK p \in InDriver, b \in Buf, i \in Desc : Done(p, b, i)
  BY ZenonT(30), DeviceEffect
<1>2. /\ cur[p] = b /\ UNCHANGED <<blockno, valid, holder>>
      /\ \/ write[p] /\ platter' = [platter EXCEPT ![blockno[b]] = data[b]] /\ data' = data
         \/ ~write[p] /\ data' = [data EXCEPT ![b] = platter[blockno[b]]] /\ platter' = platter
  BY ZenonT(30), <1>1 DEF Done
<1>3. p \in Proc /\ pc[p] \in Holding /\ pc[p] # "have"
  BY DEF InDriver, Holding
<1>4. PICK k \in Block : k = blockno[b]
  BY <1>2, <1>3, Having, ZenonT(60)
<1>5. holder[b] = p /\ (write[p] <=> valid[b])
  BY <1>0, <1>2, <1>3, Having, ZenonT(60) DEF Writes
<1>6. Owner' = Owner
  BY <1>2 DEF Owner, Cached
<1>7. CASE write[p]
  <2>1. platter' = [platter EXCEPT ![k] = data[b]] /\ data' = data /\ valid[b]
    BY ZenonT(30), <1>2, <1>4, <1>5, <1>7
  <2>2. Value[k] = data[b] /\ Owner[k] = p /\ Value'[k] = data[b]
    <3>1. Owner[k] = holder[b] /\ Value[k] = IF valid[b] THEN data[b] ELSE platter[k]
      BY <1>0, <1>4, SeenAt, ZenonT(60)
    <3>2. Value'[k] = IF valid'[b] THEN data'[b] ELSE platter'[k]
      BY <1>0, <1>2, <1>4, SeenAtNext, ZenonT(60)
    <3> QED BY ZenonT(30), <3>1, <3>2, <1>2, <1>5, <2>1
  <2>3. ASSUME NEW l \in Block, l # k PROVE Value'[l] = Value[l]
    <3>1. platter'[l] = platter[l]
      BY ZenonT(30), <2>1, <2>3, <1>0 DEF Typed
    <3>2. Cached(l)' <=> Cached(l)
      BY ZenonT(30), <1>2 DEF Cached
    <3>3. CASE ~Cached(l)
      BY ZenonT(30), <3>1, <3>2, <3>3, <1>0 DEF Seen
    <3>4. CASE Cached(l)
      <4>1. PICK c \in Buf : blockno[c] = l
        BY ZenonT(30), <3>4 DEF Cached
      <4>2. Value[l] = IF valid[c] THEN data[c] ELSE platter[l]
        BY <4>1, <1>0, SeenAt, ZenonT(60)
      <4>3. Value'[l] = IF valid'[c] THEN data'[c] ELSE platter'[l]
        BY <4>1, <1>0, <1>2, SeenAtNext, ZenonT(60)
      <4> QED BY SMTT(30), <4>2, <4>3, <3>1, <2>1, <1>2
    <3> QED BY ZenonT(30), <3>3, <3>4
  <2>4. Value' = Value
    <3>1. \A l \in Block : Value'[l] = Value[l] /\ Owner'[l] = Owner[l]
      BY ZenonT(30), <1>6, <2>2, <2>3
    <3> QED BY <3>1, SameStore
  <2>5. Store!WriteBack(p, k)
    BY ZenonT(30), <1>6, <2>1, <2>2, <2>4 DEF Store!WriteBack
  <2> QED BY ZenonT(30), <1>3, <2>5 DEF Store!Next
<1>8. CASE ~write[p]
  <2>1. data' = [data EXCEPT ![b] = platter[k]] /\ platter' = platter /\ ~valid[b]
    BY ZenonT(30), <1>2, <1>4, <1>5, <1>8
  <2>2. \A c \in Buf : c # b => data'[c] = data[c]
    BY ZenonT(30), <2>1, <1>0 DEF Typed
  <2>3. \A c \in Buf : /\ holder'[c] = holder[c]
                      /\ (IF valid'[c] THEN data'[c] ELSE platter[blockno[c]])
                           = (IF valid[c] THEN data[c] ELSE platter[blockno[c]])
    BY <1>2, <2>1, <2>2
  <2>4. \A l \in Block : Value'[l] = Value[l] /\ Owner'[l] = Owner[l]
    BY <1>0, <1>2, <2>1, <2>3, InPlace, ZenonT(60)
  <2> QED BY ZenonT(30), <2>1, <2>4, SameStore
<1> QED BY ZenonT(30), <1>7, <1>8

\* Every step of the cache, the driver or the device is a step of BlockStore or none.
LEMMA StepRefines ==
  IInv /\ RInv /\ IInv' /\ [Next]_vars => [Store!Next]_<<Value, platter, Owner>>
<1> SUFFICES ASSUME IInv, RInv, IInv', [Next]_vars PROVE [Store!Next]_<<Value, platter, Owner>>
  OBVIOUS
<1>1. CASE Quiet
  BY <1>1, StillStore, ZenonT(60) DEF Quiet
<1>2. ASSUME NEW p \in Proc, bwrite(p) \/ bpin(p) \/ bunpin(p) \/ brelse(p) \/ Submit(p)
      PROVE  UNCHANGED <<Value, platter, Owner>>
  BY <1>2, StillStore, ZenonT(60) DEF bwrite, bpin, bunpin, brelse, Submit, devVars, cacheVars, bufVars
<1>3. CASE Busy
  BY ZenonT(30), <1>2, <1>3, bgetStore, LockStore, ChangeStore, FinishedStore, DeviceStore DEF Busy
<1> QED BY ZenonT(30), <1>1, <1>3, QuietSteps
=============================================================================
