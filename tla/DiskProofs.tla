----------------------------- MODULE DiskProofs -----------------------------
(***************************************************************************)
(* Theorems about Disk, for any number of processes, blocks, buffers and   *)
(* descriptors: the cache has one copy of a block, no process sleeps       *)
(* without a wakeup to come, descriptors are neither lost nor freed twice, *)
(* and the cache with the driver implements BlockStore.                    *)
(***************************************************************************)
EXTENDS DiskSteps, FiniteSetTheorems

\* free_chain() frees finitely many descriptors.
LEMMA ChainFinite == ASSUME NEW i PROVE IsFiniteSet(Chain(i))
<1> DEFINE j == desc[i].next
           k == desc[j].next
<1>1. IsFiniteSet({i}) /\ IsFiniteSet({j}) /\ IsFiniteSet({k})
  BY FS_Singleton, ZenonT(60)
<1>2. IsFiniteSet({i} \cup {j})
  BY <1>1, FS_Union, ZenonT(60)
<1>3. IsFiniteSet(({i} \cup {j}) \cup {k})
  BY <1>1, <1>2, FS_Union, ZenonT(60)
<1>4. {i, j} = {i} \cup {j} /\ {i, j, k} = ({i} \cup {j}) \cup {k}
  OBVIOUS
<1>5. Chain(i) \in {{i}, {i, j}, {i, j, k}}
  BY DEF Chain
<1> QED BY ZenonT(30), <1>1, <1>2, <1>3, <1>4, <1>5

-----------------------------------------------------------------------------
\* The states after virtio_disk_init() and binit() satisfy the invariant.
LEMMA InitIInv == Init => IInv
<1> SUFFICES ASSUME Init PROVE IInv
  OBVIOUS
<1>1. NBUF \in Nat \ {0}
  BY ZenonT(30), DiskAssumption
<1>2. Shape
  BY DEF Init, binit, Shape
<1>3. Listed
  <2>1. lru \in [Buf -> Buf]
    BY SMTT(30), <1>1 DEF Init, binit, Buf
  <2>2. ASSUME NEW b \in Buf PROVE \E i \in Buf : lru[i] = b
    <3>1. NBUF + 1 - b \in Buf /\ NBUF + 1 - (NBUF + 1 - b) = b
      BY SMTT(30), <1>1 DEF Buf
    <3> QED BY ZenonT(30), <3>1 DEF Init, binit
  <2> QED BY ZenonT(30), <2>1, <2>2 DEF Listed
<1>4. OneCopy
  BY SMTT(30), <1>1 DEF Init, binit, OneCopy, Buf
<1>5. IsFiniteSet(free)
  <2>1. num \in Nat /\ free = 0 .. num - 1
    BY ZenonT(30), DiskAssumption DEF Init, virtio_disk_init
  <2>2. IsFiniteSet(0 .. num - 1)
    BY SMTT(30), <2>1, FS_Interval
  <2> QED BY ZenonT(30), <2>1, <2>2
<1>6. NoLostWakeup
  BY ZenonT(30) DEF Init, NoLostWakeup
<1> QED BY ZenonT(30), <1>2, <1>3, <1>4, <1>5, <1>6 DEF IInv

\* The steps of a process that waits for a lock or is in the driver.
LEMMA DriverIInv ==
  ASSUME IInv, NEW p \in Proc, Driver(p)
  PROVE  IInv'
<1> USE DEF IInv
<1>0. Cardinality(free) \in Nat
  BY ZenonT(30), FS_CardinalityType
<1>1. CASE acquiresleep(p)
  <2>1. /\ pc[p] = "lock" /\ UNCHANGED <<lru, blockno, owned, free, cur>>
        /\ \/ /\ holder[cur[p]] # None /\ UNCHANGED holder
              /\ pc' = [pc EXCEPT ![p] = "lock_sleep"]
           \/ /\ holder' = [holder EXCEPT ![cur[p]] = p]
              /\ \/ pc' = [pc EXCEPT ![p] = "have"]
                 \/ pc' = [pc EXCEPT ![p] = "rw"]
    BY ZenonT(30), <1>1 DEF acquiresleep, At, Goto, cacheVars, bufVars, ringVars, procVars
  <2>2. Shape'
    BY SMTT(30), <2>1 DEF Shape
  <2>3. NoLostWakeup'
    BY SMTT(30), <2>1, DiskAssumption DEF NoLostWakeup, Shape
  <2> QED BY ZenonT(30), <2>1, <2>2, <2>3, CacheKept
<1>2. CASE AllocFails(p)
  <2>1. PICK W \in SUBSET OnFree :
          pc' = [q \in Proc |-> IF q = p THEN "rw_sleep" ELSE IF q \in W THEN "rw" ELSE pc[q]]
    <3>1. CASE free = {}
      BY ZenonT(30), <1>2, <3>1 DEF AllocFails, wakeup
    <3>2. CASE free # {}
      BY <1>2, <3>2, ZenonT(60) DEF AllocFails, wakeup, OnFree, Awake
    <3> QED BY ZenonT(30), <3>1, <3>2
  <2>2. pc[p] = "rw" /\ Cardinality(free) < 3
        /\ UNCHANGED <<lru, blockno, owned, holder, free, cur>>
    BY SMTT(30), <1>2, <1>0 DEF AllocFails, At, Three, cacheVars, bufVars, ringVars, procVars
  <2>3. Shape'
    BY ZenonT(30), <2>1, <2>2 DEF Shape, OnFree
  <2>4. NoLostWakeup'
    BY ZenonT(30), <2>1, <2>2 DEF NoLostWakeup, Shape, OnFree
  <2> QED BY ZenonT(30), <2>2, <2>3, <2>4, CacheKept
<1>3. CASE Submit(p)
  <2>1. /\ pc[p] = "rw" /\ pc' = [pc EXCEPT ![p] = "wait_sleep"]
        /\ owned' = [owned EXCEPT ![cur[p]] = TRUE]
        /\ UNCHANGED <<lru, blockno, holder, cur>>
    BY ZenonT(30), <1>3 DEF Submit, At, Goto, cacheVars
  <2>2. free' \subseteq free
    BY ZenonT(30), <1>3 DEF Submit
  <2>3. IsFiniteSet(free')
    BY ZenonT(30), <2>2, FS_Subset
  <2>4. \A q \in Proc : pc[q] # "rw_sleep"
    <3>1. Three
      BY ZenonT(30), <1>3 DEF Submit
    <3>2. ~(Cardinality(free) < 3)
      BY ONLY SMTT(30), <3>1, <1>0 DEF Three
    <3>3. \A q \in Proc : pc[q] = "rw_sleep" => Cardinality(free) < 3
      BY ZenonT(30) DEF NoLostWakeup
    <3> QED BY ONLY ZenonT(30), <3>2, <3>3
  <2>5. Shape'
    BY ZenonT(30), <2>1 DEF Shape
  <2>6. NoLostWakeup'
    BY ZenonT(30), <2>1, <2>4 DEF NoLostWakeup, Shape
  <2> QED BY ZenonT(30), <2>1, <2>3, <2>5, <2>6, CacheKept
<1>4. CASE NotYet(p)
  <2>1. /\ pc[p] = "wait" /\ owned[cur[p]] /\ pc' = [pc EXCEPT ![p] = "wait_sleep"]
        /\ UNCHANGED <<lru, blockno, owned, holder, free, cur>>
    BY ZenonT(30), <1>4 DEF NotYet, At, Goto, cacheVars, bufVars, ringVars, procVars
  <2>2. Shape' /\ NoLostWakeup'
    BY ZenonT(30), <2>1 DEF Shape, NoLostWakeup
  <2> QED BY ZenonT(30), <2>1, <2>2, CacheKept
<1>5. CASE Finished(p)
  <2>1. CASE Chain(head[p]) \cap free # {}
    BY ZenonT(30), <1>5, <2>1, StutterIInv DEF Finished, panic, cacheVars, bufVars, ringVars, procVars
  <2>2. CASE Chain(head[p]) \cap free = {}
    <3>1. /\ pc[p] = "wait" /\ free' = free \cup Chain(head[p])
          /\ pc' = [q \in Proc |-> IF q = p THEN "have" ELSE IF q \in OnFree THEN "rw" ELSE pc[q]]
          /\ UNCHANGED <<lru, blockno, owned, holder, cur>>
      BY <1>5, <2>2, ZenonT(60) DEF Finished, At, free_desc, wakeup, OnFree, Awake, cacheVars
    <3>2. IsFiniteSet(free')
      BY <3>1, ChainFinite, FS_Union, ZenonT(60)
    <3>3. Shape'
      BY ZenonT(30), <3>1 DEF Shape, OnFree
    <3>4. NoLostWakeup'
      BY ZenonT(30), <3>1 DEF NoLostWakeup, Shape, OnFree
    <3> QED BY ZenonT(30), <3>1, <3>2, <3>3, <3>4, CacheKept
  <2> QED BY ZenonT(30), <2>1, <2>2
<1> QED BY ZenonT(30), <1>1, <1>2, <1>3, <1>4, <1>5 DEF Driver

\* Every step keeps the invariant: besides the two above, a kill wakes its victim up,
\* and the handler wakes up whoever sleeps on the buffer that it gives back.
LEMMA NextIInv == IInv /\ [Next]_vars => IInv'
<1> SUFFICES ASSUME IInv, [Next]_vars PROVE IInv'
  OBVIOUS
<1>1. ASSUME NEW p \in Proc, Driver(p) PROVE IInv'
  BY ZenonT(30), <1>1, DriverIInv
<1>2. ASSUME NEW p \in Proc, Caller(p) PROVE IInv'
  BY ZenonT(30), <1>2, CallerIInv
<1>3. ASSUME NEW p \in Proc, Kill(p) PROVE IInv'
  <2>1. /\ pc[p] \in {"lock_sleep", "rw_sleep", "wait_sleep"}
        /\ \E w \in {"lock", "rw", "wait"} : pc' = [pc EXCEPT ![p] = w]
        /\ UNCHANGED <<lru, blockno, owned, holder, free, cur>>
    BY <1>3, ZenonT(60) DEF Kill, Goto, Awake, cacheVars, bufVars, ringVars, procVars
  <2>2. Shape' /\ NoLostWakeup'
    BY SMTT(30), <2>1 DEF IInv, Shape, NoLostWakeup
  <2> QED BY ZenonT(30), <2>1, <2>2, CacheKept DEF IInv
<1>4. CASE IntrStart
  BY ZenonT(30), <1>4, StutterIInv DEF IntrStart, cacheVars, bufVars, ringVars, procVars
<1>5. CASE IntrEntry
  <2> DEFINE b == info[Head(used)].buf
  <2>1. CASE info[Head(used)].status # 0
    BY ZenonT(30), <1>5, <2>1, StutterIInv DEF IntrEntry, panic, cacheVars, bufVars, ringVars, procVars
  <2>2. CASE info[Head(used)].status = 0
    <3>1. /\ owned' = [owned EXCEPT ![b] = FALSE]
          /\ pc' = [q \in Proc |-> IF q \in OnBuf(b) THEN "wait" ELSE pc[q]]
          /\ UNCHANGED <<lru, blockno, holder, free, cur>>
      BY ZenonT(30), <1>5, <2>2 DEF IntrEntry, cacheVars, procVars
    <3> HIDE DEF b
    <3>2. Shape'
      BY <3>1, ZenonT(60) DEF IInv, Shape, OnBuf
    <3>3. NoLostWakeup'
      BY ZenonT(30), <3>1 DEF IInv, NoLostWakeup, Shape, OnBuf
    <3> QED BY ZenonT(30), <3>1, <3>2, <3>3, CacheKept DEF IInv
  <2> QED BY ZenonT(30), <2>1, <2>2
<1>6. CASE IntrEnd
  BY ZenonT(30), <1>6, StutterIInv DEF IntrEnd, cacheVars, bufVars, ringVars, procVars
<1>7. ASSUME NEW i \in Desc, DevDone(i) PROVE IInv'
  BY ZenonT(30), <1>7, StutterIInv DEF DevDone, cacheVars, procVars
<1>8. CASE UNCHANGED vars
  BY ZenonT(30), <1>8, StutterIInv DEF vars, cacheVars, bufVars, ringVars, procVars
<1> QED BY ZenonT(30), <1>1, <1>2, <1>3, <1>4, <1>5, <1>6, <1>7, <1>8 DEF Next, Intr, Device, Panicked

\* The invariant holds in every state.
LEMMA Invariance == Spec => []IInv
<1>1. Init => IInv
  BY ZenonT(30), InitIInv
<1>2. IInv /\ [Next]_vars => IInv'
  BY ZenonT(30), NextIInv
<1> QED BY <1>1, <1>2, PTL DEF Spec

\* However bget() recycles buffers and brelse() orders them, whatever the processes do
\* in between, a block is never in two buffers, and no buffer falls out of the list.
THEOREM CopiesUnique == Spec => []OneCopy
<1>1. IInv => OneCopy
  BY DEF IInv
<1> QED BY <1>1, Invariance, PTL

\* Whoever sleeps in acquiresleep(), for descriptors or for the end of a request sleeps
\* because of something that is still so: no wakeup() of releasesleep(), free_desc() or
\* virtio_disk_intr() comes too early, and kills do no harm.
THEOREM SleepersWoken == Spec => []NoLostWakeup
<1>1. IInv => NoLostWakeup
  BY ZenonT(30) DEF IInv
<1> QED BY <1>1, Invariance, PTL

-----------------------------------------------------------------------------
\* alloc_desc() finds the first free descriptor.
LEMMA MinOf ==
  ASSUME NEW S \in SUBSET Nat, S # {}
  PROVE  Min(S) \in S
<1> DEFINE R == OpToRel(<, Nat)
<1>1. IsWellFoundedOn(R, Nat)
  BY NatLessThanWellFounded, ZenonT(60)
<1>2. \A x, y \in Nat : y < x => <<y, x>> \in R
  BY DEF OpToRel
<1> HIDE DEF R
<1>3. PICK x \in S : \A y \in S : ~(<<y, x>> \in R)
  BY <1>1, WFMin, ZenonT(60)
<1>4. ASSUME NEW y \in S PROVE x <= y
  <2>1. ~(y < x)
    BY <1>2, <1>3, ZenonT(60)
  <2> QED BY SMTT(30), <2>1
<1> QED BY <1>4, ZenonT(60) DEF Min

\* A finite set of numbers of descriptors has a largest one: of the nonempty subsets
\* that have none, take one with the fewest elements, and take an element out of it.
LEMMA LargestNum == \E m \in Nat : NUMS # {} => m \in NUMS /\ \A n \in NUMS : n <= m
<1> DEFINE Largest(A, m) == m \in A /\ \A n \in A : n <= m
           Bad == {A \in SUBSET NUMS : A # {} /\ ~\E m \in A : Largest(A, m)}
           Sizes == {Cardinality(A) : A \in Bad}
<1>0. NUMS \subseteq Nat /\ IsFiniteSet(NUMS)
  BY ZenonT(30), DiskAssumption
<1>1. \A A \in Bad : IsFiniteSet(A) /\ Cardinality(A) \in Nat
  BY <1>0, FS_Subset, FS_CardinalityType, ZenonT(60)
<1>2. Bad = {}
  <2> SUFFICES ASSUME Bad # {} PROVE FALSE
    OBVIOUS
  <2> DEFINE R == OpToRel(<, Nat)
  <2>1. IsWellFoundedOn(R, Nat)
    BY NatLessThanWellFounded, ZenonT(60)
  <2>2. \A x, y \in Nat : y < x => <<y, x>> \in R
    BY ZenonT(30) DEF OpToRel
  <2> HIDE DEF R
  <2>3. Sizes \subseteq Nat /\ Sizes # {}
    BY ZenonT(30), <1>1
  <2>4. PICK s \in Sizes : \A t \in Sizes : ~(<<t, s>> \in R)
    BY <2>1, <2>3, WFMin, ZenonT(60)
  <2>5. PICK A \in Bad : s = Cardinality(A)
    BY ZenonT(30), <2>4
  <2>6. PICK x \in A : TRUE
    BY ZenonT(30)
  <2> DEFINE B == A \ {x}
  <2>7. IsFiniteSet(B) /\ Cardinality(B) = Cardinality(A) - 1
    BY ZenonT(30), <1>1, <2>5, <2>6, FS_RemoveElement
  <2>8. Cardinality(B) < s /\ Cardinality(B) \in Nat
    BY SMTT(30), <2>5, <2>7, <1>1, FS_CardinalityType
  <2>9. B \notin Bad
    <3> SUFFICES ASSUME B \in Bad PROVE FALSE
      BY ZenonT(30)
    <3>1. Cardinality(B) \in Sizes
      BY ZenonT(60)
    <3> QED BY <3>1, <2>2, <2>3, <2>4, <2>8, ZenonT(60)
  <2>10. x \in Nat /\ B \subseteq NUMS /\ B \subseteq Nat
    BY ZenonT(30), <1>0
  <2>11. CASE B = {}
    <3>1. Largest(A, x)
      BY SMTT(30), <2>10, <2>11
    <3> QED BY ZenonT(30), <3>1, <2>5, <2>6
  <2>12. CASE B # {}
    <3>1. PICK m \in B : Largest(B, m)
      BY ZenonT(30), <2>9, <2>10, <2>12
    <3>2. CASE x <= m
      BY ZenonT(30), <3>1, <3>2, <2>10, <2>5
    <3>3. CASE m <= x
      <4>1. \A n \in B : n <= x
        BY SMTT(30), <3>1, <3>3, <2>10
      <4>2. Largest(A, x)
        BY SMTT(30), <4>1, <2>10
      <4> QED BY ZenonT(30), <4>2, <2>5, <2>6
    <3> QED BY SMTT(30), <3>2, <3>3, <2>10
  <2> QED BY ZenonT(30), <2>11, <2>12
<1> QED BY ZenonT(30), <1>2, <1>0

\* The descriptors that there are in any configuration are numbers of Desc.
LEMMA DescBound ==
  ASSUME num \in NUMS
  PROVE  num \in Nat /\ num >= 3 /\ 0 .. num - 1 \subseteq Desc /\ Desc \subseteq Nat
         /\ IsFiniteSet(Desc) /\ 0 \in Desc
<1>1. NUMS \subseteq Nat \ {0, 1, 2}
  BY ZenonT(30), DiskAssumption
<1>2. \E m \in NUMS : \A n \in NUMS : m >= n
  BY ZenonT(30), LargestNum, <1>1
<1> DEFINE mx == Max(NUMS)
<1>3. mx \in NUMS /\ mx >= num
  BY ZenonT(30), <1>2 DEF Max
<1>4. Desc = 0 .. mx - 1
  BY ZenonT(30) DEF Desc
<1> HIDE DEF mx
<1>5. mx \in Nat /\ num \in Nat /\ num >= 3 /\ mx - 1 \in Nat
  BY SMTT(30), <1>1, <1>3
<1>6. IsFiniteSet(Desc)
  BY SMTT(30), <1>4, <1>5, FS_Interval
<1> QED BY SMTT(30), <1>3, <1>4, <1>5, <1>6

\* alloc3_desc() takes three different descriptors that are free.
LEMMA ThreeTaken ==
  ASSUME free \subseteq Nat, IsFiniteSet(free), Three
  PROVE  TakesThree
<1> DEFINE i == alloc_desc(free)
           j == alloc_desc(free \ {i})
           k == alloc_desc(free \ {i, j})
<1>0. Cardinality(free) \in Nat /\ Cardinality(free) >= 3
  BY ZenonT(30), FS_CardinalityType DEF Three
<1>1. i \in free
  <2>1. free # {}
    BY SMTT(30), <1>0, FS_EmptySet
  <2> QED BY ZenonT(30), <2>1, MinOf DEF alloc_desc
<1> HIDE DEF i
<1>2. IsFiniteSet(free \ {i}) /\ Cardinality(free \ {i}) = Cardinality(free) - 1
  BY ZenonT(30), <1>1, FS_RemoveElement
<1>3. j \in free \ {i}
  <2>1. free \ {i} # {}
    BY SMTT(30), <1>0, <1>2, FS_EmptySet
  <2> QED BY ZenonT(30), <2>1, MinOf DEF alloc_desc
<1> HIDE DEF j
<1>4. IsFiniteSet((free \ {i}) \ {j}) /\ Cardinality((free \ {i}) \ {j}) = Cardinality(free) - 2
  <2>1. /\ IsFiniteSet((free \ {i}) \ {j})
        /\ Cardinality((free \ {i}) \ {j}) = Cardinality(free \ {i}) - 1
    BY ZenonT(30), <1>2, <1>3, FS_RemoveElement
  <2> QED BY SMTT(30), <2>1, <1>0, <1>2
<1>5. (free \ {i}) \ {j} = free \ {i, j}
  BY ZenonT(30)
<1>6. k \in free \ {i, j}
  <2>1. free \ {i, j} # {}
    BY SMTT(30), <1>0, <1>4, <1>5, FS_EmptySet
  <2> QED BY ZenonT(30), <2>1, MinOf DEF alloc_desc
<1> HIDE DEF k
<1>7. Cardinality((free \ {i, j}) \ {k}) = Cardinality(free) - 3
  <2>1. Cardinality((free \ {i, j}) \ {k}) = Cardinality(free \ {i, j}) - 1
    BY ZenonT(30), <1>4, <1>5, <1>6, FS_RemoveElement
  <2> QED BY SMTT(30), <2>1, <1>0, <1>4, <1>5
<1>8. (free \ {i, j}) \ {k} = free \ {i, j, k}
  BY ZenonT(30)
<1>9. i \in free /\ j \in free /\ k \in free /\ i # j /\ j # k /\ i # k
      /\ Cardinality(free \ {i, j, k}) = Cardinality(free) - 3
  BY ZenonT(30), <1>1, <1>3, <1>6, <1>7, <1>8
<1> QED BY ZenonT(30), <1>9 DEF i, j, k, TakesThree

\* They are three.
LEMMA ThreeInChain ==
  ASSUME NEW i, Linked(i)
  PROVE  IsFiniteSet(Chain(i)) /\ Cardinality(Chain(i)) = 3
<1> DEFINE j == desc[i].next
           k == desc[j].next
<1>1. Chain(i) = {i, j, k} /\ i # j /\ j # k /\ i # k
  BY ZenonT(30), LinkedChain DEF Linked
<1> HIDE DEF j, k
<1>2. IsFiniteSet({i}) /\ Cardinality({i}) = 1
  BY ZenonT(30), FS_Singleton
<1>3. IsFiniteSet({i} \cup {j}) /\ Cardinality({i} \cup {j}) = 2
  BY SMTT(30), <1>1, <1>2, FS_AddElement
<1>4. IsFiniteSet(({i} \cup {j}) \cup {k}) /\ Cardinality(({i} \cup {j}) \cup {k}) = 3
  BY SMTT(30), <1>1, <1>3, FS_AddElement
<1>5. ({i} \cup {j}) \cup {k} = {i, j, k}
  BY ZenonT(30)
<1> QED BY ZenonT(30), <1>1, <1>4, <1>5

\* The users of a buffer are finitely many, and a buffer without references has none.
LEMMA UsersFinite ==
  ASSUME NEW b \in Buf, Counted
  PROVE  /\ IsFiniteSet(Users(b)) /\ Cardinality(Users(b)) \in Nat
         /\ refcnt[b] = 0 => pins[b] = 0 /\ Users(b) = {}
<1>1. IsFiniteSet(Users(b))
  <2>1. IsFiniteSet(Proc) /\ Users(b) \subseteq Proc
    BY ZenonT(30), DiskAssumption DEF Users
  <2> QED BY ZenonT(30), <2>1, FS_Subset
<1>2. Cardinality(Users(b)) \in Nat
  BY ZenonT(30), <1>1, FS_CardinalityType
<1>3. refcnt[b] = Cardinality(Users(b)) + pins[b] /\ pins[b] \in Nat
  BY ZenonT(30) DEF Counted
<1>4. refcnt[b] = 0 => pins[b] = 0 /\ Cardinality(Users(b)) = 0
  BY SMTT(30), <1>2, <1>3
<1> QED BY ZenonT(30), <1>1, <1>2, <1>4, FS_EmptySet

\* What Sized says follows from the rest of the invariant.
LEMMA SizesKnown == IInv /\ Typed /\ Counted => Sized
<1> SUFFICES ASSUME IInv, Typed, Counted PROVE Sized
  BY ZenonT(30)
<1>1. num \in Nat /\ num >= 3 /\ Desc \subseteq Nat /\ 0 \in Desc
  BY ZenonT(30), DescBound DEF Typed
<1>2. Three => TakesThree
  <2>1. free \subseteq Nat /\ IsFiniteSet(free)
    BY ZenonT(30), <1>1 DEF Typed, IInv
  <2> QED BY ZenonT(30), <2>1, ThreeTaken
<1>3. \A b \in Buf : refcnt[b] = 0 => pins[b] = 0 /\ Users(b) = {}
  BY ZenonT(30), UsersFinite
<1> QED BY ZenonT(30), <1>1, <1>2, <1>3 DEF Sized

-----------------------------------------------------------------------------
\* The states after virtio_disk_init() and binit() satisfy the invariant.
LEMMA InitRInv == Init => RInv
<1> SUFFICES ASSUME Init PROVE RInv
  BY ZenonT(30)
<1>0. InDriver = {}
  BY ZenonT(30) DEF Init, InDriver
<1>1. num \in NUMS /\ num \in Nat /\ num >= 3 /\ 0 .. num - 1 \subseteq Desc /\ 0 \in Desc
  BY ZenonT(30), DescBound DEF Init, virtio_disk_init
<1>2. Typed
  <2>1. free \subseteq Desc
    BY ZenonT(30), <1>1 DEF Init, virtio_disk_init
  <2>2. NoDesc \in [more : BOOLEAN, next : Desc, op : Op] /\ NoInfo \in [buf : Buf \cup {0}, status : {0, 255}]
    BY ZenonT(30), <1>1 DEF NoDesc, NoOp, NoInfo, Op
  <2>3. /\ desc \in [Desc -> [more : BOOLEAN, next : Desc, op : Op]]
        /\ info \in [Desc -> [buf : Buf \cup {0}, status : {0, 255}]]
    BY ZenonT(30), <2>2 DEF Init, virtio_disk_init
  <2>4. irq \in BOOLEAN /\ handling \in BOOLEAN
    BY ZenonT(60) DEF Init, virtio_disk_init
  <2>8. used \in Seq(Desc) /\ avail \subseteq Desc
    BY SMTT(30) DEF Init, virtio_disk_init
  <2>5. platter \in [Block -> Data] /\ data \in [Buf -> Data]
    BY ZenonT(30) DEF Init, binit, Data
  <2>6. valid \in [Buf -> BOOLEAN] /\ dirty \in [Buf -> BOOLEAN] /\ write \in [Proc -> BOOLEAN]
    BY DEF Init, binit
  <2>7. head \in [Proc -> Desc]
    BY ZenonT(30), <1>1 DEF Init
  <2> QED BY ZenonT(30), <1>1, <2>1, <2>3, <2>4, <2>5, <2>6, <2>7, <2>8 DEF Typed
<1>3. Held
  BY ZenonT(30), DiskAssumption DEF Init, binit, Held, Holding
<1>4. Counted
  <2>1. \A b \in Buf : Users(b) = {}
    BY SMTT(30), DiskAssumption DEF Init, Users, Buf
  <2>2. \A b \in Buf : Cardinality(Users(b)) = 0
    BY ZenonT(30), <2>1, FS_EmptySet
  <2>3. \A p \in Proc : cur[p] \notin Buf
    BY SMTT(30), DiskAssumption DEF Init, Buf
  <2> QED BY SMTT(30), <2>2, <2>3 DEF Init, binit, Counted
<1>5. Chains
  <2>1. Cardinality(free) = num
    <3>1. free = 0 .. num - 1
      BY ZenonT(30) DEF Init, virtio_disk_init
    <3>2. Cardinality(0 .. num - 1) = num
      BY SMTT(30), <1>1, FS_Interval
    <3> QED BY ZenonT(30), <3>1, <3>2
  <2>2. Cardinality(InDriver) = 0
    BY ZenonT(30), <1>0, FS_EmptySet
  <2> QED BY SMTT(30), <1>0, <1>1, <2>1, <2>2 DEF Chains
<1>6. Rings
  BY SMTT(30), <1>0 DEF Init, virtio_disk_init, Rings, InUsed
<1>7. Contents
  BY ZenonT(30), <1>0 DEF Init, binit, Contents, Ops, Writes, Clean, Holding
<1>8. Sized
  BY ZenonT(30), <1>2, <1>4, InitIInv, SizesKnown
<1> QED BY ZenonT(30), <1>2, <1>3, <1>4, <1>5, <1>6, <1>7, <1>8 DEF RInv

\* Every step keeps the references counted: bget() uses a buffer again that nobody
\* has, and brelse() gives the reference of its process back.
LEMMA CountedStep == IInv /\ RInv /\ [Next]_vars => Counted'
<1> SUFFICES ASSUME IInv, RInv, [Next]_vars PROVE Counted'
  OBVIOUS
<1>0. Counted /\ Shape /\ 0 \notin Buf
  BY SMTT(30) DEF RInv, IInv, Buf
<1>1. ASSUME NEW p \in Proc, NEW k \in Block, bget(p, k) PROVE Counted'
  <2>1. PICK b \in Buf :
          /\ \/ blockno[b] = k /\ refcnt' = [refcnt EXCEPT ![b] = @ + 1] /\ UNCHANGED blockno
             \/ /\ refcnt[b] = 0 /\ blockno' = [blockno EXCEPT ![b] = k]
                /\ refcnt' = [refcnt EXCEPT ![b] = 1]
          /\ cur' = [cur EXCEPT ![p] = b]
    BY <1>1, ZenonT(60) DEF bget, Referenced, Recycled
  <2>2. pc[p] = "idle" /\ pc' = [pc EXCEPT ![p] = "lock"] /\ UNCHANGED pins
    BY ZenonT(30), <1>1 DEF bget, At, Goto, histVars
  <2>3. cur[p] \notin Buf
    BY ZenonT(30), <2>2, <1>0 DEF Counted
  <2>4. \A c \in Buf : c # b => Users(c)' = Users(c)
    BY ZenonT(30), <2>1, <2>3, <1>0 DEF Users, Shape
  <2>5. Users(b)' = Users(b) \cup {p} /\ p \notin Users(b)
    BY SMTT(30), <2>1, <2>3, <1>0 DEF Users, Shape
  <2>6. /\ Cardinality(Users(b) \cup {p}) = Cardinality(Users(b)) + 1
        /\ Cardinality(Users(b)) \in Nat
    BY <2>5, <1>0, UsersFinite, FS_AddElement, ZenonT(60)
  <2>7. pins \in [Buf -> Nat] /\ refcnt \in [Buf -> Nat] /\ refcnt' \in [Buf -> Nat]
    BY SMTT(30), <2>1, <1>0 DEF Counted
  <2>8. ASSUME NEW c \in Buf PROVE refcnt'[c] = Cardinality(Users(c)') + pins[c]
    <3>1. CASE c # b
      BY ZenonT(30), <3>1, <2>1, <2>4, <2>7, <1>0 DEF Counted
    <3>2. CASE c = b
      <4>1. refcnt'[b] = refcnt[b] + 1
        BY SMTT(30), <2>1, <2>7
      <4>2. refcnt[b] = Cardinality(Users(b)) + pins[b]
        BY ZenonT(30), <1>0 DEF Counted
      <4>3. Cardinality(Users(b)') = Cardinality(Users(b)) + 1
        BY ZenonT(30), <2>5, <2>6
      <4> QED BY SMTT(30), <3>2, <4>1, <4>2, <4>3, <2>6, <2>7
    <3> QED BY ZenonT(30), <3>1, <3>2
  <2>9. ASSUME NEW q \in Proc, cur'[q] \in Buf
        PROVE  pc'[q] # "idle" /\ blockno'[cur'[q]] \in Block
    <3>1. CASE q = p
      BY ZenonT(30), <3>1, <2>1, <2>2, <1>0 DEF Shape
    <3>2. CASE q # p
      <4>1. cur'[q] = cur[q] /\ pc'[q] = pc[q]
        BY ZenonT(30), <3>2, <2>1, <2>2, <1>0 DEF Shape
      <4>2. refcnt[b] = 0 => cur[q] # b
        BY <1>0, UsersFinite, ZenonT(60) DEF Users
      <4>3. blockno'[cur[q]] = blockno[cur[q]]
        BY ZenonT(30), <4>1, <4>2, <2>1, <2>9, <1>0 DEF Shape
      <4> QED BY ZenonT(30), <4>1, <4>3, <2>9, <1>0 DEF Counted
    <3> QED BY ZenonT(30), <3>1, <3>2
  <2> QED BY ZenonT(30), <2>2, <2>7, <2>8, <2>9 DEF Counted
<1>2. ASSUME NEW p \in Proc, acquiresleep(p) \/ releasesleep(p) PROVE Counted'
  <2>1. UNCHANGED <<cur, blockno, refcnt, pins>>
    BY ZenonT(30), <1>2 DEF acquiresleep, releasesleep, cacheVars, procVars, histVars
  <2>2. \A q \in Proc : pc[q] # "idle" => pc'[q] # "idle"
    BY ZenonT(30), <1>2, <1>0 DEF acquiresleep, releasesleep, At, Goto, wakeup, OnLock, Awake, Shape
  <2>3. \A b \in Buf : Users(b)' = Users(b)
    BY ZenonT(30), <2>1 DEF Users
  <2> QED BY ZenonT(30), <2>1, <2>2, <2>3, <1>0 DEF Counted
<1>3. ASSUME NEW p \in Proc, brelse(p) PROVE Counted'
  <2>0. PICK b \in Buf : b = cur[p]
    BY ZenonT(30), <1>3, <1>0 DEF brelse, At, Shape
  <2>1. /\ pc[p] = "brelse" /\ pc' = [pc EXCEPT ![p] = "idle"] /\ cur' = [cur EXCEPT ![p] = 0]
        /\ refcnt' = [refcnt EXCEPT ![b] = @ - 1] /\ UNCHANGED <<blockno, pins>>
    BY ZenonT(30), <1>3, <2>0 DEF brelse, At, Goto, histVars
  <2>3. \A c \in Buf : c # b => Users(c)' = Users(c)
    BY ZenonT(30), <2>0, <2>1, <1>0 DEF Users, Shape
  <2>4. Users(b)' = Users(b) \ {p} /\ p \in Users(b)
    BY ZenonT(30), <2>1, <2>0, <1>0 DEF Users, Shape
  <2>5. /\ Cardinality(Users(b) \ {p}) = Cardinality(Users(b)) - 1
        /\ Cardinality(Users(b)) \in Nat /\ Cardinality(Users(b) \ {p}) \in Nat
    <3>1. IsFiniteSet(Users(b))
      BY ZenonT(30), <2>0, <1>0, UsersFinite
    <3> QED BY ZenonT(30), <3>1, <2>4, FS_RemoveElement, FS_CardinalityType
  <2>6. pins \in [Buf -> Nat] /\ refcnt \in [Buf -> Nat]
    BY ZenonT(30), <1>0 DEF Counted
  <2>7. ASSUME NEW c \in Buf
        PROVE  refcnt'[c] = Cardinality(Users(c)') + pins[c] /\ refcnt'[c] \in Nat
    <3>1. CASE c # b
      BY ZenonT(30), <3>1, <2>1, <2>3, <2>6, <1>0 DEF Counted
    <3>2. CASE c = b
      <4>1. refcnt'[b] = refcnt[b] - 1
        BY ZenonT(30), <2>1, <2>0, <2>6
      <4>2. refcnt[b] = Cardinality(Users(b)) + pins[b]
        BY ZenonT(30), <2>0, <1>0 DEF Counted
      <4>3. Cardinality(Users(b)') = Cardinality(Users(b)) - 1 /\ Cardinality(Users(b)') \in Nat
        BY ZenonT(30), <2>4, <2>5
      <4> QED BY SMTT(30), <3>2, <4>1, <4>2, <4>3, <2>5, <2>6
    <3> QED BY ZenonT(30), <3>1, <3>2
  <2>8. refcnt' \in [Buf -> Nat]
    BY ZenonT(30), <2>1, <2>6, <2>7
  <2>9. ASSUME NEW q \in Proc, cur'[q] \in Buf
        PROVE  pc'[q] # "idle" /\ blockno'[cur'[q]] \in Block
    BY ZenonT(30), <2>1, <2>9, <1>0 DEF Shape, Counted
  <2> QED BY ZenonT(30), <2>1, <2>6, <2>7, <2>8, <2>9 DEF Counted
<1>4. ASSUME NEW p \in Proc, bpin(p) \/ bunpin(p) PROVE Counted'
  <2> DEFINE b == cur[p]
  <2>1. /\ pc[p] = "have" /\ UNCHANGED <<cur, blockno, pc>>
        /\ \/ refcnt' = [refcnt EXCEPT ![b] = @ + 1] /\ pins' = [pins EXCEPT ![b] = @ + 1]
           \/ /\ pins[b] > 0
              /\ refcnt' = [refcnt EXCEPT ![b] = @ - 1] /\ pins' = [pins EXCEPT ![b] = @ - 1]
    BY ZenonT(30), <1>4 DEF bpin, bunpin, At, Referenced, procVars
  <2>2. b \in Buf
    BY ZenonT(30), <2>1, <1>0 DEF Shape
  <2>3. \A c \in Buf : Users(c)' = Users(c) /\ Cardinality(Users(c)) \in Nat
    BY <2>1, <1>0, UsersFinite, ZenonT(60) DEF Users
  <2>4. \A c \in Buf : /\ refcnt[c] = Cardinality(Users(c)) + pins[c] /\ pins[c] \in Nat
                      /\ refcnt[c] \in Nat
    BY ZenonT(30), <1>0 DEF Counted
  <2>5. pins \in [Buf -> Nat] /\ refcnt \in [Buf -> Nat]
    BY ZenonT(30), <1>0 DEF Counted
  <2> HIDE DEF b
  <2>6. pins' \in [Buf -> Nat] /\ refcnt' \in [Buf -> Nat]
    BY SMTT(30), <2>1, <2>2, <2>3, <2>4, <2>5
  <2>7. \A c \in Buf : refcnt'[c] = Cardinality(Users(c)') + pins'[c]
    BY SMTT(30), <2>1, <2>2, <2>3, <2>4, <2>5
  <2> QED BY ZenonT(30), <2>1, <2>6, <2>7, <1>0 DEF Counted
<1>5. CASE Same
  <2>1. \A b \in Buf : Users(b)' = Users(b)
    BY ZenonT(30), <1>5 DEF Users, Same
  <2> QED BY ZenonT(30), <1>5, <2>1, <1>0 DEF Same, Counted
<1> QED BY ZenonT(30), <1>1, <1>2, <1>3, <1>4, <1>5, Moves DEF Taking

\* Every step keeps the descriptors of the requests apart.
LEMMA ChainsStep == IInv /\ RInv /\ [Next]_vars => Chains'
<1> SUFFICES ASSUME IInv, RInv, [Next]_vars PROVE Chains'
  BY ZenonT(30)
<1>0. Chains /\ Typed /\ num \in Nat /\ IsFiniteSet(free) /\ Cardinality(free) \in Nat
  BY ZenonT(30), DescBound, FS_CardinalityType DEF RInv, IInv, Typed
<1>00. IsFiniteSet(InDriver) /\ Cardinality(InDriver) \in Nat
  <2>1. InDriver \subseteq Proc /\ IsFiniteSet(Proc)
    BY ZenonT(30), DiskAssumption DEF InDriver
  <2> QED BY ZenonT(30), <2>1, FS_Subset, FS_CardinalityType
<1>1. ASSUME NEW p \in Proc, Submit(p) PROVE Chains'
  <2>1. PICK b \in Buf, i \in free, j \in free, k \in free : Submitted(p, b, i, j, k)
    BY ZenonT(30), <1>1, SubmitEffect
  <2>2. i \in Desc /\ j \in Desc /\ k \in Desc /\ DOMAIN desc = Desc
    BY ZenonT(30), <1>0 DEF Typed
  <2>3. Linked(i)' /\ Chain(i)' = {i, j, k}
    BY ZenonT(30), <2>1, <2>2 DEF Submitted, Linked, Chain
  <2>4. ASSUME NEW q \in InDriver
        PROVE  /\ head'[q] = head[q] /\ Linked(head[q]) /\ Chain(head[q]) \cap free = {}
               /\ Linked(head[q])' /\ Chain(head[q])' = Chain(head[q])
    <3>1. PICK h \in Desc : h = head[q]
      BY ZenonT(30), <1>0 DEF Typed, InDriver
    <3>2. Linked(h) /\ Chain(h) \cap free = {}
      BY ZenonT(30), <3>1, <1>0 DEF Chains
    <3>3. h \in Chain(h)
      BY ZenonT(30), <3>2, LinkedChain
    <3>4. \A x \in Chain(h) : desc'[x] = desc[x]
      <4>1. \A x \in Desc \ {i, j, k} : desc'[x] = desc[x]
        BY ZenonT(30), <2>1, <2>2 DEF Submitted
      <4>2. Chain(h) \subseteq Desc
        BY ZenonT(30), <3>2, ChainInDesc, <1>0
      <4> QED BY ZenonT(30), <4>1, <4>2, <3>2
    <3>5. Linked(h)' /\ Chain(h)' = Chain(h)
      BY ZenonT(30), <3>2, <3>4, ChainKept
    <3>6. head'[q] = h
      BY ZenonT(30), <2>1, <3>1, <1>0 DEF Submitted, Typed, InDriver
    <3> QED BY ZenonT(30), <3>1, <3>2, <3>5, <3>6
  <2>5. head'[p] = i /\ InDriver' = InDriver \cup {p} /\ p \notin InDriver
    <3>1. /\ head' = [head EXCEPT ![p] = i] /\ InDriver' = InDriver \cup {p} /\ p \notin InDriver
      BY ZenonT(30), <2>1 DEF Submitted
    <3>2. DOMAIN head = Proc
      BY ZenonT(30), <1>0 DEF Typed
    <3> QED BY ZenonT(30), <3>1, <3>2
  <2>6. \A q \in InDriver' : Linked(head[q])' /\ Chain(head[q])' \cap free' = {}
    BY ZenonT(30), <2>1, <2>3, <2>4, <2>5 DEF Submitted
  <2>7. \A q, r \in InDriver' : q # r => Chain(head[q])' \cap Chain(head[r])' = {}
    <3>1. ASSUME NEW q \in InDriver, NEW r \in InDriver, q # r
          PROVE  Chain(head[q])' \cap Chain(head[r])' = {}
      BY ZenonT(30), <3>1, <2>4, <1>0 DEF Chains
    <3>2. ASSUME NEW q \in InDriver
          PROVE  Chain(head[q])' \cap Chain(head[p])' = {}
      <4>1. Chain(head[p])' = {i, j, k}
        BY ZenonT(30), <2>3, <2>5
      <4>2. Chain(head[q])' \cap free = {}
        BY ZenonT(30), <2>4
      <4> QED BY ZenonT(30), <4>1, <4>2
    <3> QED BY ZenonT(30), <2>5, <3>1, <3>2
  <2>8. Cardinality(InDriver') = Cardinality(InDriver) + 1
    BY <2>5, <1>00, FS_AddElement, ZenonT(60)
  <2>9. Cardinality(free') + 3 * Cardinality(InDriver') = num'
    <3>1. Cardinality(free') = Cardinality(free) - 3 /\ num' = num
      BY ZenonT(30), <2>1 DEF Submitted
    <3>2. Cardinality(free) + 3 * Cardinality(InDriver) = num
      BY ZenonT(30), <1>0 DEF Chains
    <3> QED BY ONLY SMTT(30), <3>1, <3>2, <2>8, <1>0, <1>00
  <2> QED BY ZenonT(30), <2>6, <2>7, <2>9 DEF Chains
<1>2. ASSUME NEW p \in Proc, Finished(p) PROVE Chains'
  <2>1. PICK b \in Buf, h \in Desc : Ended(p, b, h)
    BY ZenonT(30), <1>2, FinishedEffect
  <2>2. p \in InDriver /\ h = head[p] /\ InDriver' = InDriver \ {p}
    BY ZenonT(30), <2>1 DEF Ended
  <2>3. Linked(h) /\ Chain(h) \cap free = {}
    BY ZenonT(30), <2>2, <1>0 DEF Chains
  <2>4. IsFiniteSet(Chain(h)) /\ Cardinality(Chain(h)) = 3
    BY ZenonT(30), <2>3, ThreeInChain
  <2>5. ASSUME NEW q \in InDriver, q # p
        PROVE  /\ Linked(head[q]) /\ Chain(head[q]) \cap (free \cup Chain(h)) = {}
               /\ Linked(head[q])' /\ Chain(head[q])' = Chain(head[q])
    <3>1. PICK g \in Desc : g = head[q]
      BY ZenonT(30), <1>0 DEF Typed, InDriver
    <3>2. Linked(g) /\ Chain(g) \cap (free \cup Chain(h)) = {}
      BY ZenonT(30), <3>1, <2>2, <2>5, <1>0 DEF Chains
    <3>3. Chain(g) \subseteq Desc
      BY ZenonT(30), <3>2, ChainInDesc, <1>0
    <3>4. \A x \in Chain(g) : desc'[x] = desc[x]
      BY ZenonT(30), <2>1, <3>2, <3>3 DEF Ended
    <3>5. Linked(g)' /\ Chain(g)' = Chain(g)
      BY ZenonT(30), <3>2, <3>4, ChainKept
    <3>6. head'[q] = g
      BY ZenonT(30), <2>1, <2>5, <3>1, <1>0 DEF Ended, Typed, InDriver
    <3> QED BY ZenonT(30), <3>1, <3>2, <3>5, <3>6
  <2>6. \A q \in InDriver' : Linked(head[q])' /\ Chain(head[q])' \cap free' = {}
    BY ZenonT(30), <2>1, <2>2, <2>5 DEF Ended
  <2>7. \A q, r \in InDriver' : q # r => Chain(head[q])' \cap Chain(head[r])' = {}
    BY ZenonT(30), <2>2, <2>5, <1>0 DEF Chains
  <2>8. Cardinality(InDriver') = Cardinality(InDriver) - 1
    BY <2>2, <1>00, FS_RemoveElement, ZenonT(60)
  <2>9. Cardinality(free') = Cardinality(free) + 3
    <3>1. free' = free \cup Chain(h)
      BY ZenonT(30), <2>1 DEF Ended
    <3>2. Cardinality(free \cup Chain(h))
            = Cardinality(free) + Cardinality(Chain(h)) - Cardinality(free \cap Chain(h))
      BY ZenonT(30), <2>4, <1>0, FS_Union
    <3>3. Cardinality(free \cap Chain(h)) = 0
      BY ZenonT(30), <2>3, FS_EmptySet
    <3> QED BY SMTT(30), <3>1, <3>2, <3>3, <2>4, <1>0
  <2>10. Cardinality(free') + 3 * Cardinality(InDriver') = num'
    BY SMTT(30), <2>1, <2>8, <2>9, <1>0, <1>00 DEF Ended, Chains
  <2> QED BY ZenonT(30), <2>6, <2>7, <2>10 DEF Chains
<1>3. ASSUME UNCHANGED <<num, free, desc, head>>, InDriver' = InDriver PROVE Chains'
  <2>1. \A q \in InDriver : /\ Linked(head[q])' = Linked(head[q])
                           /\ Chain(head[q])' = Chain(head[q])
    BY ZenonT(30), <1>3 DEF Linked, Chain
  <2> QED BY ZenonT(30), <1>3, <2>1, <1>0 DEF Chains
<1>4. CASE IntrEntry
  <2>1. InDriver' = InDriver
    BY <1>4, ZenonT(60) DEF IntrEntry, panic, InDriver, OnBuf, IInv, Shape
  <2>2. UNCHANGED <<num, free, desc, head>>
    BY <1>4, ZenonT(60) DEF IntrEntry, panic, ringVars, procVars
  <2> QED BY ZenonT(30), <2>1, <2>2, <1>3
<1>5. CASE Device
  BY ZenonT(30), <1>5, <1>3 DEF Device, DevDone, procVars, InDriver
<1>6. CASE Apart
  BY ZenonT(30), <1>6, <1>3 DEF Apart
<1> QED BY ZenonT(30), <1>1, <1>2, <1>4, <1>5, <1>6, Requests

-----------------------------------------------------------------------------
\* The invariant holds in every state.
LEMMA RInvariance == Spec => [](IInv /\ RInv)
<1>1. Init => IInv /\ RInv
  BY ZenonT(30), InitIInv, InitRInv
<1>2. (IInv /\ Typed /\ Counted)' => Sized'
  BY SizesKnown, PTL
<1>3. IInv /\ RInv /\ [Next]_vars => IInv' /\ RInv'
  BY ZenonT(30), <1>2, NextIInv, TypedStep, HeldStep, CountedStep, ChainsStep, RingsStep, ContentsStep DEF RInv
<1> QED BY <1>1, <1>3, PTL DEF Spec

\* Whatever the order of requests, answers and interrupts, free_chain() gets back the three
\* descriptors of a request, no descriptor is in two requests, and the panics of
\* virtio_disk.c ("free_desc" and "virtio_disk_intr status") do not happen.
THEOREM DescriptorsSafe == Spec => []DescriptorsKept
<1>1. IInv /\ RInv => DescriptorsKept
  <2> SUFFICES ASSUME IInv, RInv PROVE DescriptorsKept
    OBVIOUS
  <2>1. Chains /\ Rings
    BY ZenonT(30) DEF RInv
  <2>2. \A p \in InDriver : Cardinality(Chain(head[p])) = 3
    BY ZenonT(30), <2>1, ThreeInChain DEF Chains
  <2> QED BY ZenonT(30), <2>1, <2>2 DEF DescriptorsKept, Chains, Rings
<1> QED BY <1>1, RInvariance, PTL

\* The types, with the count of the references to every buffer.
THEOREM TypeCorrect == Spec => []TypeOK
<1>1. IInv /\ RInv => TypeOK
  BY ZenonT(60) DEF IInv, RInv, Shape, Listed, Typed, Counted, Users, TypeOK
<1> QED BY <1>1, RInvariance, PTL

\* The buffer cache with the driver implements blocks that one process at a time may
\* change: recycling buffers, rereading blocks, requests in flight and interrupts, in any
\* order and with any number of processes, never change what a block is for those that
\* read it, and what reaches the disk is what the owner of the block wrote.
THEOREM Refinement == Spec => IsBlockStore
<1>1. Init => Store!Init
  <2> SUFFICES ASSUME Init PROVE Store!Init
    BY ZenonT(30)
  <2>1. \A k \in Block : ~Cached(k)
    BY ZenonT(30), DiskAssumption DEF Init, binit, Cached
  <2>2. Value = [k \in Block |-> 0] /\ Owner = [k \in Block |-> None]
    BY ZenonT(30), <2>1 DEF Init, binit, Value, Owner, Cached
  <2> QED BY ZenonT(30), <2>2 DEF Init, Store!Init
<1>2. IInv /\ RInv /\ IInv' /\ [Next]_vars => [Store!Next]_(Store!vars)
  BY StepRefines DEF Store!vars
<1> QED BY <1>1, <1>2, RInvariance, PTL DEF Spec, IsBlockStore, Store!Spec
=============================================================================
