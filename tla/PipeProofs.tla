----------------------------- MODULE PipeProofs -----------------------------
(***************************************************************************)
(* Proofs about Pipe: for any processes, any size of the pipe and any      *)
(* lengths, no wakeup is lost, a read returns 0 only at the end, the pipe  *)
(* is freed when nobody is in it, and its bytes are a bounded FIFO queue.  *)
(***************************************************************************)
EXTENDS Pipe, Integers, TLAPS

\* The types the argument needs.
Shape ==
  /\ readopen \in BOOLEAN /\ writeopen \in BOOLEAN /\ freed \in BOOLEAN
  /\ lock \in Procs \cup {None} /\ ends \subseteq Procs
  /\ pc \in [Procs -> {"idle", "acquire", "loop", "copy", "presleep", "asleep"}]
  /\ i \in [Procs -> Nat] /\ n \in [Procs -> Nat]
  /\ chan \in [Procs -> {None, "nread", "nwrite"}]
  /\ killed \in [Procs -> BOOLEAN] /\ eof \in [Procs -> BOOLEAN]

\* Exactly the process in a critical section holds the lock.
Holding == \A p \in Procs : pc[p] \in {"loop", "copy"} <=> lock = p

\* A process in a call has its end open, and an end is closed when nobody has it.
Inside == \A p \in Procs : pc[p] # "idle" => p \in ends
Opened ==
  /\ ~readopen => ends \cap Readers = {}
  /\ ~writeopen => ends \cap Writers = {}
  /\ freed <=> ~readopen /\ ~writeopen

\* Readers and writers wait on their own channels, and only readers copy out.
Channels ==
  \A p \in Procs :
    /\ Waits(p) /\ p \in Writers => chan[p] = "nwrite"
    /\ Waits(p) /\ p \in Readers => chan[p] = "nread"
    /\ pc[p] = "copy" => p \in Readers

\* What is true of the waiting processes while the lock is held: those of the other
\* end may have to be woken up before it is released.
WritersWait ==
  \A w \in Writers : Waits(w) => (Full /\ readopen) \/ \E r \in Procs : pc[r] = "copy"
ReadersWait ==
  WriterKilled \/ \A r \in Readers :
    Waits(r) => (Empty /\ writeopen) \/ \E w \in Writers : pc[w] = "loop"

\* A reader that copies and has nothing yet has found a byte or no writer.
Copying == \A p \in Procs : pc[p] = "copy" /\ i[p] = 0 => ~Empty \/ ~writeopen

Basics == Shape /\ Holding /\ Inside /\ Opened /\ Channels

IInv ==
  /\ Basics
  /\ WritersWait /\ ReadersWait /\ Copying /\ EofIsFinal

\* At first nobody is in the pipe and both ends are open.
LEMMA InitInv == Init => IInv
<1> SUFFICES ASSUME Init PROVE IInv
  OBVIOUS
<1> USE PipeAssumption DEF Init, Procs
<1>1. Basics
  BY ZenonT(30) DEF Basics, Shape, Holding, Inside, Opened, Channels, Waits
<1>2. WritersWait
  BY ZenonT(30) DEF Basics, Shape, Holding, Inside, Opened, Channels, Waits, WritersWait
<1>3. ReadersWait
  BY ZenonT(30) DEF Basics, Shape, Holding, Inside, Opened, Channels, Waits, ReadersWait,
         WriterKilled
<1>4. Copying /\ EofIsFinal
  BY ZenonT(30) DEF Basics, Shape, Holding, Inside, Opened, Channels, Waits, Copying, EofIsFinal
<1> QED
  BY ZenonT(30), <1>1, <1>2, <1>3, <1>4 DEF IInv

\* Every step of a process keeps the invariant: what a step changes about the waiting
\* processes of the other end it does while it holds the lock, and wakes them up before
\* it returns.
LEMMA StepInv ==
  ASSUME IInv, NEW p \in Procs, Step(p) \/ User(p)
  PROVE  IInv'
<1> USE PipeAssumption DEF IInv, Procs, pipeVars
<1>1. CASE Acquire(p)
  <2> USE <1>1 DEF Acquire, Goto
  <2>1. Basics'
    BY ZenonT(30) DEF Basics, Shape, Holding, Inside, Opened, Channels, Waits
  <2>2. WritersWait'
    BY ZenonT(30) DEF Basics, Shape, Holding, Inside, Opened, Channels, Waits, WritersWait, Empty,
           Full
  <2>3. ReadersWait'
    BY ZenonT(30) DEF Basics, Shape, Holding, Inside, Opened, Channels, Waits, ReadersWait,
           WriterKilled, Empty, Full
  <2>4. (Copying /\ EofIsFinal)'
    BY ZenonT(30) DEF Basics, Shape, Holding, Inside, Opened, Channels, Waits, Copying, EofIsFinal,
           Empty
  <2> QED
    BY ZenonT(30), <2>1, <2>2, <2>3, <2>4
<1>2. CASE Sleep(p)
  <2> USE <1>2 DEF Sleep, Goto
  <2>1. Basics'
    BY ZenonT(30) DEF Basics, Shape, Holding, Inside, Opened, Channels, Waits
  <2>2. WritersWait'
    BY ZenonT(30) DEF Basics, Shape, Holding, Inside, Opened, Channels, Waits, WritersWait, Empty,
           Full
  <2>3. ReadersWait'
    BY ZenonT(30) DEF Basics, Shape, Holding, Inside, Opened, Channels, Waits, ReadersWait,
           WriterKilled, Empty, Full
  <2>4. (Copying /\ EofIsFinal)'
    BY ZenonT(30) DEF Basics, Shape, Holding, Inside, Opened, Channels, Waits, Copying, EofIsFinal,
           Empty
  <2> QED
    BY ZenonT(30), <2>1, <2>2, <2>3, <2>4
<1>3. CASE WriteFails(p)
  <2> USE <1>3 DEF WriteFails, ReturnError, Goto, Reset, Broken
  <2>1. Basics'
    BY ZenonT(30) DEF Basics, Shape, Holding, Inside, Opened, Channels, Waits
  <2>2. WritersWait'
    BY ZenonT(30) DEF Basics, Shape, Holding, Inside, Opened, Channels, Waits, WritersWait, Empty,
           Full
  <2>3. ReadersWait'
    BY ZenonT(30) DEF Basics, Shape, Holding, Inside, Opened, Channels, Waits, ReadersWait,
           WriterKilled, Empty, Full
  <2>4. (Copying /\ EofIsFinal)'
    BY ZenonT(30) DEF Basics, Shape, Holding, Inside, Opened, Channels, Waits, Copying, EofIsFinal,
           Empty
  <2> QED
    BY ZenonT(30), <2>1, <2>2, <2>3, <2>4
<1>4. CASE WriteFull(p)
  <2> USE <1>4 DEF WriteFull, Broken
  <2>1. Basics'
    BY ZenonT(60) DEF Basics, Shape, Holding, Inside, Opened, Channels, Waits
  <2>2. WritersWait'
    BY ZenonT(30) DEF Basics, Shape, Holding, Inside, Opened, Channels, Waits, WritersWait, Empty,
           Full
  <2>3. ReadersWait'
    BY ZenonT(30) DEF Basics, Shape, Holding, Inside, Opened, Channels, Waits, ReadersWait,
           WriterKilled, Empty, Full
  <2>4. (Copying /\ EofIsFinal)'
    BY ZenonT(30) DEF Basics, Shape, Holding, Inside, Opened, Channels, Waits, Copying, EofIsFinal,
           Empty
  <2> QED
    BY ZenonT(30), <2>1, <2>2, <2>3, <2>4
<1>5. CASE WriteDone(p)
  <2> USE <1>5 DEF WriteDone, Return, wakeup, Reset
  <2>1. Basics'
    BY ZenonT(30) DEF Basics, Shape, Holding, Inside, Opened, Channels, Waits
  <2>2. WritersWait'
    BY ZenonT(30) DEF Basics, Shape, Holding, Inside, Opened, Channels, Waits, WritersWait, Empty,
           Full
  <2>3. ReadersWait'
    BY ZenonT(30) DEF Basics, Shape, Holding, Inside, Opened, Channels, Waits, ReadersWait,
           WriterKilled, Empty, Full
  <2>4. (Copying /\ EofIsFinal)'
    BY ZenonT(30) DEF Basics, Shape, Holding, Inside, Opened, Channels, Waits, Copying, EofIsFinal,
           Empty
  <2> QED
    BY ZenonT(30), <2>1, <2>2, <2>3, <2>4
<1>6. CASE WriteFault(p)
  <2> USE <1>6 DEF WriteFault, Return, wakeup, Reset, Broken
  <2>1. Basics'
    BY ZenonT(30) DEF Basics, Shape, Holding, Inside, Opened, Channels, Waits
  <2>2. WritersWait'
    BY ZenonT(30) DEF Basics, Shape, Holding, Inside, Opened, Channels, Waits, WritersWait, Empty,
           Full
  <2>3. ReadersWait'
    BY ZenonT(30) DEF Basics, Shape, Holding, Inside, Opened, Channels, Waits, ReadersWait,
           WriterKilled, Empty, Full
  <2>4. (Copying /\ EofIsFinal)'
    BY ZenonT(30) DEF Basics, Shape, Holding, Inside, Opened, Channels, Waits, Copying, EofIsFinal,
           Empty
  <2> QED
    BY ZenonT(30), <2>1, <2>2, <2>3, <2>4
<1>7. CASE \E b \in Byte : WriteByte(p, b)
  <2> USE <1>7 DEF WriteByte, Broken
  <2>1. Basics'
    BY DEF Basics, Shape, Holding, Inside, Opened, Channels, Waits
  <2>2. WritersWait'
    BY ZenonT(30) DEF Basics, Shape, Holding, Inside, Opened, Channels, Waits, WritersWait, Empty,
           Full
  <2>3. ReadersWait'
    BY ZenonT(30) DEF Basics, Shape, Holding, Inside, Opened, Channels, Waits, ReadersWait,
           WriterKilled, Empty, Full
  <2>4. (Copying /\ EofIsFinal)'
    BY DEF Basics, Shape, Holding, Inside, Opened, Channels, Waits, Copying, EofIsFinal,
           Empty
  <2> QED
    BY ZenonT(30), <2>1, <2>2, <2>3, <2>4
<1>8. CASE ReadKilled(p)
  <2> USE <1>8 DEF ReadKilled, ReturnError, Goto, Reset, MustWait
  <2>1. Basics'
    BY ZenonT(30) DEF Basics, Shape, Holding, Inside, Opened, Channels, Waits
  <2>2. WritersWait'
    BY ZenonT(30) DEF Basics, Shape, Holding, Inside, Opened, Channels, Waits, WritersWait, Empty,
           Full
  <2>3. ReadersWait'
    BY ZenonT(30) DEF Basics, Shape, Holding, Inside, Opened, Channels, Waits, ReadersWait,
           WriterKilled, Empty, Full
  <2>4. (Copying /\ EofIsFinal)'
    BY ZenonT(30) DEF Basics, Shape, Holding, Inside, Opened, Channels, Waits, Copying, EofIsFinal,
           Empty
  <2> QED
    BY ZenonT(30), <2>1, <2>2, <2>3, <2>4
<1>9. CASE ReadWaits(p)
  <2> USE <1>9 DEF ReadWaits, Goto, MustWait
  <2>1. Basics'
    BY ZenonT(30) DEF Basics, Shape, Holding, Inside, Opened, Channels, Waits
  <2>2. WritersWait'
    BY DEF Basics, Shape, Holding, Inside, Opened, Channels, Waits, WritersWait, Empty,
           Full
  <2>3. ReadersWait'
    BY ZenonT(30) DEF Basics, Shape, Holding, Inside, Opened, Channels, Waits, ReadersWait,
           WriterKilled, Empty, Full
  <2>4. (Copying /\ EofIsFinal)'
    BY ZenonT(30) DEF Basics, Shape, Holding, Inside, Opened, Channels, Waits, Copying, EofIsFinal,
           Empty
  <2> QED
    BY ZenonT(30), <2>1, <2>2, <2>3, <2>4
<1>10. CASE ReadStarts(p)
  <2> USE <1>10 DEF ReadStarts, Goto, MustWait
  <2>1. Basics'
    BY ZenonT(30) DEF Basics, Shape, Holding, Inside, Opened, Channels, Waits
  <2>2. WritersWait'
    BY ZenonT(30) DEF Basics, Shape, Holding, Inside, Opened, Channels, Waits, WritersWait, Empty,
           Full
  <2>3. ReadersWait'
    BY ZenonT(30) DEF Basics, Shape, Holding, Inside, Opened, Channels, Waits, ReadersWait,
           WriterKilled, Empty, Full
  <2>4. (Copying /\ EofIsFinal)'
    BY ZenonT(30) DEF Basics, Shape, Holding, Inside, Opened, Channels, Waits, Copying, EofIsFinal,
           Empty
  <2> QED
    BY ZenonT(30), <2>1, <2>2, <2>3, <2>4
<1>11. CASE ReadByte(p)
  <2> USE <1>11 DEF ReadByte
  <2>1. Basics'
    BY DEF Basics, Shape, Holding, Inside, Opened, Channels, Waits
  <2>2. WritersWait'
    BY ZenonT(30) DEF Basics, Shape, Holding, Inside, Opened, Channels, Waits, WritersWait, Empty,
           Full
  <2>3. ReadersWait'
    BY ZenonT(30) DEF Basics, Shape, Holding, Inside, Opened, Channels, Waits, ReadersWait,
           WriterKilled, Empty, Full
  <2>4. (Copying /\ EofIsFinal)'
    BY DEF Basics, Shape, Holding, Inside, Opened, Channels, Waits, Copying, EofIsFinal,
           Empty
  <2> QED
    BY ZenonT(30), <2>1, <2>2, <2>3, <2>4
<1>12. CASE ReadFault(p)
  <2> USE <1>12 DEF ReadFault, Return, wakeup, Reset
  <2>1. Basics'
    BY ZenonT(30) DEF Basics, Shape, Holding, Inside, Opened, Channels, Waits
  <2>2. WritersWait'
    BY ZenonT(30) DEF Basics, Shape, Holding, Inside, Opened, Channels, Waits, WritersWait, Empty,
           Full
  <2>3. ReadersWait'
    BY ZenonT(30) DEF Basics, Shape, Holding, Inside, Opened, Channels, Waits, ReadersWait,
           WriterKilled, Empty, Full
  <2>4. (Copying /\ EofIsFinal)'
    BY ZenonT(30) DEF Basics, Shape, Holding, Inside, Opened, Channels, Waits, Copying, EofIsFinal,
           Empty
  <2> QED
    BY ZenonT(30), <2>1, <2>2, <2>3, <2>4
<1>13. CASE ReadDone(p)
  <2> USE <1>13 DEF ReadDone, Return, wakeup, Reset
  <2>1. Basics'
    BY ZenonT(30) DEF Basics, Shape, Holding, Inside, Opened, Channels, Waits
  <2>2. WritersWait'
    BY ZenonT(30) DEF Basics, Shape, Holding, Inside, Opened, Channels, Waits, WritersWait, Empty,
           Full
  <2>3. ReadersWait'
    BY ZenonT(30) DEF Basics, Shape, Holding, Inside, Opened, Channels, Waits, ReadersWait,
           WriterKilled, Empty, Full
  <2>4. (Copying /\ EofIsFinal)'
    BY DEF Basics, Shape, Holding, Inside, Opened, Channels, Waits, Copying, EofIsFinal,
           Empty
  <2> QED
    BY ZenonT(30), <2>1, <2>2, <2>3, <2>4
<1>14. CASE \E k \in Lengths : Call(p, k)
  <2> USE <1>14 DEF Call, Goto, Reset
  <2>1. Basics'
    BY SMTT(30) DEF Basics, Shape, Holding, Inside, Opened, Channels, Waits
  <2>2. WritersWait'
    BY SMTT(30) DEF Basics, Shape, Holding, Inside, Opened, Channels, Waits, WritersWait, Empty,
           Full
  <2>3. ReadersWait'
    BY DEF Basics, Shape, Holding, Inside, Opened, Channels, Waits, ReadersWait,
           WriterKilled, Empty, Full
  <2>4. (Copying /\ EofIsFinal)'
    BY DEF Basics, Shape, Holding, Inside, Opened, Channels, Waits, Copying, EofIsFinal,
           Empty
  <2> QED
    BY ZenonT(30), <2>1, <2>2, <2>3, <2>4
<1>15. CASE Kill(p)
  <2> USE <1>15 DEF Kill
  <2>1. Basics'
    BY ZenonT(30) DEF Basics, Shape, Holding, Inside, Opened, Channels, Waits
  <2>2. WritersWait'
    BY ZenonT(30) DEF Basics, Shape, Holding, Inside, Opened, Channels, Waits, WritersWait, Empty,
           Full
  <2>3. ReadersWait'
    BY ZenonT(30) DEF Basics, Shape, Holding, Inside, Opened, Channels, Waits, ReadersWait,
           WriterKilled, Empty, Full
  <2>4. (Copying /\ EofIsFinal)'
    BY ZenonT(30) DEF Basics, Shape, Holding, Inside, Opened, Channels, Waits, Copying, EofIsFinal,
           Empty
  <2> QED
    BY ZenonT(30), <2>1, <2>2, <2>3, <2>4
<1>16. CASE Close(p)
  <2> USE <1>16 DEF Close, wakeup, OtherClosed
  <2>1. Basics'
    <3>1. Shape'
      <4>1. (/\ readopen \in BOOLEAN /\ writeopen \in BOOLEAN /\ freed \in BOOLEAN)'
        BY ZenonT(30) DEF Basics, Shape
      <4>2. /\ pc' \in [Procs -> {"idle", "acquire", "loop", "copy", "presleep", "asleep"}]
            /\ chan' \in [Procs -> {None, "nread", "nwrite"}]
        BY DEF Basics, Shape
      <4>3. UNCHANGED <<lock, i, n, killed, eof>> /\ ends' \subseteq Procs
        BY ZenonT(30) DEF Basics, Shape
      <4> QED
        BY ZenonT(30), <4>1, <4>2, <4>3 DEF Basics, Shape
    <3>2. Holding' /\ Inside'
      BY DEF Basics, Shape, Holding, Inside
    <3>3. Opened'
      BY ZenonT(30) DEF Basics, Shape, Inside, Opened
    <3>4. Channels'
      BY DEF Basics, Shape, Channels, Waits
    <3> QED
      BY ZenonT(30), <3>1, <3>2, <3>3, <3>4 DEF Basics
  <2>2. WritersWait'
    BY SMTT(30) DEF Basics, Shape, Holding, Inside, Opened, Channels, Waits, WritersWait, Empty,
           Full
  <2>3. ReadersWait'
    BY SMTT(30) DEF Basics, Shape, Holding, Inside, Opened, Channels, Waits, ReadersWait,
           WriterKilled, Empty, Full
  <2>4. (Copying /\ EofIsFinal)'
    BY DEF Basics, Shape, Holding, Inside, Opened, Channels, Waits, Copying, EofIsFinal,
           Empty
  <2> QED
    BY ZenonT(30), <2>1, <2>2, <2>3, <2>4
<1> QED
  BY ZenonT(30), <1>1, <1>2, <1>3, <1>4, <1>5, <1>6, <1>7, <1>8, <1>9, <1>10, <1>11, <1>12,
     <1>13, <1>14, <1>15, <1>16 DEF Step, User

\* A step that changes nothing keeps the invariant.
LEMMA StutterInv == ASSUME IInv, UNCHANGED vars PROVE IInv'
  BY ZenonT(30) DEF IInv, Basics, Shape, Holding, Inside, Opened, Channels, WritersWait, ReadersWait,
         Copying, EofIsFinal, Waits, WriterKilled, Empty, Full, vars, pipeVars

\* The invariant holds in every reachable state.
THEOREM Invariance == Spec => []IInv
<1>1. IInv /\ [Next]_vars => IInv'
  BY ZenonT(30), StepInv, StutterInv DEF Next
<1> QED
  BY InitInv, <1>1, PTL DEF Spec

\* Whenever the lock of the pipe is free, everybody asleep on it has reason to be:
\* sleep_prepare() before release(), and a wakeup() in every path of pipewrite(),
\* piperead() and pipeclose() that changes the pipe, except that of a killed writer.
THEOREM WakeupsNotLost == Spec => []NoLostWakeup
<1>1. IInv => NoLostWakeup
  BY ZenonT(30), PipeAssumption DEF IInv, Basics, Shape, Holding, WritersWait, ReadersWait,
                        NoLostWakeup, Procs
<1> QED
  BY Invariance, <1>1, PTL

\* piperead() returns 0 for a positive length only when the pipe is empty for good.
THEOREM EofAtEnd == Spec => []EofIsFinal
<1>1. IInv => EofIsFinal
  BY ZenonT(30) DEF IInv
<1> QED
  BY Invariance, <1>1, PTL

\* pipeclose() frees the pipe with its second end, and nobody is in it then.
THEOREM FreedAtEnd == Spec => []FreedLast
<1>1. IInv => FreedLast
  BY ZenonT(30), PipeAssumption DEF IInv, Basics, Shape, Holding, Inside, Opened, FreedLast, Procs
<1> QED
  BY Invariance, <1>1, PTL

-----------------------------------------------------------------------------
\* The counters are words of the machine, and (nwrite - nread) modulo WORD, which is
\* what `nwrite == nread + PIPESIZE' compares, is at most PIPESIZE.
Counters == nread \in Word /\ nwrite \in Word /\ Count <= PIPESIZE

\* The difference of two words, modulo WORD.
Distance(x, y) == IF x <= y THEN y - x ELSE y + WORD - x

\* Count is the distance from nread to nwrite.
LEMMA CountIsDistance ==
  ASSUME NEW x \in Word, NEW y \in Word
  PROVE  (y + WORD - x) % WORD = Distance(x, y)
<1>1. WORD \in Nat \ {0} /\ x \in Nat /\ y \in Nat /\ x < WORD /\ y < WORD
  BY PipeAssumption DEF Word
<1>2. CASE x <= y
  BY <1>1, <1>2 DEF Distance
<1>3. CASE ~(x <= y)
  BY <1>1, <1>3 DEF Distance
<1> QED
  BY ZenonT(30), <1>2, <1>3

\* The counters wrap around at most once.
LEMMA PlusWord ==
  ASSUME NEW x \in Word, NEW k \in Nat, k < WORD
  PROVE  Plus(x, k) = IF x + k < WORD THEN x + k ELSE x + k - WORD
<1>1. WORD \in Nat \ {0} /\ x \in Nat /\ x < WORD
  BY PipeAssumption DEF Word
<1>2. CASE x + k < WORD
  BY <1>1, <1>2 DEF Plus
<1>3. CASE ~(x + k < WORD)
  BY <1>1, <1>3 DEF Plus
<1> QED
  BY ZenonT(30), <1>2, <1>3

\* A byte more, unless the pipe is full.
LEMMA WriteCounts ==
  ASSUME Counters, ~Full
  PROVE  /\ Plus(nwrite, 1) \in Word
         /\ Distance(nread, Plus(nwrite, 1)) <= PIPESIZE
<1>1. nwrite \in Word /\ nread \in Word /\ Distance(nread, nwrite) <= PIPESIZE
  BY ZenonT(30), CountIsDistance DEF Counters, Count
<1>2. Plus(nwrite, 1) = IF nwrite + 1 < WORD THEN nwrite + 1 ELSE nwrite + 1 - WORD
  BY <1>1, PlusWord, PipeAssumption
<1>3. nwrite # IF nread + PIPESIZE < WORD THEN nread + PIPESIZE ELSE nread + PIPESIZE - WORD
  BY ZenonT(30), <1>1, PlusWord, PipeAssumption DEF Full
<1> QED
  BY <1>1, <1>2, <1>3, PipeAssumption DEF Word, Distance

\* A byte less, unless the pipe is empty.
LEMMA ReadCounts ==
  ASSUME Counters, ~Empty
  PROVE  /\ Plus(nread, 1) \in Word
         /\ Distance(Plus(nread, 1), nwrite) <= PIPESIZE
<1>1. nwrite \in Word /\ nread \in Word /\ Distance(nread, nwrite) <= PIPESIZE
  BY ZenonT(30), CountIsDistance DEF Counters, Count
<1>2. Plus(nread, 1) = IF nread + 1 < WORD THEN nread + 1 ELSE nread + 1 - WORD
  BY <1>1, PlusWord, PipeAssumption
<1> QED
  BY <1>1, <1>2, PipeAssumption DEF Word, Distance, Empty

\* The bytes are bytes, and a call stays within the length asked for.
Contents == data \in [Slots -> Byte] /\ out \in Byte \cup {None}
WithinCall == \A p \in Procs : n[p] \in 0 .. MAX_N /\ i[p] \in 0 .. n[p]

\* Only pipewrite() and piperead() move the counters, a byte at a time.
LEMMA CountersInv ==
  ASSUME Counters, NEW p \in Procs, Step(p) \/ User(p)
  PROVE  Counters'
<1>1. CASE \E b \in Byte : WriteByte(p, b)
  BY ZenonT(30), <1>1, WriteCounts, CountIsDistance DEF WriteByte, Counters, Count
<1>2. CASE ReadByte(p)
  BY ZenonT(30), <1>2, ReadCounts, CountIsDistance DEF ReadByte, Counters, Count
<1>3. CASE UNCHANGED <<nread, nwrite>>
  BY ZenonT(30), <1>3 DEF Counters, Count
<1> QED
  BY ZenonT(30), <1>1, <1>2, <1>3 DEF Step, User, pipeVars, Acquire, Sleep, WriteFails, WriteFull,
     WriteDone, WriteFault, ReadKilled, ReadWaits, ReadStarts, ReadFault, ReadDone, Call,
     Kill, Close

\* A byte is written into one of the slots, and read from one.
LEMMA ContentsInv ==
  ASSUME Counters, Contents, NEW p \in Procs, Step(p) \/ User(p)
  PROVE  Contents'
<1>1. nread % PIPESIZE \in Slots /\ nwrite % PIPESIZE \in Slots
  BY PipeAssumption DEF Counters, Word, Slots
<1>2. CASE \E b \in Byte : WriteByte(p, b)
  BY ZenonT(30), <1>1, <1>2 DEF WriteByte, Put, Contents
<1>3. CASE ReadByte(p)
  BY ZenonT(30), <1>1, <1>3 DEF ReadByte, Contents
<1>4. CASE data' = data /\ out' \in {out, None}
  BY ZenonT(30), <1>4 DEF Contents
<1> QED
  BY ZenonT(30), <1>2, <1>3, <1>4 DEF Step, User, pipeVars, Acquire, Sleep, WriteFails, WriteFull,
     WriteDone, WriteFault, ReadKilled, ReadWaits, ReadStarts, ReadFault, ReadDone, Call,
     Kill, Close

\* A byte is moved only while i < n.
LEMMA LengthsInv ==
  ASSUME Shape, WithinCall, NEW p \in Procs, Step(p) \/ User(p)
  PROVE  WithinCall'
<1> USE PipeAssumption DEF WithinCall, Shape
<1>1. CASE (\E b \in Byte : WriteByte(p, b)) \/ ReadByte(p)
  BY <1>1 DEF WriteByte, ReadByte
<1>2. CASE \E k \in Lengths : Call(p, k)
  <2>1. PICK k \in Lengths : Call(p, k)
    BY ZenonT(30), <1>2
  <2> QED
    BY <2>1 DEF Call, Reset
<1>3. CASE i' = Reset(i, p) /\ n' = Reset(n, p)
  BY <1>3 DEF Reset
<1>4. CASE UNCHANGED <<i, n>>
  BY ZenonT(30), <1>4
<1> QED
  BY ZenonT(30), <1>1, <1>2, <1>3, <1>4 DEF Step, User, Acquire, Sleep, WriteFails, WriteFull,
     WriteDone, WriteFault, ReadKilled, ReadWaits, ReadStarts, ReadFault, ReadDone, Kill,
     Close, Return, ReturnError

\* The bytes are where the counters say, in every reachable state.
LEMMA BytesInv == Spec => [](IInv /\ Counters /\ Contents /\ WithinCall)
<1>1. Init => Counters /\ Contents /\ WithinCall
  <2> SUFFICES ASSUME Init PROVE Counters /\ Contents /\ WithinCall
    OBVIOUS
  <2>1. nread \in Word /\ nwrite \in Word /\ Distance(nread, nwrite) <= PIPESIZE
    BY PipeAssumption DEF Init, Word, Distance
  <2>2. Counters
    BY ZenonT(30), <2>1, CountIsDistance DEF Counters, Count
  <2>3. Contents
    BY ZenonT(30), PipeAssumption DEF Init, Contents, Junk
  <2>4. WithinCall
    BY PipeAssumption DEF Init, WithinCall
  <2> QED
    BY ZenonT(30), <2>2, <2>3, <2>4
<1>2. IInv /\ Counters /\ Contents /\ WithinCall /\ [Next]_vars
        => Counters' /\ Contents' /\ WithinCall'
  <2> SUFFICES ASSUME IInv, Counters, Contents, WithinCall, [Next]_vars
               PROVE  Counters' /\ Contents' /\ WithinCall'
    OBVIOUS
  <2>1. CASE Next
    BY ZenonT(30), <2>1, CountersInv, ContentsInv, LengthsInv DEF Next, IInv, Basics
  <2>2. CASE UNCHANGED vars
    BY ZenonT(30), <2>2 DEF vars, pipeVars, Counters, Count, Contents, WithinCall
  <2> QED
    BY ZenonT(30), <2>1, <2>2
<1> QED
  BY Invariance, <1>1, <1>2, PTL DEF Spec

\* The state of the pipe has its types, and never more than PIPESIZE bytes are in it,
\* for any size of the pipe and also when nread and nwrite have wrapped around.
THEOREM TypeCorrect == Spec => []TypeOK
<1>1. IInv /\ Counters /\ Contents /\ WithinCall => TypeOK
  <2> SUFFICES ASSUME IInv, Counters, Contents, WithinCall PROVE TypeOK
    OBVIOUS
  <2>1. i \in [Procs -> 0 .. MAX_N] /\ n \in [Procs -> 0 .. MAX_N]
    BY PipeAssumption DEF IInv, Basics, Shape, WithinCall
  <2> QED
    BY ZenonT(30), <2>1 DEF IInv, Basics, Shape, Counters, Contents, TypeOK
<1> QED
  BY BytesInv, <1>1, PTL

-----------------------------------------------------------------------------
\* A number is a multiple of the size of the pipe and the slot it stands for.
LEMMA DivMod ==
  ASSUME NEW a \in Nat, NEW P \in Nat \ {0}
  PROVE  a % P \in 0 .. P - 1 /\ \E q \in Int : a = P * q + (a % P)
<1>1. a % P \in 0 .. P - 1
  OBVIOUS
<1>2. a \div P \in Int /\ a = P * (a \div P) + (a % P)
  OBVIOUS
<1> QED BY ZenonT(60), <1>1, <1>2

\* It is so in one way only.
LEMMA OneRemainder ==
  ASSUME NEW P \in Nat \ {0}, NEW q \in Int, NEW s \in Int,
         NEW r \in 0 .. P - 1, NEW t \in 0 .. P - 1, P * q + r = P * s + t
  PROVE  r = t
<1>1. ASSUME NEW x \in Int, NEW y \in Int, x > y PROVE P * x >= P * y + P
  <2>1. PICK d \in Nat : x = y + 1 + d
    <3>1. x - y - 1 \in Nat /\ x = y + 1 + (x - y - 1)
      BY <1>1
    <3> QED BY <3>1
  <2>2. P * x = P * y + P + P * d
    BY <2>1
  <2>3. P * d \in Nat
    OBVIOUS
  <2> QED BY <2>2, <2>3
<1>2. P * q \in Int /\ P * s \in Int
  OBVIOUS
<1>3. CASE q > s
  BY <1>1, <1>2, <1>3
<1>4. CASE s > q
  BY <1>1, <1>2, <1>4
<1>5. CASE q = s
  BY <1>2, <1>5
<1> QED BY <1>3, <1>4, <1>5

\* A counter that wraps around goes on in the slot where it would have gone on anyway,
\* because the size of the pipe divides WORD.
LEMMA WrapsToSlot ==
  ASSUME NEW a \in Nat
  PROVE  (a + WORD) % PIPESIZE = a % PIPESIZE
<1> DEFINE P == PIPESIZE
<1>0. P \in Nat \ {0} /\ WORD \in Nat /\ a + WORD \in Nat /\ WORD % P = 0
  BY PipeAssumption
<1> HIDE DEF P
<1>1. PICK q \in Int : a = P * q + (a % P)
  BY <1>0, DivMod, Zenon
<1>2. PICK s \in Int : WORD = P * s
  <2>1. PICK s \in Int : WORD = P * s + (WORD % P)
    BY <1>0, DivMod, Zenon
  <2>2. P * s \in Int
    BY <1>0
  <2>3. WORD = P * s
    BY <1>0, <2>1, <2>2
  <2> QED BY <2>3
<1>3. PICK t \in Int : a + WORD = P * t + ((a + WORD) % P)
  BY <1>0, DivMod, Zenon
<1>4. P * (q + s) = P * q + P * s
  BY <1>0
<1>5. a % P \in 0 .. P - 1 /\ (a + WORD) % P \in 0 .. P - 1
  BY <1>0, DivMod, Zenon
<1>6. P * (q + s) + (a % P) = P * t + ((a + WORD) % P)
  <2> DEFINE x == P * q
             y == P * s
             u == P * t
             z == P * (q + s)
  <2>1. x \in Int /\ y \in Int /\ u \in Int /\ z \in Int /\ z = x + y
    BY <1>0, <1>4
  <2>2. a = x + (a % P) /\ WORD = y /\ a + WORD = u + ((a + WORD) % P)
    BY <1>1, <1>2, <1>3
  <2> HIDE DEF x, y, u, z
  <2>3. z + (a % P) = u + ((a + WORD) % P)
    BY <2>1, <2>2, <1>0, <1>5
  <2> QED BY <2>3 DEF z, u
<1>7. q + s \in Int
  OBVIOUS
<1>8. a % P = (a + WORD) % P
  BY ZenonT(60), <1>0, <1>5, <1>6, <1>7, OneRemainder
<1> QED BY <1>8 DEF P

\* Fewer than PIPESIZE bytes are in slots of their own.
LEMMA SlotsApart ==
  ASSUME NEW a \in Nat, NEW k \in Nat, 0 < k, k < PIPESIZE
  PROVE  (a + k) % PIPESIZE # a % PIPESIZE
<1> SUFFICES ASSUME (a + k) % PIPESIZE = a % PIPESIZE PROVE FALSE
  OBVIOUS
<1> DEFINE P == PIPESIZE
           m == a % P
<1>0. P \in Nat \ {0} /\ a + k \in Nat
  BY PipeAssumption
<1>1. m \in 0 .. P - 1 /\ m = (a + k) % P /\ k \in 0 .. P - 1 /\ 0 \in 0 .. P - 1
  BY <1>0, DivMod
<1>2. PICK q \in Int : a = P * q + m
  BY <1>0, DivMod, Zenon
<1>3. PICK s \in Int : a + k = P * s + m
  <2>1. \E s \in Int : a + k = P * s + ((a + k) % P)
    BY <1>0, DivMod, Zenon
  <2> QED BY <2>1, <1>1
<1> HIDE DEF m, P
<1>4. P * s \in Int /\ P * q \in Int
  BY <1>0
<1>5. P * s + 0 = P * q + k
  BY <1>1, <1>2, <1>3, <1>4
<1>6. 0 = k
  BY <1>0, <1>1, <1>5, OneRemainder
<1> QED BY <1>6

\* How many bytes are in the pipe.
LEMMA Counting ==
  ASSUME Counters
  PROVE  /\ Count \in Nat /\ Count <= PIPESIZE /\ Count = Distance(nread, nwrite)
         /\ Empty <=> Count = 0
         /\ ~Full => Count < PIPESIZE
<1>1. nwrite \in Word /\ nread \in Word /\ Count = Distance(nread, nwrite)
  BY CountIsDistance, Zenon DEF Counters, Count
<1>2. Distance(nread, nwrite) \in Nat /\ Distance(nread, nwrite) <= PIPESIZE
  BY <1>1, PipeAssumption DEF Word, Distance, Counters
<1>3. Empty <=> Distance(nread, nwrite) = 0
  BY <1>1, PipeAssumption DEF Word, Distance, Empty
<1>4. ~Full => Distance(nread, nwrite) < PIPESIZE
  <2>1. Plus(nread, PIPESIZE) = IF nread + PIPESIZE < WORD THEN nread + PIPESIZE
                                ELSE nread + PIPESIZE - WORD
    BY <1>1, PlusWord, PipeAssumption
  <2> QED BY <1>1, <1>2, <2>1, PipeAssumption DEF Word, Distance, Full
<1> QED BY <1>1, <1>2, <1>3, <1>4

\* The slot of the next byte is the one after the last byte.
LEMMA NextSlot ==
  ASSUME Counters
  PROVE  nwrite % PIPESIZE = (nread + Count) % PIPESIZE
<1>1. nwrite \in Nat /\ nread \in Nat /\ WORD \in Nat /\ Count = Distance(nread, nwrite)
  BY Counting, PipeAssumption DEF Counters, Word
<1>2. CASE nread <= nwrite
  <2>1. nread + Count = nwrite
    BY <1>1, <1>2 DEF Distance
  <2> QED BY <2>1
<1>3. CASE ~(nread <= nwrite)
  <2>1. nread + Count = nwrite + WORD
    BY <1>1, <1>3 DEF Distance
  <2> QED BY <2>1, <1>1, WrapsToSlot
<1> QED BY <1>2, <1>3

\* The second byte is in the slot where nread goes on.
LEMMA SecondSlot ==
  ASSUME Counters, NEW k \in Nat \ {0}
  PROVE  (Plus(nread, 1) + k - 1) % PIPESIZE = (nread + (k + 1) - 1) % PIPESIZE
<1>1. /\ nread \in Nat /\ WORD \in Nat /\ nread < WORD
      /\ Plus(nread, 1) = IF nread + 1 < WORD THEN nread + 1 ELSE nread + 1 - WORD
  BY PlusWord, PipeAssumption DEF Counters, Word
<1>2. CASE nread + 1 < WORD
  <2>1. Plus(nread, 1) + k - 1 = nread + (k + 1) - 1
    BY <1>1, <1>2
  <2> QED BY <2>1
<1>3. CASE ~(nread + 1 < WORD)
  <2>1. Plus(nread, 1) + k - 1 = k - 1 /\ nread + (k + 1) - 1 = (k - 1) + WORD /\ k - 1 \in Nat
    BY <1>1, <1>3
  <2> QED BY <2>1, WrapsToSlot
<1> QED BY <1>2, <1>3

\* The bytes of the pipe are a sequence.
LEMMA QueueShape ==
  ASSUME Counters, Contents
  PROVE  /\ Queue \in Seq(Byte) /\ Len(Queue) = Count
         /\ \A k \in 1 .. Count : Queue[k] = data[(nread + k - 1) % PIPESIZE]
<1>1. Count \in Nat /\ nread \in Nat
  BY Counting DEF Counters, Word
<1>2. \A k \in 1 .. Count : data[(nread + k - 1) % PIPESIZE] \in Byte
  <2>1. ASSUME NEW k \in 1 .. Count PROVE (nread + k - 1) % PIPESIZE \in Slots
    <3>1. nread + k - 1 \in Nat /\ PIPESIZE \in Nat \ {0}
      BY <1>1, PipeAssumption
    <3> QED BY ZenonT(60), <3>1, DivMod DEF Slots
  <2> QED BY <2>1 DEF Contents
<1>3. Queue = [k \in 1 .. Count |-> data[(nread + k - 1) % PIPESIZE]]
  BY DEF Queue
<1> HIDE DEF Queue
<1> QED BY <1>1, <1>2, <1>3

\* Queue is a sequence as long as Count says.
Shaped == Queue \in Seq(Byte) /\ Len(Queue) = Count

\* It is, in a state that satisfies the invariant.
LEMMA QueueShaped == Counters /\ Contents => Shaped
BY QueueShape DEF Shaped

\* The same after a step.
LEMMA QueueShapedNext == Counters' /\ Contents' => Shaped'
BY QueueShaped, PTL

\* pipewrite() puts its byte behind the others, and changes none of them.
LEMMA Putting ==
  ASSUME Counters, Contents, Counters', Contents', ~Full, NEW b \in Byte, data' = Put(b),
         nwrite' = Plus(nwrite, 1), nread' = nread
  PROVE  Queue' = Append(Queue, b) /\ Len(Queue) < PIPESIZE
<1>1. nwrite \in Word /\ nread \in Word /\ nread \in Nat /\ Count \in Nat /\ Count < PIPESIZE
  BY Counting DEF Counters, Word
<1>2. Count' = Count + 1
  <2>1. Count = Distance(nread, nwrite) /\ Count' = Distance(nread, Plus(nwrite, 1))
    BY <1>1, CountIsDistance DEF Counters, Count
  <2>2. Plus(nwrite, 1) = IF nwrite + 1 < WORD THEN nwrite + 1 ELSE nwrite + 1 - WORD
    BY <1>1, PlusWord, PipeAssumption
  <2> QED BY <1>1, <2>1, <2>2, PipeAssumption DEF Word, Distance
<1>3. /\ Queue \in Seq(Byte) /\ Len(Queue) = Count
      /\ \A k \in 1 .. Count : Queue[k] = data[(nread + k - 1) % PIPESIZE]
  BY QueueShape
<1>4. Queue' = [k \in 1 .. Count + 1 |-> data'[(nread + k - 1) % PIPESIZE]]
  BY <1>2 DEF Queue
<1> DEFINE s == (nread + Count) % PIPESIZE
<1>5. data' = [data EXCEPT ![s] = b] /\ s \in Slots
  <2>1. nread + Count \in Nat /\ PIPESIZE \in Nat \ {0}
    BY <1>1, PipeAssumption
  <2> QED BY ZenonT(60), <2>1, NextSlot, DivMod DEF Put, Slots
<1>6. ASSUME NEW k \in 1 .. Count
      PROVE  data'[(nread + k - 1) % PIPESIZE] = data[(nread + k - 1) % PIPESIZE]
  <2> DEFINE a == nread + k - 1
             d == Count - k + 1
  <2>1. a \in Nat /\ d \in Nat /\ 0 < d /\ d < PIPESIZE /\ a + d = nread + Count
    BY <1>1, PipeAssumption
  <2> HIDE DEF a, d
  <2>2. a % PIPESIZE # s /\ a % PIPESIZE \in Slots
    <3>1. (a + d) % PIPESIZE # a % PIPESIZE
      BY Zenon, <2>1, SlotsApart
    <3>2. s = (a + d) % PIPESIZE
      BY Zenon, <2>1
    <3>3. PIPESIZE \in Nat \ {0}
      BY PipeAssumption
    <3>4. a % PIPESIZE \in Slots
      BY Zenon, <2>1, <3>3, DivMod DEF Slots
    <3> QED BY Zenon, <3>1, <3>2, <3>4
  <2>3. data'[a % PIPESIZE] = data[a % PIPESIZE]
    BY <2>2, <1>5 DEF Contents
  <2> QED BY <2>3 DEF a
<1>7. data'[(nread + (Count + 1) - 1) % PIPESIZE] = b
  <2>1. nread + (Count + 1) - 1 = nread + Count
    BY <1>1
  <2> QED BY <2>1, <1>5 DEF Contents
<1> HIDE DEF s, Queue
<1>8. \A k \in 1 .. Count : Queue'[k] = Queue[k]
  <2>1. ASSUME NEW k \in 1 .. Count PROVE Queue'[k] = Queue[k]
    <3>1. k \in 1 .. Count + 1
      BY <1>1
    <3> QED BY SMTT(30), <3>1, <1>3, <1>4, <1>6
  <2> QED BY <2>1
<1>9. Queue'[Count + 1] = b
  BY <1>1, <1>4, <1>7
<1>10. Queue' \in Seq(Byte) /\ Len(Queue') = Count + 1
  BY <1>2, QueueShapedNext DEF Shaped
<1> QED BY <1>1, <1>3, <1>8, <1>9, <1>10

\* piperead() takes the first byte, and the others move up.
LEMMA Getting ==
  ASSUME Counters, Contents, Counters', Contents', ~Empty, data' = data,
         nread' = Plus(nread, 1), nwrite' = nwrite
  PROVE  /\ Queue # <<>> /\ Head(Queue) = data[nread % PIPESIZE]
         /\ Queue' = Tail(Queue)
<1>1. nwrite \in Word /\ nread \in Word /\ nread \in Nat /\ Count \in Nat /\ Count >= 1
  BY SMTT(30), Counting DEF Counters, Word
<1>2. Count' = Count - 1
  <2>1. Count = Distance(nread, nwrite) /\ Count' = Distance(Plus(nread, 1), nwrite)
    <3>1. Plus(nread, 1) \in Word
      BY DEF Counters
    <3> QED BY <1>1, <3>1, CountIsDistance DEF Counters, Count
  <2>2. Plus(nread, 1) = IF nread + 1 < WORD THEN nread + 1 ELSE nread + 1 - WORD
    BY <1>1, PlusWord, PipeAssumption
  <2> QED BY <1>1, <2>1, <2>2, PipeAssumption DEF Word, Distance, Empty
<1>3. /\ Queue \in Seq(Byte) /\ Len(Queue) = Count
      /\ \A k \in 1 .. Count : Queue[k] = data[(nread + k - 1) % PIPESIZE]
  BY QueueShape
<1>4. Queue' = [k \in 1 .. Count - 1 |-> data[(Plus(nread, 1) + k - 1) % PIPESIZE]]
  BY <1>2 DEF Queue
<1>5. Head(Queue) = data[nread % PIPESIZE] /\ Queue # <<>>
  <2>1. nread + 1 - 1 = nread
    BY <1>1
  <2>2. Queue[1] = data[nread % PIPESIZE]
    BY <1>1, <1>3, <2>1
  <2> QED BY <1>1, <1>3, <2>2
<1> HIDE DEF Queue
<1>6. ASSUME NEW k \in 1 .. Count - 1 PROVE Queue'[k] = Queue[k + 1]
  <2>1. k \in Nat \ {0} /\ k + 1 \in 1 .. Count
    BY <1>1
  <2>2. Queue'[k] = data[(Plus(nread, 1) + k - 1) % PIPESIZE]
    BY <1>4
  <2>3. Queue[k + 1] = data[(nread + (k + 1) - 1) % PIPESIZE]
    BY <1>3, <2>1
  <2> QED BY <2>1, <2>2, <2>3, SecondSlot
<1>7. Queue' \in Seq(Byte) /\ Len(Queue') = Count - 1
  BY <1>2, QueueShapedNext DEF Shaped
<1>8. /\ Tail(Queue) \in Seq(Byte) /\ Len(Tail(Queue)) = Count - 1
      /\ \A k \in 1 .. Count - 1 : Tail(Queue)[k] = Queue[k + 1]
  BY <1>1, <1>3
<1>9. \A k \in 1 .. Count - 1 : Queue'[k] = Tail(Queue)[k]
  BY <1>6, <1>8
<1>10. Queue' = Tail(Queue)
  <2> DEFINE t == Tail(Queue)
             u == Queue'
  <2>1. t \in Seq(Byte) /\ u \in Seq(Byte) /\ Len(t) = Len(u) /\ \A k \in 1 .. Len(u) : u[k] = t[k]
    BY <1>7, <1>8, <1>9
  <2> HIDE DEF t, u
  <2>2. u = t
    BY <2>1
  <2> QED BY <2>2 DEF t, u
<1> QED BY <1>5, <1>10

\* Every step of a process is a step of the queue, or leaves it alone.  A byte is read
\* only while the reader, which is in a call, has its end of the pipe open.
LEMMA StepRefines ==
  ASSUME IInv, Counters, Contents, Counters', Contents', NEW p \in Procs, Step(p) \/ User(p)
  PROVE  Fifo!Next \/ UNCHANGED <<Queue, out, readopen, writeopen>>
<1>1. CASE \E b \in Byte : WriteByte(p, b)
  <2>1. PICK b \in Byte : WriteByte(p, b)
    BY <1>1
  <2>2. /\ ~Full /\ data' = Put(b) /\ nwrite' = Plus(nwrite, 1) /\ nread' = nread
        /\ readopen /\ UNCHANGED <<out, readopen, writeopen>>
    BY <2>1, Zenon DEF WriteByte, Broken
  <2>3. Queue' = Append(Queue, b) /\ Len(Queue) < PIPESIZE
    BY <2>2, Putting
  <2>4. Fifo!Put
    BY <2>2, <2>3, Zenon DEF Fifo!Put
  <2> QED BY <2>4 DEF Fifo!Next
<1>2. CASE ReadByte(p)
  <2>1. /\ ~Empty /\ out' = data[nread % PIPESIZE] /\ nread' = Plus(nread, 1) /\ data' = data
        /\ nwrite' = nwrite /\ UNCHANGED <<readopen, writeopen>> /\ pc[p] = "copy"
    BY <1>2, Zenon DEF ReadByte
  <2>2. readopen
    BY <2>1, ZenonT(60) DEF IInv, Basics, Channels, Inside, Opened
  <2>3. Queue # <<>> /\ Head(Queue) = data[nread % PIPESIZE] /\ Queue' = Tail(Queue)
    BY <2>1, Getting
  <2>4. Fifo!Get
    BY <2>1, <2>2, <2>3, Zenon DEF Fifo!Get
  <2> QED BY <2>4 DEF Fifo!Next
<1>3. CASE ReadFault(p) \/ ReadDone(p)
  <2>1. out' = None /\ UNCHANGED <<data, nread, nwrite, readopen, writeopen>>
    BY <1>3, Zenon DEF ReadFault, ReadDone
  <2>2. Queue' = Queue
    BY <2>1 DEF Queue, Count
  <2>3. Fifo!Got
    BY <2>1, <2>2, Zenon DEF Fifo!Got
  <2> QED BY <2>3 DEF Fifo!Next
<1>4. CASE Close(p)
  <2>1. /\ p \in ends /\ UNCHANGED <<data, nread, nwrite, out>>
        /\ \/ p \in Writers /\ writeopen' = FALSE /\ UNCHANGED readopen
           \/ p \in Readers /\ readopen' = FALSE /\ UNCHANGED writeopen
           \/ UNCHANGED <<readopen, writeopen>>
    BY <1>4, Zenon DEF Close, Procs
  <2>2. Queue' = Queue
    BY <2>1 DEF Queue, Count
  <2>3. (p \in Writers => writeopen) /\ (p \in Readers => readopen)
    BY <2>1, Zenon DEF IInv, Basics, Opened
  <2> QED BY <2>1, <2>2, <2>3, Zenon DEF Fifo!Next, Fifo!CloseRead, Fifo!CloseWrite
<1>5. CASE UNCHANGED pipeVars
  BY <1>5 DEF pipeVars, Queue, Count
<1> QED
  BY <1>1, <1>2, <1>3, <1>4, <1>5, ZenonT(60) DEF Step, User, Acquire, Sleep, WriteFails, WriteFull,
     WriteDone, WriteFault, ReadKilled, ReadWaits, ReadStarts, Call, Kill

\* The pipe is a bounded FIFO queue of bytes with two ends, for any number of readers and
\* writers, any size of the buffer and however often the counters wrap around: piperead()
\* gives every byte that pipewrite() has taken, once and in order, and nothing else.
THEOREM Refinement == Spec => IsFifo
<1>1. Init => Fifo!Init
  <2> SUFFICES ASSUME Init PROVE Fifo!Init
    OBVIOUS
  <2>1. nread = 0 /\ nwrite = 0 /\ 0 \in Word
    BY PipeAssumption DEF Init, Word
  <2>2. Count = 0
    BY <2>1, CountIsDistance DEF Count, Distance
  <2>3. Queue = <<>>
    BY <2>2 DEF Queue
  <2> QED BY <2>3, Zenon DEF Init, Fifo!Init
<1> DEFINE J == IInv /\ Counters /\ Contents /\ WithinCall
<1>2. J /\ J' /\ [Next]_vars => [Fifo!Next]_(Fifo!vars)
  <2> SUFFICES ASSUME J, J', [Next]_vars PROVE [Fifo!Next]_(Fifo!vars)
    OBVIOUS
  <2>1. CASE Next
    BY <2>1, StepRefines, ZenonT(60) DEF Next, Fifo!vars
  <2>2. CASE UNCHANGED vars
    BY <2>2 DEF vars, pipeVars, Queue, Count, Fifo!vars
  <2> QED BY <2>1, <2>2
<1> QED
  BY <1>1, <1>2, BytesInv, PTL DEF Spec, IsFifo, Fifo!Spec
=============================================================================
