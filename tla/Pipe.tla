-------------------------------- MODULE Pipe --------------------------------
(***************************************************************************)
(* kernel/pipe.c: processes that read from, write to and close one pipe.   *)
(* pi->lock is held from acquire() to release(); the bytes are moved one   *)
(* per step, because killed() and the processes that are about to sleep    *)
(* are not protected by it.  wakeup() is one step: nobody can register on  *)
(* a channel of the pipe while the lock is held.                           *)
(***************************************************************************)
EXTENDS Naturals, Sequences, FiniteSets

CONSTANTS
  Readers, Writers,  (* the processes that hold the ends of the pipe       *)
  Byte,
  PIPESIZE,
  WORD,              (* 2^32 in the code: nread and nwrite wrap around     *)
  MAX_N,             (* bound: the length of a read or write,              *)
  Lengths,           (*   and the lengths that are asked for               *)
  MAX_KILLS          (* bound: the processes killed                        *)

None  == "none"

ASSUME PipeAssumption ==
  /\ PIPESIZE \in Nat \ {0} /\ WORD \in Nat /\ MAX_N \in Nat
  /\ Lengths \subseteq 0 .. MAX_N
  /\ PIPESIZE < WORD /\ WORD % PIPESIZE = 0
  /\ Readers \cap Writers = {} /\ None \notin Readers \cup Writers
  /\ Byte # {} /\ None \notin Byte

Procs == Readers \cup Writers
Slots == 0 .. PIPESIZE - 1
Word  == 0 .. WORD - 1
Junk  == CHOOSE b \in Byte : TRUE   \* what kalloc() fills the page with

VARIABLES
  data, nread, nwrite, readopen, writeopen, lock,  \* struct pipe
  freed,     \* kfree() was called
  out,       \* the byte that a reader has just been given
  ends,      \* the processes whose descriptor is open
  pc,        \* where a process is: idle (outside), acquire, loop, copy, presleep, asleep
  i, n,      \* its position in the call, and the length asked for
  chan,      \* p->chan: nread, nwrite or none
  killed,
  eof        \* history: its last call was a read of something that returned 0

pipeVars == <<data, nread, nwrite, readopen, writeopen, freed, out>>
vars == <<pipeVars, lock, ends, pc, i, n, chan, killed, eof>>

Init ==
  /\ data = [s \in Slots |-> Junk]
  /\ nread = 0 /\ nwrite = 0
  /\ readopen = TRUE /\ writeopen = TRUE
  /\ lock = None
  /\ freed = FALSE
  /\ out = None
  /\ ends = Procs
  /\ pc = [p \in Procs |-> "idle"]
  /\ i = [p \in Procs |-> 0]
  /\ n = [p \in Procs |-> 0]
  /\ chan = [p \in Procs |-> None]
  /\ killed = [p \in Procs |-> FALSE]
  /\ eof = [p \in Procs |-> FALSE]

-----------------------------------------------------------------------------
Plus(x, k) == (x + k) % WORD
Empty == nread = nwrite

Full  == nwrite = Plus(nread, PIPESIZE)

Goto(p, where) == pc' = [pc EXCEPT ![p] = where]

\* Faulty variant: a process that has registered and is not asleep yet is passed over.
wakeup_OnlyAsleep(ch, p, where) ==
  LET hit == {q \in Procs : chan[q] = ch /\ pc[q] = "asleep"}
  IN /\ chan' = [q \in Procs |-> IF q \in hit THEN None ELSE chan[q]]
     /\ pc' = [q \in Procs |-> IF q = p THEN where
                               ELSE IF q \in hit THEN "acquire" ELSE pc[q]]

\* wakeup(ch), by p, which goes on at `where': those asleep go on to take the lock.
wakeup(ch, p, where) ==
  LET hit == {q \in Procs : chan[q] = ch}
  IN /\ chan' = [q \in Procs |-> IF q \in hit THEN None ELSE chan[q]]
     /\ pc' = [q \in Procs |-> IF q = p THEN where
                               ELSE IF q \in hit /\ pc[q] = "asleep" THEN "acquire"
                               ELSE pc[q]]

Reset(f, p) == [f EXCEPT ![p] = 0]

\* The call of p returns, after wakeup(ch) and release().
Return(p, ch) ==
  /\ wakeup(ch, p, "idle")
  /\ lock' = None
  /\ i' = Reset(i, p) /\ n' = Reset(n, p)

\* The call returns -1, without a wakeup.
ReturnError(p) ==
  /\ lock' = None
  /\ i' = Reset(i, p) /\ n' = Reset(n, p)
  /\ Goto(p, "idle")
  /\ UNCHANGED chan

-----------------------------------------------------------------------------
\* A read or write of k bytes begins.  A killed process does not come back.
Call(p, k) ==
  /\ pc[p] = "idle" /\ p \in ends /\ ~killed[p]
  /\ n' = [n EXCEPT ![p] = k] /\ i' = Reset(i, p)
  /\ eof' = [eof EXCEPT ![p] = FALSE]
  /\ Goto(p, "acquire")
  /\ UNCHANGED <<pipeVars, lock, ends, chan, killed>>

Acquire(p) ==
  /\ pc[p] = "acquire" /\ lock = None
  /\ lock' = p
  /\ Goto(p, "loop")
  /\ UNCHANGED <<pipeVars, ends, i, n, chan, killed, eof>>

\* sleep(): not at all if the wakeup has come already.
Sleep(p) ==
  /\ pc[p] = "presleep"
  /\ Goto(p, IF chan[p] = None THEN "acquire" ELSE "asleep")
  /\ UNCHANGED <<pipeVars, lock, ends, i, n, chan, killed, eof>>

\* kkill(): a sleeping process wakes up, and stays registered on its channel.
Kill(p) ==
  /\ ~killed[p] /\ Cardinality({q \in Procs : killed[q]}) < MAX_KILLS
  /\ killed' = [killed EXCEPT ![p] = TRUE]
  /\ pc' = [pc EXCEPT ![p] = IF @ = "asleep" THEN "acquire" ELSE @]
  /\ UNCHANGED <<pipeVars, lock, ends, i, n, chan, eof>>

-----------------------------------------------------------------------------
\* pipewrite().

Broken(p) == ~readopen \/ killed[p]

WriteFails(p) ==
  /\ p \in Writers /\ pc[p] = "loop"
  /\ i[p] < n[p] /\ Broken(p)
  /\ ReturnError(p)
  /\ UNCHANGED <<pipeVars, ends, killed, eof>>

\* wakeup(&pi->nread), sleep_prepare(&pi->nwrite), release().
WriteFull(p) ==
  /\ p \in Writers /\ pc[p] = "loop"
  /\ i[p] < n[p] /\ ~Broken(p) /\ Full
  /\ LET hit == {q \in Procs : chan[q] = "nread"}
     IN /\ chan' = [q \in Procs |-> IF q = p THEN "nwrite"
                                    ELSE IF q \in hit THEN None ELSE chan[q]]
        /\ pc' = [q \in Procs |-> IF q = p THEN "presleep"
                                  ELSE IF q \in hit /\ pc[q] = "asleep" THEN "acquire"
                                  ELSE pc[q]]
  /\ lock' = None
  /\ UNCHANGED <<pipeVars, ends, i, n, killed, eof>>

\* Faulty variant: every byte goes to the same place.
Put_First(b) == [data EXCEPT ![0] = b]

Put(b) == [data EXCEPT ![nwrite % PIPESIZE] = b]

WriteByte(p, b) ==
  /\ p \in Writers /\ pc[p] = "loop"
  /\ i[p] < n[p] /\ ~Broken(p) /\ ~Full
  /\ data' = Put(b)
  /\ nwrite' = Plus(nwrite, 1)
  /\ i' = [i EXCEPT ![p] = @ + 1]
  /\ UNCHANGED <<nread, readopen, writeopen, freed, out, lock, ends, pc, n, chan, killed,
                 eof>>

\* copyin() fails.
WriteFault(p) ==
  /\ p \in Writers /\ pc[p] = "loop"
  /\ i[p] < n[p] /\ ~Broken(p) /\ ~Full
  /\ Return(p, "nread")
  /\ UNCHANGED <<pipeVars, ends, killed, eof>>

\* Faulty variant: the readers are not woken up.
WriteDone_Silent(p) ==
  /\ p \in Writers /\ pc[p] = "loop"
  /\ i[p] = n[p]
  /\ ReturnError(p)
  /\ UNCHANGED <<pipeVars, ends, killed, eof>>

WriteDone(p) ==
  /\ p \in Writers /\ pc[p] = "loop"
  /\ i[p] = n[p]
  /\ Return(p, "nread")
  /\ UNCHANGED <<pipeVars, ends, killed, eof>>

-----------------------------------------------------------------------------
\* piperead().

\* Faulty variant: a read does not wait for the writers.
MustWait_Never == FALSE

MustWait == Empty /\ writeopen

ReadKilled(p) ==
  /\ p \in Readers /\ pc[p] = "loop"
  /\ MustWait /\ killed[p]
  /\ ReturnError(p)
  /\ UNCHANGED <<pipeVars, ends, killed, eof>>

ReadWaits(p) ==
  /\ p \in Readers /\ pc[p] = "loop"
  /\ MustWait /\ ~killed[p]
  /\ chan' = [chan EXCEPT ![p] = "nread"]
  /\ lock' = None
  /\ Goto(p, "presleep")
  /\ UNCHANGED <<pipeVars, ends, i, n, killed, eof>>

ReadStarts(p) ==
  /\ p \in Readers /\ pc[p] = "loop"
  /\ ~MustWait
  /\ Goto(p, "copy")
  /\ UNCHANGED <<pipeVars, lock, ends, i, n, chan, killed, eof>>

ReadByte(p) ==
  /\ pc[p] = "copy"
  /\ i[p] < n[p] /\ ~Empty
  /\ out' = data[nread % PIPESIZE]
  /\ nread' = Plus(nread, 1)
  /\ i' = [i EXCEPT ![p] = @ + 1]
  /\ UNCHANGED <<data, nwrite, readopen, writeopen, freed, lock, ends, pc, n, chan, killed,
                 eof>>

\* copyout() fails.
ReadFault(p) ==
  /\ pc[p] = "copy"
  /\ i[p] < n[p] /\ ~Empty
  /\ Return(p, "nwrite")
  /\ out' = None
  /\ UNCHANGED <<data, nread, nwrite, readopen, writeopen, freed, ends, killed, eof>>

ReadDone(p) ==
  /\ pc[p] = "copy"
  /\ i[p] = n[p] \/ Empty
  /\ Return(p, "nwrite")
  /\ eof' = [eof EXCEPT ![p] = i[p] = 0 /\ n[p] > 0]
  /\ out' = None
  /\ UNCHANGED <<data, nread, nwrite, readopen, writeopen, freed, ends, killed>>

-----------------------------------------------------------------------------
OtherClosed(p) == ~(IF p \in Writers THEN readopen ELSE writeopen)

\* A process closes its descriptor, or exits.  pipeclose() is for the last of an end.
Close(p) ==
  LET mine == IF p \in Writers THEN Writers ELSE Readers
  IN /\ pc[p] = "idle" /\ p \in ends /\ lock = None
     /\ ends' = ends \ {p}
     /\ IF ends \cap mine = {p}
        THEN /\ IF p \in Writers
                THEN writeopen' = FALSE /\ wakeup("nread", p, "idle") /\ UNCHANGED readopen
                ELSE readopen' = FALSE /\ wakeup("nwrite", p, "idle") /\ UNCHANGED writeopen
             /\ freed' = OtherClosed(p)
        ELSE UNCHANGED <<readopen, writeopen, freed, chan, pc>>
     /\ UNCHANGED <<data, nread, nwrite, out, lock, i, n, killed, eof>>

Step(p) ==
  \/ Acquire(p) \/ Sleep(p)
  \/ WriteFails(p) \/ WriteFull(p) \/ WriteDone(p) \/ WriteFault(p)
  \/ \E b \in Byte : WriteByte(p, b)
  \/ ReadKilled(p) \/ ReadWaits(p) \/ ReadStarts(p) \/ ReadByte(p)
  \/ ReadFault(p) \/ ReadDone(p)

User(p) == (\E k \in Lengths : Call(p, k)) \/ Kill(p) \/ Close(p)

Next == \E p \in Procs : Step(p) \/ User(p)

Spec == Init /\ [][Next]_vars

\* A process in the kernel runs on, and takes the lock if it is free again and again.
FairSpec == Spec /\ \A p \in Procs : SF_vars(Step(p))

-----------------------------------------------------------------------------
\* The bytes in the pipe: nwrite - nread of them, modulo WORD.
Count == (nwrite + WORD - nread) % WORD
Queue == [k \in 1 .. Count |-> data[(nread + k - 1) % PIPESIZE]]

\* Types; at most PIPESIZE bytes are in the pipe, also when a counter has wrapped.
TypeOK ==
  /\ data \in [Slots -> Byte]
  /\ nread \in Word /\ nwrite \in Word /\ Count <= PIPESIZE
  /\ readopen \in BOOLEAN /\ writeopen \in BOOLEAN /\ freed \in BOOLEAN
  /\ out \in Byte \cup {None}
  /\ lock \in Procs \cup {None} /\ ends \subseteq Procs
  /\ pc \in [Procs -> {"idle", "acquire", "loop", "copy", "presleep", "asleep"}]
  /\ i \in [Procs -> 0 .. MAX_N] /\ n \in [Procs -> 0 .. MAX_N]
  /\ chan \in [Procs -> {None, "nread", "nwrite"}]
  /\ killed \in [Procs -> BOOLEAN]
  /\ eof \in [Procs -> BOOLEAN]

\* A process that sleeps, or is about to, has something to wait for whenever the lock
\* is free: a writer a full pipe with a reader, a reader an empty pipe with a writer.
\* No order of wakeup(), sleep_prepare() and sleep() loses a wakeup.  After a writer
\* was killed this is only true of the writers: pipewrite() returns without a wakeup
\* then, and what it has written may find the readers asleep.
WriterKilled == \E p \in Writers : killed[p]
Waits(p) == pc[p] = "asleep" \/ (pc[p] = "presleep" /\ chan[p] # None)
NoLostWakeup ==
  lock = None => \A p \in Procs : Waits(p) =>
    /\ p \in Writers => Full /\ readopen
    /\ p \in Readers /\ ~WriterKilled => Empty /\ writeopen

\* The pipe is freed when both ends are closed, once, and nobody is in it then.
FreedLast ==
  /\ freed <=> ~readopen /\ ~writeopen
  /\ freed => lock = None /\ \A p \in Procs : pc[p] = "idle"

\* piperead() of a positive length returns 0 only at the end: nothing is left in the
\* pipe and nobody can write any more.
EofIsFinal ==
  \A p \in Readers : eof[p] => Empty /\ ~writeopen

\* The pipe is a bounded FIFO queue of bytes: every step of pipewrite(), piperead()
\* and pipeclose() puts a byte, gets the oldest, closes an end, or does nothing to it.
Fifo == INSTANCE PipeFifo WITH queue <- Queue, Capacity <- PIPESIZE
IsFifo == Fifo!Spec

\* A reader that waits goes on when there is something to read or no writer is left,
\* if it is the only reader and no writer is killed.
ReaderServed ==
  \A p \in Readers :
    (Readers = {p} /\ Waits(p) /\ (~Empty \/ ~writeopen)) ~> (~Waits(p) \/ WriterKilled)
=============================================================================
