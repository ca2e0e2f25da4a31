----------------------------- MODULE MlfqQueues -----------------------------
(***************************************************************************)
(* The MLFQ scheduler of kernel/proc.c on one CPU, with the queues spelled *)
(* out: `order' lists the processes of the pool by arrival number, and a   *)
(* level's queue is the processes of that level in that order.  Nothing    *)
(* interleaves with an interrupt handler or with the scan on one CPU, so   *)
(* each is one step.  The state space is finite without a bound, which     *)
(* Mlfq's growing arrival numbers do not allow: this module asks how long  *)
(* a process waits for the CPU.                                            *)
(***************************************************************************)
EXTENDS Naturals, Sequences, SequencesExt, FiniteSetsExt

CONSTANTS NPROC, MLFQ_LEVELS, BOOST_INTERVAL, mlfq_slice

Procs  == 1 .. NPROC
Levels == 0 .. MLFQ_LEVELS - 1
NoProc == 0
States == {"UNUSED", "SLEEPING", "RUNNABLE", "RUNNING", "ZOMBIE"}
Chans  == {"ticks", "other"}

VARIABLES
  state, priority, ticks_used, chan,  \* struct proc
  order,    \* the pool by mlfq_qtime
  running,  \* the process on the CPU
  age       \* ticks - last_boost, up to BOOST_INTERVAL: more makes no difference
            \* before the subtraction wraps, after 2^32 ticks without a process

vars == <<state, priority, ticks_used, chan, order, running, age>>

Init ==
  /\ state = [p \in Procs |-> IF p = 1 THEN "RUNNABLE" ELSE "UNUSED"]
  /\ priority = [p \in Procs |-> 0]
  /\ ticks_used = [p \in Procs |-> 0]
  /\ chan = [p \in Procs |-> "other"]
  /\ order = <<1>>
  /\ running = NoProc
  /\ age = 0

-----------------------------------------------------------------------------
Pool == {p \in Procs : state[p] \in {"SLEEPING", "RUNNABLE", "RUNNING"}}
Ready == {p \in Procs : state[p] = "RUNNABLE"}

\* The processes of S are stamped one after the other, in slot order.
Enqueue(o, S) == SelectSeq(o, LAMBDA p : p \notin S) \o SetToSortSeq(S, <)

\* The scan: the first process, in order, of the highest level that has one.
Highest == Min({priority[p] : p \in Ready})
Best == SelectSeq(order, LAMBDA p : p \in Ready /\ priority[p] = Highest)[1]

Dispatch ==
  /\ running = NoProc /\ Ready # {}
  /\ running' = Best
  /\ state' = [state EXCEPT ![Best] = "RUNNING"]
  /\ UNCHANGED <<priority, ticks_used, chan, order, age>>

\* wakeup(ch), as the effect on a process.
Woken(ch) == {p \in Procs : state[p] = "SLEEPING" /\ chan[p] = ch}

\* mlfq_boost_all() is due, and what it does to a level and to a tick count.
Boosts == age + 1 >= BOOST_INTERVAL
\* Faulty variant: the boost stamps the processes and leaves them on their levels.
Level_Stays(p) == priority[p]

Level(p) == IF Boosts /\ state[p] # "UNUSED" THEN 0 ELSE priority[p]
Used(p) == IF Boosts /\ state[p] # "UNUSED" THEN 0 ELSE ticks_used[p]

Demoted(l) == IF l < MLFQ_LEVELS - 1 THEN l + 1 ELSE l

\* clockintr(), then mlfq_tick() for the running process: boost, charge, yield.
Tick ==
  LET r       == running
      woken   == Woken("ticks")
      awake   == Enqueue(order, woken)
      boosted == IF Boosts THEN Enqueue(awake, Pool) ELSE awake
      expired == Used(r) + 1 >= mlfq_slice[Level(r)]
      higher  == \E p \in Ready \cup woken : Level(p) < Level(r)
      leaves  == expired \/ higher
  IN /\ r # NoProc
     /\ age' = IF Boosts THEN 0 ELSE age + 1
     /\ state' = [p \in Procs |-> IF p \in woken \/ (p = r /\ leaves) THEN "RUNNABLE"
                                  ELSE state[p]]
     /\ priority' = [p \in Procs |-> IF p = r /\ expired THEN Demoted(Level(r))
                                     ELSE Level(p)]
     /\ ticks_used' = [p \in Procs |->
          IF p = r THEN IF expired THEN 0 ELSE Used(r) + 1
          ELSE IF p \in woken THEN 0 ELSE Used(p)]
     /\ order' = IF expired THEN Enqueue(boosted, {r}) ELSE boosted
     /\ running' = IF leaves THEN NoProc ELSE r
     /\ UNCHANGED chan

\* clockintr() on an idle CPU: the sleepers wake, and mlfq_tick() is not called.
\* A tick lasts far longer than a dispatch, so none falls in the middle of one.
IdleTick ==
  /\ running = NoProc /\ Ready = {}
  /\ age' = IF Boosts THEN age ELSE age + 1
  /\ state' = [p \in Procs |-> IF p \in Woken("ticks") THEN "RUNNABLE" ELSE state[p]]
  /\ ticks_used' = [p \in Procs |-> IF p \in Woken("ticks") THEN 0 ELSE ticks_used[p]]
  /\ order' = Enqueue(order, Woken("ticks"))
  /\ UNCHANGED <<priority, chan, running>>

\* wakeup() by a device or by the running process.
Wakeup ==
  /\ Woken("other") # {}
  /\ state' = [p \in Procs |-> IF p \in Woken("other") THEN "RUNNABLE" ELSE state[p]]
  /\ ticks_used' = [p \in Procs |-> IF p \in Woken("other") THEN 0 ELSE ticks_used[p]]
  /\ order' = Enqueue(order, Woken("other"))
  /\ UNCHANGED <<priority, chan, running, age>>

Sleep(ch) ==
  /\ running # NoProc
  /\ state' = [state EXCEPT ![running] = "SLEEPING"]
  /\ chan' = [chan EXCEPT ![running] = ch]
  /\ running' = NoProc
  /\ UNCHANGED <<priority, ticks_used, order, age>>

\* kkill() of a sleeping process.
Kill(q) ==
  /\ running # NoProc /\ state[q] = "SLEEPING"
  /\ state' = [state EXCEPT ![q] = "RUNNABLE"]
  /\ ticks_used' = [ticks_used EXCEPT ![q] = 0]
  /\ order' = Enqueue(order, {q})
  /\ UNCHANGED <<priority, chan, running, age>>

\* kfork(): a new process starts on level 0 with its whole slice, in the first free
\* slot.
Fork(np) ==
  /\ running # NoProc /\ state[np] = "UNUSED" /\ \A q \in 1 .. np - 1 : state[q] # "UNUSED"
  /\ state' = [state EXCEPT ![np] = "RUNNABLE"]
  /\ priority' = [priority EXCEPT ![np] = 0]
  /\ ticks_used' = [ticks_used EXCEPT ![np] = 0]
  /\ order' = Enqueue(order, {np})
  /\ UNCHANGED <<chan, running, age>>

Exit ==
  /\ running \notin {NoProc, 1}
  /\ state' = [state EXCEPT ![running] = "ZOMBIE"]
  /\ order' = SelectSeq(order, LAMBDA p : p # running)
  /\ running' = NoProc
  /\ UNCHANGED <<priority, ticks_used, chan, age>>

Reap(q) ==
  /\ running # NoProc /\ state[q] = "ZOMBIE"
  /\ state' = [state EXCEPT ![q] = "UNUSED"]
  /\ UNCHANGED <<priority, ticks_used, chan, order, running, age>>

Next ==
  \/ Dispatch \/ Tick \/ IdleTick \/ Wakeup \/ Exit
  \/ \E ch \in Chans : Sleep(ch)
  \/ \E q \in Procs : Kill(q) \/ Fork(q) \/ Reap(q)

\* The scheduler loops, and the periodic timer finds a process on the CPU again
\* and again, if processes run again and again.
Fairness == WF_vars(Dispatch) /\ SF_vars(Tick)

Spec == Init /\ [][Next]_vars /\ Fairness

-----------------------------------------------------------------------------
\* Types, and the queues are exactly the processes of the pool.
TypeOK ==
  /\ state \in [Procs -> States]
  /\ priority \in [Procs -> Levels]
  /\ \A p \in Procs : ticks_used[p] \in 0 .. mlfq_slice[priority[p]] - 1
  /\ chan \in [Procs -> Chans]
  /\ Len(order) = Cardinality(Pool) /\ ToSet(order) = Pool
  /\ running \in Procs \cup {NoProc}
  /\ \A p \in Procs : state[p] = "RUNNING" <=> p = running
  /\ age \in 0 .. BOOST_INTERVAL

\* The processes that want the CPU are no more than get their first slice between
\* two boosts.  In the code this is 48 \div 1 + 1, and NPROC is 64.
MaxBusy == BOOST_INTERVAL \div mlfq_slice[0] + 1
FewBusy == Len(SelectSeq(order, LAMBDA p : state[p] # "SLEEPING")) <= MaxBusy

\* mlfq_boost_all() is "the anti-starvation priority boost": on one CPU a process
\* that is RUNNABLE gets the CPU, however the others compute, block and fork, as long
\* as no more than MaxBusy processes want it.  (With more, each boost re-stamps the
\* processes in slot order before the last of them has had its turn.)
NoStarvation ==
  \A p \in Procs :
    state[p] = "RUNNABLE" /\ FewBusy ~> state[p] # "RUNNABLE" \/ ~FewBusy

=============================================================================
