-------------------------------- MODULE Mlfq --------------------------------
(***************************************************************************)
(* The multi-level feedback queue scheduler of the xv6 kernel (the code    *)
(* compiled with SCHEDULER=MLFQ): kernel/proc.c and kernel/trap.c.         *)
(*                                                                         *)
(* Every CPU runs kernel code of its own.  What it does while it holds one *)
(* p->lock (or mlfq_boost_lock, or tickslock) is one atomic step; between  *)
(* two such steps the other CPUs may take theirs.  There are no queues:    *)
(* the scheduler scans the process table, one lock at a time, for the      *)
(* RUNNABLE process with the least pair (mlfq_priority, mlfq_qtime).       *)
(*                                                                         *)
(* sleep_prepare() and sleep() are one step here (Proc splits them); a     *)
(* channel is what a process sleeps on: &ticks, or any other.              *)
(***************************************************************************)
EXTENDS Integers, FiniteSets

CONSTANTS
  NPROC,          (* slots of the process table                             *)
  NCPU,           (* CPUs; CPU 0 counts the ticks                           *)
  MLFQ_LEVELS,    (* priority levels, 0 the highest                         *)
  BOOST_INTERVAL, (* ticks between two boosts                               *)
  mlfq_slice,     (* time slice of every level                              *)
  TICK_MOD,       (* 2^32 in the code: ticks is a uint                      *)
  MAX_SEQ         (* bound: no new interrupt, wakeup or fork is started     *)
                  (* once seq_counter has reached it                        *)

Procs  == 1 .. NPROC
Cpus   == 0 .. NCPU - 1
Levels == 0 .. MLFQ_LEVELS - 1

ASSUME MlfqAssumption ==
  /\ NPROC \in Nat \ {0}
  /\ NCPU \in Nat \ {0}
  /\ MLFQ_LEVELS \in Nat \ {0}
  /\ BOOST_INTERVAL \in Nat \ {0}
  /\ mlfq_slice \in [Levels -> Nat \ {0}]
  /\ TICK_MOD \in Nat \ {0}
  /\ MAX_SEQ \in Nat

NoProc == 0
Chans  == {"ticks", "other"}
NoChan == "none"
States == {"UNUSED", "USED", "SLEEPING", "RUNNABLE", "RUNNING", "ZOMBIE"}

\* Where a CPU is.  sched: at the head of scheduler()'s loop; scan: in its scan
\* of the table; run: in a process, interrupts on; wake: in wakeup()'s loop;
\* tick .. yield: inside mlfq_tick(), interrupts off.
Pcs == {"sched", "scan", "run", "wake", "tick", "check", "boost", "account",
        "preempt", "higher", "yield"}

VARIABLES
  state, priority, ticks_used, qtime, chan,   \* struct proc
  child,          \* the slot a process has allocated in kfork() and not readied
  seq_counter,    \* mlfq_seq_counter
  ticks, last_boost,
  pc, cur,        \* per CPU: where it is, and c->proc
  idx,            \* per CPU: the slot the current table loop has reached
  best, best_qtime, \* per CPU: locals of scheduler()
  prio,           \* per CPU: best_prio, or the argument of
                  \* mlfq_higher_priority_exists()
  now,            \* per CPU: local of mlfq_maybe_boost()
  wchan,          \* per CPU: argument of wakeup()
  steady,         \* history: the processes that stayed RUNNABLE, with the same
                  \* priority and qtime, since the CPU's scan began
  gap             \* history: ticks counted since the last boost was started,
                  \* up to BOOST_INTERVAL

procVars == <<state, priority, ticks_used, qtime, chan, child, seq_counter>>
timeVars == <<ticks, last_boost>>
pickVars == <<best, best_qtime, prio>>
cpuVars  == <<pc, cur, idx, pickVars, now, wchan>>
histVars == <<steady, gap>>
vars     == <<procVars, timeVars, cpuVars, histVars>>

-----------------------------------------------------------------------------
\* userinit(): the first process is RUNNABLE in slot 1; every CPU enters
\* scheduler().
Init ==
  /\ state = [p \in Procs |-> IF p = 1 THEN "RUNNABLE" ELSE "UNUSED"]
  /\ priority = [p \in Procs |-> 0]
  /\ ticks_used = [p \in Procs |-> 0]
  /\ qtime = [p \in Procs |-> IF p = 1 THEN 1 ELSE 0]
  /\ chan = [p \in Procs |-> NoChan]
  /\ child = [p \in Procs |-> NoProc]
  /\ seq_counter = 2
  /\ ticks = 0
  /\ last_boost = 0
  /\ pc = [c \in Cpus |-> "sched"]
  /\ cur = [c \in Cpus |-> NoProc]
  /\ idx = [c \in Cpus |-> 1]
  /\ best = [c \in Cpus |-> NoProc]
  /\ best_qtime = [c \in Cpus |-> 0]
  /\ prio = [c \in Cpus |-> MLFQ_LEVELS]
  /\ now = [c \in Cpus |-> 0]
  /\ wchan = [c \in Cpus |-> NoChan]
  /\ steady = [c \in Cpus |-> {}]
  /\ gap = 0

Goto(c, to) == pc' = [pc EXCEPT ![c] = to]

\* One iteration of a loop over the table: on to the next slot, or to `after'.
Loop(c, at, after) ==
  /\ idx' = [idx EXCEPT ![c] = IF idx[c] = NPROC THEN 1 ELSE idx[c] + 1]
  /\ Goto(c, IF idx[c] = NPROC THEN after ELSE at)

\* The head of the loop again, with the locals forgotten.
BackToScheduler(c) ==
  /\ Goto(c, "sched")
  /\ idx' = [idx EXCEPT ![c] = 1]
  /\ best' = [best EXCEPT ![c] = NoProc]
  /\ best_qtime' = [best_qtime EXCEPT ![c] = 0]
  /\ prio' = [prio EXCEPT ![c] = MLFQ_LEVELS]

\* Faulty variant: the tick count is kept.
mlfq_enqueue_KeepsTicks(p) ==
  /\ UNCHANGED ticks_used
  /\ qtime' = [qtime EXCEPT ![p] = seq_counter]
  /\ seq_counter' = seq_counter + 1

mlfq_enqueue(p) ==
  /\ ticks_used' = [ticks_used EXCEPT ![p] = 0]
  /\ qtime' = [qtime EXCEPT ![p] = seq_counter]
  /\ seq_counter' = seq_counter + 1

NoEnqueue == UNCHANGED <<ticks_used, qtime, seq_counter>>

-----------------------------------------------------------------------------
\* scheduler()

SchedStart(c) ==
  /\ pc[c] = "sched"
  /\ Goto(c, "scan")
  /\ UNCHANGED <<procVars, timeVars, cur, idx, pickVars, now, wchan>>

\* Faulty variant: the arrival numbers are not compared.
Beats_NoFifo(c, p) == best[c] = NoProc \/ priority[p] < prio[c]

\* The test of the scan: p beats the candidate found so far.
Beats(c, p) ==
  \/ best[c] = NoProc
  \/ priority[p] < prio[c]
  \/ priority[p] = prio[c] /\ qtime[p] < best_qtime[c]

ScanStep(c) ==
  /\ pc[c] = "scan" /\ idx[c] \in Procs
  /\ LET p == idx[c]
     IN IF state[p] = "RUNNABLE" /\ Beats(c, p)
        THEN /\ best' = [best EXCEPT ![c] = p]
             /\ prio' = [prio EXCEPT ![c] = priority[p]]
             /\ best_qtime' = [best_qtime EXCEPT ![c] = qtime[p]]
        ELSE UNCHANGED pickVars
  /\ idx' = [idx EXCEPT ![c] = @ + 1]
  /\ UNCHANGED <<procVars, timeVars, pc, cur, now, wchan>>

\* The scan found nothing: wfi, and round again.
Idle(c) ==
  /\ pc[c] = "scan" /\ idx[c] = NPROC + 1 /\ best[c] = NoProc
  /\ BackToScheduler(c)
  /\ UNCHANGED <<procVars, timeVars, cur, now, wchan>>

\* Faulty variant: no second test under the candidate's lock.
StillRunnable_NoTest(p) == TRUE

StillRunnable(p) == state[p] = "RUNNABLE"

\* The candidate is switched to if it is still RUNNABLE.
Dispatch(c) ==
  /\ pc[c] = "scan" /\ idx[c] = NPROC + 1 /\ best[c] # NoProc
  /\ StillRunnable(best[c])
  /\ state' = [state EXCEPT ![best[c]] = "RUNNING"]
  /\ cur' = [cur EXCEPT ![c] = best[c]]
  /\ Goto(c, "run")
  /\ idx' = [idx EXCEPT ![c] = 1]
  /\ best' = [best EXCEPT ![c] = NoProc]
  /\ best_qtime' = [best_qtime EXCEPT ![c] = 0]
  /\ prio' = [prio EXCEPT ![c] = MLFQ_LEVELS]
  /\ UNCHANGED <<priority, chan, child, timeVars, now, wchan>>
  /\ NoEnqueue

DispatchLost(c) ==
  /\ pc[c] = "scan" /\ idx[c] = NPROC + 1 /\ best[c] # NoProc
  /\ ~StillRunnable(best[c])
  /\ BackToScheduler(c)
  /\ UNCHANGED <<procVars, timeVars, cur, now, wchan>>

-----------------------------------------------------------------------------
\* The timer interrupt: clockintr(), then mlfq_tick() if a process was running.

ClockIntr(c) ==
  /\ pc[c] \in {"sched", "run"}
  /\ seq_counter < MAX_SEQ
  /\ IF c = 0
     THEN /\ ticks' = (ticks + 1) % TICK_MOD
          /\ wchan' = [wchan EXCEPT ![c] = "ticks"]
          /\ Goto(c, "wake")
     ELSE /\ cur[c] # NoProc
          /\ Goto(c, "tick")
          /\ UNCHANGED <<ticks, wchan>>
  /\ UNCHANGED <<procVars, last_boost, cur, idx, pickVars, now>>

\* Where wakeup() returns to.
AfterWakeup(c) ==
  IF cur[c] = NoProc THEN "sched" ELSE IF wchan[c] = "ticks" THEN "tick" ELSE "run"

\* One iteration of wakeup()'s loop.
WakeStep(c) ==
  /\ pc[c] = "wake"
  /\ LET p == idx[c]
     IN /\ chan' = [chan EXCEPT ![p] = IF @ = wchan[c] THEN NoChan ELSE @]
        /\ IF chan[p] = wchan[c] /\ state[p] = "SLEEPING"
           THEN /\ mlfq_enqueue(p)
                /\ state' = [state EXCEPT ![p] = "RUNNABLE"]
           ELSE NoEnqueue /\ UNCHANGED state
  /\ Loop(c, "wake", AfterWakeup(c))
  /\ wchan' = IF idx[c] = NPROC THEN [wchan EXCEPT ![c] = NoChan] ELSE wchan
  /\ UNCHANGED <<priority, child, timeVars, cur, pickVars, now>>

\* mlfq_maybe_boost(): ticks is read under tickslock, which clockintr() keeps
\* during its wakeup() ...
ReadTicks(c) ==
  /\ pc[c] = "tick"
  /\ \A d \in Cpus : wchan[d] # "ticks"
  /\ now' = [now EXCEPT ![c] = ticks]
  /\ Goto(c, "check")
  /\ UNCHANGED <<procVars, timeVars, cur, idx, pickVars, wchan>>

\* ... and compared under mlfq_boost_lock, in unsigned arithmetic.
CheckBoost(c) ==
  /\ pc[c] = "check"
  /\ IF (now[c] - last_boost) % TICK_MOD >= BOOST_INTERVAL
     THEN last_boost' = now[c] /\ Goto(c, "boost")
     ELSE UNCHANGED last_boost /\ Goto(c, "account")
  /\ now' = [now EXCEPT ![c] = 0]
  /\ UNCHANGED <<procVars, ticks, cur, idx, pickVars, wchan>>

\* One iteration of mlfq_boost_all().
BoostStep(c) ==
  /\ pc[c] = "boost"
  /\ LET p == idx[c]
     IN IF state[p] # "UNUSED"
        THEN priority' = [priority EXCEPT ![p] = 0] /\ mlfq_enqueue(p)
        ELSE UNCHANGED priority /\ NoEnqueue
  /\ Loop(c, "boost", "account")
  /\ UNCHANGED <<state, chan, child, timeVars, cur, pickVars, now, wchan>>

Demoted(l) == IF l < MLFQ_LEVELS - 1 THEN l + 1 ELSE l

\* mlfq_tick(): charge the tick, demote when the slice is used up.
Account(c) ==
  /\ pc[c] = "account"
  /\ LET p == cur[c]
     IN IF ticks_used[p] + 1 >= mlfq_slice[priority[p]]
        THEN /\ priority' = [priority EXCEPT ![p] = Demoted(@)]
             /\ mlfq_enqueue(p)
             /\ Goto(c, "yield")
        ELSE /\ ticks_used' = [ticks_used EXCEPT ![p] = @ + 1]
             /\ Goto(c, "preempt")
             /\ UNCHANGED <<priority, qtime, seq_counter>>
  /\ UNCHANGED <<state, chan, child, timeVars, cur, idx, pickVars, now, wchan>>

\* The argument of mlfq_higher_priority_exists() is read without the lock.
ReadPriority(c) ==
  /\ pc[c] = "preempt"
  /\ prio' = [prio EXCEPT ![c] = priority[cur[c]]]
  /\ Goto(c, "higher")
  /\ UNCHANGED <<procVars, timeVars, cur, idx, best, best_qtime, now, wchan>>

\* One iteration of mlfq_higher_priority_exists().
HigherStep(c) ==
  /\ pc[c] = "higher"
  /\ LET hit == state[idx[c]] = "RUNNABLE" /\ priority[idx[c]] < prio[c]
         end == hit \/ idx[c] = NPROC
     IN /\ idx' = [idx EXCEPT ![c] = IF end THEN 1 ELSE @ + 1]
        /\ prio' = [prio EXCEPT ![c] = IF end THEN MLFQ_LEVELS ELSE @]
        /\ Goto(c, IF hit THEN "yield" ELSE IF end THEN "run" ELSE "higher")
  /\ UNCHANGED <<procVars, timeVars, cur, best, best_qtime, now, wchan>>

\* The CPU leaves its process, whose state becomes s: sched() and the rest of
\* scheduler()'s loop body.
Leave(c, s) ==
  /\ state' = [state EXCEPT ![cur[c]] = s]
  /\ cur' = [cur EXCEPT ![c] = NoProc]
  /\ Goto(c, "sched")
  /\ UNCHANGED <<idx, pickVars>>

\* yield()
Yield(c) ==
  /\ pc[c] = "yield"
  /\ Leave(c, "RUNNABLE")
  /\ UNCHANGED <<priority, chan, child, timeVars, now, wchan>>
  /\ NoEnqueue

-----------------------------------------------------------------------------
\* What the running process does to the scheduler's state.

InProcess(c) == pc[c] = "run" /\ child[cur[c]] = NoProc

\* sleep_prepare(ch) and sleep()
Sleep(c, ch) ==
  /\ InProcess(c)
  /\ chan' = [chan EXCEPT ![cur[c]] = ch]
  /\ Leave(c, "SLEEPING")
  /\ UNCHANGED <<priority, child, timeVars, now, wchan>>
  /\ NoEnqueue

\* wakeup() of a channel other than &ticks: by a process, or by a device's
\* interrupt, which an idle CPU takes at the head of its loop.
Wakeup(c) ==
  /\ pc[c] = "sched" \/ InProcess(c)
  /\ seq_counter < MAX_SEQ
  /\ wchan' = [wchan EXCEPT ![c] = "other"]
  /\ Goto(c, "wake")
  /\ UNCHANGED <<procVars, timeVars, cur, idx, pickVars, now>>

\* kkill() of a sleeping process: p->chan stays.
Kill(c, q) ==
  /\ InProcess(c)
  /\ seq_counter < MAX_SEQ
  /\ state[q] = "SLEEPING"
  /\ mlfq_enqueue(q)
  /\ state' = [state EXCEPT ![q] = "RUNNABLE"]
  /\ UNCHANGED <<priority, chan, child, timeVars, cpuVars>>

\* kfork(): allocproc() takes a slot that is UNUSED when its scan gets there (an
\* earlier one may have become so since) ...
ForkAlloc(c, np) ==
  /\ InProcess(c)
  /\ seq_counter < MAX_SEQ
  /\ state[np] = "UNUSED"
  /\ state' = [state EXCEPT ![np] = "USED"]
  /\ priority' = [priority EXCEPT ![np] = 0]
  /\ ticks_used' = [ticks_used EXCEPT ![np] = 0]
  /\ qtime' = [qtime EXCEPT ![np] = 0]
  /\ child' = [child EXCEPT ![cur[c]] = np]
  /\ UNCHANGED <<chan, seq_counter, timeVars, cpuVars>>

\* ... and the new process enters the pool once its parent is set.
ForkReady(c) ==
  /\ pc[c] = "run" /\ child[cur[c]] # NoProc
  /\ mlfq_enqueue(child[cur[c]])
  /\ state' = [state EXCEPT ![child[cur[c]]] = "RUNNABLE"]
  /\ child' = [child EXCEPT ![cur[c]] = NoProc]
  /\ UNCHANGED <<priority, chan, timeVars, cpuVars>>

\* kexit(); init never exits.
Exit(c) ==
  /\ InProcess(c) /\ cur[c] # 1
  /\ Leave(c, "ZOMBIE")
  /\ UNCHANGED <<priority, chan, child, timeVars, now, wchan>>
  /\ NoEnqueue

\* kwait() frees a zombie.
Reap(c, q) ==
  /\ InProcess(c)
  /\ state[q] = "ZOMBIE"
  /\ state' = [state EXCEPT ![q] = "UNUSED"]
  /\ chan' = [chan EXCEPT ![q] = NoChan]
  /\ UNCHANGED <<priority, child, timeVars, cpuVars>>
  /\ NoEnqueue

-----------------------------------------------------------------------------
CpuStep(c) ==
  \/ SchedStart(c) \/ ScanStep(c) \/ Idle(c) \/ Dispatch(c) \/ DispatchLost(c)
  \/ ClockIntr(c) \/ WakeStep(c) \/ ReadTicks(c) \/ CheckBoost(c) \/ BoostStep(c)
  \/ Account(c) \/ ReadPriority(c) \/ HigherStep(c) \/ Yield(c)
  \/ Wakeup(c) \/ ForkReady(c) \/ Exit(c)
  \/ \E ch \in Chans : Sleep(c, ch)
  \/ \E q \in Procs : Kill(c, q) \/ ForkAlloc(c, q) \/ Reap(c, q)

\* CPU c enters mlfq_boost_all() in this step.
StartsBoost(c) == pc[c] = "check" /\ pc'[c] = "boost"

\* CPU c switches to a process in this step.
Dispatches(c) == cur[c] = NoProc /\ cur'[c] # NoProc

\* The history variables follow every step.
SteadyStep ==
  steady' = [c \in Cpus |->
    {q \in IF pc[c] = "scan" THEN steady[c] ELSE Procs :
       /\ pc'[c] = "scan"
       /\ state[q] = "RUNNABLE" /\ state'[q] = "RUNNABLE"
       /\ priority'[q] = priority[q] /\ qtime'[q] = qtime[q]}]

GapStep ==
  gap' = IF \E c \in Cpus : StartsBoost(c) THEN 0
         ELSE IF ticks' # ticks /\ gap < BOOST_INTERVAL THEN gap + 1 ELSE gap

Next == (\E c \in Cpus : CpuStep(c)) /\ SteadyStep /\ GapStep

Spec == Init /\ [][Next]_vars

-----------------------------------------------------------------------------
TypeOK ==
  /\ state \in [Procs -> States]
  /\ priority \in [Procs -> Levels]
  /\ ticks_used \in [Procs -> Nat]
  /\ qtime \in [Procs -> Nat]
  /\ chan \in [Procs -> Chans \cup {NoChan}]
  /\ child \in [Procs -> Procs \cup {NoProc}]
  /\ seq_counter \in Nat
  /\ ticks \in 0 .. TICK_MOD - 1
  /\ last_boost \in 0 .. TICK_MOD - 1
  /\ pc \in [Cpus -> Pcs]
  /\ cur \in [Cpus -> Procs \cup {NoProc}]
  /\ idx \in [Cpus -> 1 .. NPROC + 1]
  /\ best \in [Cpus -> Procs \cup {NoProc}]
  /\ best_qtime \in [Cpus -> Nat]
  /\ prio \in [Cpus -> 0 .. MLFQ_LEVELS]
  /\ now \in [Cpus -> 0 .. TICK_MOD - 1]
  /\ wchan \in [Cpus -> Chans \cup {NoChan}]
  /\ steady \in [Cpus -> SUBSET Procs]
  /\ gap \in 0 .. BOOST_INTERVAL

\* No process runs on two CPUs, every CPU's process is RUNNING and every RUNNING
\* process is some CPU's: two CPUs may find the same candidate in their scans,
\* and only the test under its lock in scheduler() keeps one of them off it.
OneCpuPerProcess ==
  /\ \A c \in Cpus : cur[c] # NoProc => state[cur[c]] = "RUNNING"
  /\ \A c, d \in Cpus : c # d /\ cur[c] # NoProc => cur[c] # cur[d]
  /\ \A p \in Procs : state[p] = "RUNNING" => \E c \in Cpus : cur[c] = p

\* Whatever level boosts, demotions and wakeups put a process on, it has part of
\* that level's slice left: a boost by one CPU in the middle of another CPU's
\* tick never leaves a count that belongs to a longer slice.
SliceRemains == \A p \in Procs : ticks_used[p] < mlfq_slice[priority[p]]

\* The processes in the scheduling pool hold distinct arrival numbers, all handed
\* out by mlfq_next_seq(): "lexicographically smallest (priority, qtime)" names
\* one process, and a level's order is a FIFO order.
InPool(p) == state[p] \in {"SLEEPING", "RUNNABLE", "RUNNING"}
TicketsDistinct ==
  /\ \A p \in Procs : InPool(p) => qtime[p] \in 1 .. seq_counter - 1
  /\ \A p, q \in Procs : InPool(p) /\ InPool(q) /\ p # q => qtime[p] # qtime[q]

\* What the scan of scheduler() guarantees although it holds one lock at a time:
\* when it ends, no process that stayed RUNNABLE and in its place all through it
\* comes before the candidate it recorded.
ScanPicksBest ==
  \A c \in Cpus : pc[c] = "scan" /\ idx[c] = NPROC + 1 =>
    \A q \in steady[c] :
      /\ best[c] # NoProc
      /\ \/ prio[c] < priority[q]
         \/ prio[c] = priority[q] /\ best_qtime[c] <= qtime[q]

\* The rule of the scheduler's comment and of report.md, as far as it can hold when
\* other CPUs move processes during the scan: of the processes that stayed RUNNABLE
\* and in their places from the start of the scan to the switch, the one switched to
\* has the least (priority, qtime).
StrictPriority ==
  [][\A c \in Cpus : Dispatches(c) /\ cur'[c] \in steady[c] =>
       \A q \in steady[c] :
         \/ priority[cur'[c]] < priority[q]
         \/ priority[cur'[c]] = priority[q] /\ qtime[cur'[c]] <= qtime[q]]_vars

\* The comment of mlfq_maybe_boost(): at most one boost is started per
\* BOOST_INTERVAL ticks, although every CPU's timer interrupt calls it.
BoostOncePerWindow == [][\A c \in Cpus : StartsBoost(c) => gap >= BOOST_INTERVAL]_vars

=============================================================================
