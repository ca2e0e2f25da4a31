----------------------------- MODULE MlfqProofs -----------------------------
(***************************************************************************)
(* Theorems about Mlfq, for every number of processes, CPUs and levels and *)
(* all slices: a process runs on one CPU at most, the arrival numbers are  *)
(* distinct, no count outlives its slice, and the scan of scheduler() finds*)
(* the best of the processes that stayed put, and switches to it.          *)
(***************************************************************************)
EXTENDS Mlfq, TLAPS

-----------------------------------------------------------------------------
(* The inductive invariant.                                                *)

\* What the place of a CPU says of its locals: where it has a process, and where
\* the loops over the table stand.
Shape ==
  \A c \in Cpus :
    /\ pc[c] \in {"sched", "scan"} => cur[c] = NoProc
    /\ pc[c] \notin {"sched", "scan", "wake"} => cur[c] # NoProc
    /\ pc[c] # "scan" => idx[c] \in Procs
    /\ pc[c] = "sched" => idx[c] = 1
    /\ pc[c] \notin {"scan", "wake", "boost", "higher"} => idx[c] = 1

\* A slot that kfork() has allocated is USED, and has one forking parent.
Forking ==
  /\ \A p \in Procs : child[p] # NoProc => state[child[p]] = "USED"
  /\ \A p, q \in Procs : child[p] # NoProc /\ p # q => child[p] # child[q]

-----------------------------------------------------------------------------
(* Types and the shape of the locals.                                      *)

\* The initial state has the types and the shape.
LEMMA InitType == Init => TypeOK /\ Shape
BY MlfqAssumption
DEF Init, TypeOK, Shape, Procs, Cpus, Levels, States, Pcs, Chans, NoChan, NoProc

\* The type invariant in the parts that the proofs below use.
ProcType ==
  /\ state \in [Procs -> States]
  /\ priority \in [Procs -> Levels]
  /\ ticks_used \in [Procs -> Nat]
  /\ qtime \in [Procs -> Nat]
  /\ chan \in [Procs -> Chans \cup {NoChan}]
  /\ child \in [Procs -> Procs \cup {NoProc}]
  /\ seq_counter \in Nat

CpuType ==
  /\ pc \in [Cpus -> Pcs]
  /\ cur \in [Cpus -> Procs \cup {NoProc}]
  /\ idx \in [Cpus -> 1 .. NPROC + 1]

LocalType ==
  /\ ticks \in 0 .. TICK_MOD - 1
  /\ last_boost \in 0 .. TICK_MOD - 1
  /\ best \in [Cpus -> Procs \cup {NoProc}]
  /\ best_qtime \in [Cpus -> Nat]
  /\ prio \in [Cpus -> 0 .. MLFQ_LEVELS]
  /\ now \in [Cpus -> 0 .. TICK_MOD - 1]
  /\ wchan \in [Cpus -> Chans \cup {NoChan}]

\* Where a CPU has a process and where its loop stands inside the table.
LEMMA Places ==
  ASSUME CpuType, Shape, NEW c \in Cpus
  PROVE  /\ pc[c] # "scan" => idx[c] \in Procs
         /\ pc[c] \notin {"sched", "scan", "wake"} => cur[c] \in Procs
BY ZenonT(30) DEF CpuType, Shape, NoProc

\* Levels as numbers.
LEMMA LevelFacts ==
  /\ 0 \in Levels
  /\ \A l \in Levels : l < MLFQ_LEVELS - 1 => l + 1 \in Levels
  /\ Levels \subseteq 0 .. MLFQ_LEVELS
  /\ MLFQ_LEVELS \in 0 .. MLFQ_LEVELS
BY MlfqAssumption DEF Levels

\* Unsigned arithmetic stays in range.
LEMMA ModRange ==
  ASSUME NEW a \in Int, NEW b \in Nat \ {0}
  PROVE  a % b \in 0 .. b - 1
OBVIOUS

\* Every step keeps the types of struct proc.
LEMMA StepProcType ==
  ASSUME ProcType, CpuType, LocalType, Shape, NEW c \in Cpus, CpuStep(c)
  PROVE  ProcType'
<1> USE Places, LevelFacts
<1>0. best[c] \in Procs \cup {NoProc}
  BY ZenonT(30) DEF LocalType
<1> USE DEF ProcType, States, Chans
<1>1. CASE SchedStart(c)
  BY ZenonT(30), <1>1 DEF procVars, SchedStart
<1>2. CASE ScanStep(c)
  BY ZenonT(30), <1>2 DEF procVars, ScanStep
<1>3. CASE Idle(c)
  BY ZenonT(30), <1>3 DEF procVars, Idle
<1>4. CASE DispatchLost(c)
  BY ZenonT(30), <1>4 DEF procVars, DispatchLost
<1>5. CASE Dispatch(c)
  BY ZenonT(30), <1>5, <1>0 DEF Dispatch, NoEnqueue
<1>6. CASE ClockIntr(c)
  BY ZenonT(30), <1>6 DEF procVars, ClockIntr
<1>7. CASE WakeStep(c)
  BY SMTT(30), <1>7 DEF WakeStep, mlfq_enqueue, NoEnqueue
<1>8. CASE ReadTicks(c)
  BY ZenonT(30), <1>8 DEF procVars, ReadTicks
<1>9. CASE CheckBoost(c)
  BY ZenonT(30), <1>9 DEF procVars, CheckBoost
<1>10. CASE BoostStep(c)
  BY <1>10 DEF BoostStep, mlfq_enqueue, NoEnqueue
<1>11. CASE Account(c)
  <2>1. cur[c] \in Procs /\ priority[cur[c]] \in Levels
    BY ZenonT(30), <1>11 DEF Account
  <2>2. UNCHANGED <<state, chan, child>>
    BY ZenonT(30), <1>11 DEF Account
  <2>3. CASE /\ priority' = [priority EXCEPT ![cur[c]] =
                               IF @ < MLFQ_LEVELS - 1 THEN @ + 1 ELSE @]
             /\ mlfq_enqueue(cur[c])
    <3> DEFINE l == IF priority[cur[c]] < MLFQ_LEVELS - 1
                    THEN priority[cur[c]] + 1 ELSE priority[cur[c]]
    <3>1. l \in Levels
      BY ZenonT(30), <2>1
    <3>2. priority' = [priority EXCEPT ![cur[c]] = l]
      BY ZenonT(30), <2>3
    <3> HIDE DEF l
    <3> QED
      BY <2>1, <2>2, <2>3, <3>1, <3>2 DEF mlfq_enqueue
  <2>4. CASE /\ ticks_used' = [ticks_used EXCEPT ![cur[c]] = @ + 1]
             /\ UNCHANGED <<priority, qtime, seq_counter>>
    BY <2>1, <2>2, <2>4
  <2> QED
    BY ZenonT(30), <1>11, <2>3, <2>4 DEF Account, Demoted
<1>12. CASE ReadPriority(c)
  BY ZenonT(30), <1>12 DEF procVars, ReadPriority
<1>13. CASE HigherStep(c)
  BY ZenonT(30), <1>13 DEF procVars, HigherStep
<1>14. CASE Yield(c)
  BY ZenonT(30), <1>14 DEF Yield, Leave, NoEnqueue
<1>15. CASE Wakeup(c)
  BY ZenonT(30), <1>15 DEF procVars, Wakeup, InProcess
<1>16. CASE ForkReady(c)
  BY <1>16 DEF ForkReady, mlfq_enqueue
<1>17. CASE Exit(c)
  BY ZenonT(30), <1>17 DEF Exit, InProcess, Leave, NoEnqueue
<1>18. ASSUME NEW ch \in Chans, Sleep(c, ch)
       PROVE  ProcType'
  BY ZenonT(30), <1>18 DEF Sleep, InProcess, Leave, NoEnqueue
<1>19. ASSUME NEW q \in Procs, ForkAlloc(c, q)
       PROVE  ProcType'
  BY ZenonT(30), <1>19 DEF ForkAlloc, InProcess
<1>20. ASSUME NEW q \in Procs, Reap(c, q)
       PROVE  ProcType'
  BY ZenonT(30), <1>20 DEF Reap, InProcess, NoEnqueue
<1>21. ASSUME NEW q \in Procs, Kill(c, q)
       PROVE  ProcType'
  BY <1>21 DEF Kill, InProcess, mlfq_enqueue
<1> QED
  BY ZenonT(30), <1>1, <1>2, <1>3, <1>4, <1>5, <1>6, <1>7, <1>8, <1>9, <1>10, <1>11, <1>12,
     <1>13, <1>14, <1>15, <1>16, <1>17, <1>18, <1>19, <1>20, <1>21 DEF CpuStep

\* Every step keeps the types of the CPUs' places, and their shape.
LEMMA StepCpuType ==
  ASSUME CpuType, LocalType, Shape, NEW c \in Cpus, CpuStep(c)
  PROVE  CpuType' /\ Shape'
<1> USE MlfqAssumption
<1> USE DEF CpuType, LocalType, Shape, Procs, Pcs, NoProc, Goto, timeVars,
        pickVars, cpuVars
<1>1. CASE SchedStart(c)
  BY ZenonT(30), <1>1 DEF SchedStart
<1>2. CASE ScanStep(c)
  BY <1>2 DEF ScanStep
<1>3. CASE Idle(c)
  BY <1>3 DEF Idle, BackToScheduler
<1>4. CASE DispatchLost(c)
  BY <1>4 DEF DispatchLost, BackToScheduler
<1>5. CASE Dispatch(c)
  BY <1>5 DEF Dispatch, NoEnqueue
<1>6. CASE ClockIntr(c)
  BY SMTT(30), <1>6 DEF ClockIntr
<1>7. CASE WakeStep(c)
  BY <1>7 DEF WakeStep, mlfq_enqueue, NoEnqueue, Loop, AfterWakeup
<1>8. CASE ReadTicks(c)
  BY ZenonT(30), <1>8 DEF ReadTicks
<1>9. CASE CheckBoost(c)
  BY SMTT(30), <1>9 DEF CheckBoost
<1>10. CASE BoostStep(c)
  BY SMTT(30), <1>10 DEF BoostStep, mlfq_enqueue, NoEnqueue, Loop
<1>11. CASE Account(c)
  BY <1>11 DEF Account, mlfq_enqueue
<1>12. CASE ReadPriority(c)
  BY ZenonT(30), <1>12 DEF ReadPriority
<1>13. CASE HigherStep(c)
  BY <1>13 DEF HigherStep
<1>14. CASE Yield(c)
  BY ZenonT(30), <1>14 DEF Yield, Leave, NoEnqueue
<1>15. CASE Wakeup(c)
  BY ZenonT(30), <1>15 DEF Wakeup, InProcess
<1>16. CASE ForkReady(c)
  BY ZenonT(30), <1>16 DEF ForkReady, mlfq_enqueue
<1>17. CASE Exit(c)
  BY ZenonT(30), <1>17 DEF Exit, InProcess, Leave, NoEnqueue
<1>18. ASSUME NEW ch \in Chans, Sleep(c, ch)
       PROVE  CpuType' /\ Shape'
  BY ZenonT(30), <1>18 DEF Sleep, InProcess, Leave, NoEnqueue
<1>19. ASSUME NEW q \in Procs, ForkAlloc(c, q)
       PROVE  CpuType' /\ Shape'
  BY ZenonT(30), <1>19 DEF ForkAlloc, InProcess
<1>20. ASSUME NEW q \in Procs, Reap(c, q)
       PROVE  CpuType' /\ Shape'
  BY ZenonT(30), <1>20 DEF Reap, InProcess, NoEnqueue
<1>21. ASSUME NEW q \in Procs, Kill(c, q)
       PROVE  CpuType' /\ Shape'
  BY ZenonT(30), <1>21 DEF Kill, InProcess, mlfq_enqueue
<1> QED
  BY ZenonT(30), <1>1, <1>2, <1>3, <1>4, <1>5, <1>6, <1>7, <1>8, <1>9, <1>10, <1>11, <1>12,
     <1>13, <1>14, <1>15, <1>16, <1>17, <1>18, <1>19, <1>20, <1>21 DEF CpuStep

\* Every step keeps the types of the locals and of the clocks.
LEMMA StepLocalType ==
  ASSUME ProcType, CpuType, LocalType, Shape, NEW c \in Cpus, CpuStep(c)
  PROVE  LocalType'
<1> USE Places, LevelFacts, MlfqAssumption
<1>0. priority \in [Procs -> Levels] /\ qtime \in [Procs -> Nat] /\ idx[c] \in 1 .. NPROC + 1
  BY ZenonT(30) DEF ProcType, CpuType
<1> USE DEF LocalType, Chans, timeVars, pickVars, cpuVars
<1>1. CASE SchedStart(c)
  BY ZenonT(30), <1>1 DEF SchedStart
<1>2. CASE ScanStep(c)
  <2> DEFINE p == idx[c]
  <2>1. p \in Procs /\ priority[p] \in 0 .. MLFQ_LEVELS /\ qtime[p] \in Nat
    BY ZenonT(30), <1>0, <1>2 DEF ScanStep
  <2> HIDE DEF p
  <2>2. /\ UNCHANGED <<timeVars, now, wchan>>
        /\ \/ UNCHANGED pickVars
           \/ /\ best' = [best EXCEPT ![c] = p]
              /\ prio' = [prio EXCEPT ![c] = priority[p]]
              /\ best_qtime' = [best_qtime EXCEPT ![c] = qtime[p]]
    BY ZenonT(30), <1>2 DEF ScanStep, p
  <2> QED
    BY <2>1, <2>2
<1>3. CASE Idle(c)
  BY ZenonT(30), <1>3 DEF Idle, BackToScheduler
<1>4. CASE DispatchLost(c)
  BY ZenonT(30), <1>4 DEF DispatchLost, BackToScheduler
<1>5. CASE Dispatch(c)
  BY ZenonT(30), <1>5 DEF Dispatch, NoEnqueue
<1>6. CASE ClockIntr(c)
  <2>1. ticks + 1 \in Int
    BY DEF LocalType
  <2>2. (ticks + 1) % TICK_MOD \in 0 .. TICK_MOD - 1
    BY ZenonT(30), <2>1, ModRange
  <2> QED
    BY ZenonT(30), <1>6, <2>2 DEF ClockIntr
<1>7. CASE WakeStep(c)
  BY ZenonT(30), <1>7 DEF WakeStep, mlfq_enqueue, NoEnqueue, Loop, AfterWakeup
<1>8. CASE ReadTicks(c)
  BY ZenonT(30), <1>8 DEF ReadTicks
<1>9. CASE CheckBoost(c)
  BY <1>9 DEF CheckBoost
<1>10. CASE BoostStep(c)
  BY ZenonT(30), <1>10 DEF BoostStep, mlfq_enqueue, NoEnqueue, Loop
<1>11. CASE Account(c)
  BY ZenonT(30), <1>11 DEF Account, mlfq_enqueue
<1>12. CASE ReadPriority(c)
  BY ZenonT(30), <1>12, <1>0 DEF ReadPriority
<1>13. CASE HigherStep(c)
  BY ZenonT(30), <1>13 DEF HigherStep
<1>14. CASE Yield(c)
  BY ZenonT(30), <1>14 DEF Yield, Leave, NoEnqueue
<1>15. CASE Wakeup(c)
  BY ZenonT(30), <1>15 DEF Wakeup, InProcess
<1>16. CASE ForkReady(c)
  BY ZenonT(30), <1>16 DEF ForkReady, mlfq_enqueue
<1>17. CASE Exit(c)
  BY ZenonT(30), <1>17 DEF Exit, InProcess, Leave, NoEnqueue
<1>18. ASSUME NEW ch \in Chans, Sleep(c, ch)
       PROVE  LocalType'
  BY ZenonT(30), <1>18 DEF Sleep, InProcess, Leave, NoEnqueue
<1>19. ASSUME NEW q \in Procs, ForkAlloc(c, q)
       PROVE  LocalType'
  BY ZenonT(30), <1>19 DEF ForkAlloc, InProcess
<1>20. ASSUME NEW q \in Procs, Reap(c, q)
       PROVE  LocalType'
  BY ZenonT(30), <1>20 DEF Reap, InProcess, NoEnqueue
<1>21. ASSUME NEW q \in Procs, Kill(c, q)
       PROVE  LocalType'
  BY ZenonT(30), <1>21 DEF Kill, InProcess, mlfq_enqueue
<1> QED
  BY ZenonT(30), <1>1, <1>2, <1>3, <1>4, <1>5, <1>6, <1>7, <1>8, <1>9, <1>10, <1>11, <1>12,
     <1>13, <1>14, <1>15, <1>16, <1>17, <1>18, <1>19, <1>20, <1>21 DEF CpuStep

\* The three groups are the type invariant, but for the history.
LEMMA TypeParts == TypeOK <=> /\ ProcType /\ CpuType /\ LocalType
                              /\ steady \in [Cpus -> SUBSET Procs]
                              /\ gap \in 0 .. BOOST_INTERVAL
BY ZenonT(30) DEF TypeOK, ProcType, CpuType, LocalType

\* The type invariant with the shape is inductive.
LEMMA NextType == TypeOK /\ Shape /\ [Next]_vars => TypeOK' /\ Shape'
<1> SUFFICES ASSUME TypeOK, Shape, [Next]_vars
             PROVE  TypeOK' /\ Shape'
  OBVIOUS
<1>1. CASE UNCHANGED vars
  BY ZenonT(30), <1>1 DEF TypeOK, Shape, vars, procVars, timeVars, cpuVars, pickVars, histVars
<1>2. CASE Next
  <2>1. PICK c \in Cpus : CpuStep(c)
    BY ZenonT(30), <1>2 DEF Next
  <2>2. ProcType' /\ CpuType' /\ LocalType' /\ Shape'
    BY ZenonT(30), <2>1, TypeParts, StepProcType, StepCpuType, StepLocalType
  <2>3. steady' \in [Cpus -> SUBSET Procs]
    BY ZenonT(30), <1>2 DEF Next, SteadyStep, TypeOK
  <2>4. gap' \in 0 .. BOOST_INTERVAL
    BY <1>2, MlfqAssumption DEF Next, GapStep, TypeOK
  <2> QED
    BY ZenonT(30), <2>2, <2>3, <2>4 DEF TypeOK, ProcType, CpuType, LocalType
<1> QED
  BY ZenonT(30), <1>1, <1>2

\* Every variable of the scheduler keeps its type; in particular the table loops
\* stay inside the process table and a priority is always a level, the index of
\* mlfq_slice in mlfq_tick().
THEOREM TypeCorrect == Spec => []TypeOK
<1>1. Spec => [](TypeOK /\ Shape)
  BY InitType, NextType, PTL DEF Spec
<1> QED
  BY <1>1, PTL

\* The shape of the locals holds throughout.
LEMMA ShapeCorrect == Spec => [](TypeOK /\ Shape)
BY InitType, NextType, PTL DEF Spec

-----------------------------------------------------------------------------
(* One CPU per process.                                                    *)

\* What a step does to the process states, the CPUs' processes and the forks.
Quiet == UNCHANGED <<state, cur, child>>
SwitchTo(c, p) ==
  /\ cur[c] = NoProc /\ state[p] = "RUNNABLE"
  /\ state' = [state EXCEPT ![p] = "RUNNING"]
  /\ cur' = [cur EXCEPT ![c] = p]
  /\ UNCHANGED child
SwitchFrom(c, s) ==
  /\ cur[c] \in Procs
  /\ state' = [state EXCEPT ![cur[c]] = s]
  /\ cur' = [cur EXCEPT ![c] = NoProc]
  /\ UNCHANGED child
MoveOffCpu(q, s) ==
  /\ state[q] \in {"SLEEPING", "ZOMBIE"}
  /\ state' = [state EXCEPT ![q] = s]
  /\ UNCHANGED <<cur, child>>
TakeSlot(p, np) ==
  /\ child[p] = NoProc /\ state[np] = "UNUSED"
  /\ state' = [state EXCEPT ![np] = "USED"]
  /\ child' = [child EXCEPT ![p] = np]
  /\ UNCHANGED cur
ReadySlot(p) ==
  /\ child[p] \in Procs
  /\ state' = [state EXCEPT ![child[p]] = "RUNNABLE"]
  /\ child' = [child EXCEPT ![p] = NoProc]
  /\ UNCHANGED cur

\* What a step of a CPU does to states, to the CPUs' processes and to kfork()'s slots.
LEMMA Effects ==
  ASSUME TypeOK, Shape, NEW c \in Cpus, CpuStep(c)
  PROVE  \/ Quiet
         \/ \E p \in Procs : SwitchTo(c, p)
         \/ \E s \in {"RUNNABLE", "SLEEPING", "ZOMBIE"} : SwitchFrom(c, s)
         \/ \E q \in Procs, s \in {"RUNNABLE", "UNUSED"} : MoveOffCpu(q, s)
         \/ \E p, np \in Procs : TakeSlot(p, np)
         \/ \E p \in Procs : ReadySlot(p)
<1> USE TypeParts, Places
<1>1. CASE \/ SchedStart(c) \/ ScanStep(c) \/ Idle(c) \/ DispatchLost(c) \/ ClockIntr(c)
           \/ ReadTicks(c) \/ CheckBoost(c) \/ BoostStep(c) \/ Account(c)
           \/ ReadPriority(c) \/ HigherStep(c) \/ Wakeup(c)
  <2>1. Quiet
    BY ZenonT(30), <1>1 DEF Quiet, SchedStart, ScanStep, Idle, DispatchLost, ClockIntr, ReadTicks,
       CheckBoost, BoostStep, Account, ReadPriority, HigherStep, Wakeup, procVars
  <2> QED
    BY ZenonT(30), <2>1
<1>2. CASE Dispatch(c)
  <2>1. cur[c] = NoProc /\ best[c] \in Procs
    BY ZenonT(30), <1>2 DEF Dispatch, Shape, LocalType
  <2>2. SwitchTo(c, best[c])
    BY ZenonT(30), <1>2, <2>1 DEF Dispatch, StillRunnable, SwitchTo
  <2> QED
    BY ZenonT(30), <2>1, <2>2
<1>3. CASE WakeStep(c)
  <2>1. idx[c] \in Procs
    BY ZenonT(30), <1>3 DEF WakeStep
  <2>2. Quiet \/ MoveOffCpu(idx[c], "RUNNABLE")
    BY ZenonT(30), <1>3 DEF WakeStep, Quiet, MoveOffCpu
  <2> QED
    BY ZenonT(30), <2>1, <2>2
<1>4. CASE Yield(c)
  BY ZenonT(30), <1>4 DEF Yield, Leave, SwitchFrom
<1>5. CASE Exit(c)
  BY ZenonT(30), <1>5 DEF Exit, InProcess, Leave, SwitchFrom
<1>6. ASSUME NEW ch \in Chans, Sleep(c, ch)
      PROVE  SwitchFrom(c, "SLEEPING")
  BY ZenonT(30), <1>6 DEF Sleep, InProcess, Leave, SwitchFrom
<1>7. ASSUME NEW q \in Procs, ForkAlloc(c, q)
      PROVE  \E p \in Procs : TakeSlot(p, q)
  BY ZenonT(30), <1>7 DEF ForkAlloc, InProcess, cpuVars, TakeSlot
<1>8. ASSUME NEW q \in Procs, Reap(c, q)
      PROVE  MoveOffCpu(q, "UNUSED")
  BY ZenonT(30), <1>8 DEF Reap, cpuVars, MoveOffCpu
<1>9. CASE ForkReady(c)
  BY ZenonT(30), <1>9 DEF ForkReady, cpuVars, ReadySlot, ProcType
<1>10. ASSUME NEW q \in Procs, Kill(c, q)
       PROVE  MoveOffCpu(q, "RUNNABLE")
  BY ZenonT(30), <1>10 DEF Kill, cpuVars, MoveOffCpu
<1> QED
  BY ZenonT(30), <1>1, <1>2, <1>3, <1>4, <1>5, <1>6, <1>7, <1>8, <1>9, <1>10 DEF CpuStep

\* Each of these effects keeps a process on one CPU and a forked slot USED.
LEMMA OneCpuStep ==
  ASSUME TypeOK, Shape, OneCpuPerProcess, Forking, [Next]_vars
  PROVE  (OneCpuPerProcess /\ Forking)'
<1> USE DEF OneCpuPerProcess, Forking
<1>0. state \in [Procs -> States] /\ cur \in [Cpus -> Procs \cup {NoProc}]
      /\ child \in [Procs -> Procs \cup {NoProc}] /\ NoProc \notin Procs
  BY DEF TypeOK, Procs, NoProc
<1>1. CASE Quiet
  BY ZenonT(30), <1>1 DEF Quiet
<1>2. ASSUME NEW c \in Cpus, NEW p \in Procs, SwitchTo(c, p)
      PROVE  (OneCpuPerProcess /\ Forking)'
  BY <1>0, <1>2 DEF SwitchTo
<1>3. ASSUME NEW c \in Cpus, NEW s \in {"RUNNABLE", "SLEEPING", "ZOMBIE"},
             SwitchFrom(c, s)
      PROVE  (OneCpuPerProcess /\ Forking)'
  BY <1>0, <1>3 DEF SwitchFrom
<1>4. ASSUME NEW q \in Procs, NEW s \in {"RUNNABLE", "UNUSED"}, MoveOffCpu(q, s)
      PROVE  (OneCpuPerProcess /\ Forking)'
  BY <1>0, <1>4 DEF MoveOffCpu
<1>5. ASSUME NEW p \in Procs, NEW np \in Procs, TakeSlot(p, np)
      PROVE  (OneCpuPerProcess /\ Forking)'
  BY <1>0, <1>5 DEF TakeSlot
<1>6. ASSUME NEW p \in Procs, ReadySlot(p)
      PROVE  (OneCpuPerProcess /\ Forking)'
  BY <1>0, <1>6 DEF ReadySlot
<1>7. CASE UNCHANGED vars
  BY ZenonT(30), <1>7 DEF vars, procVars, cpuVars
<1> QED
  <2> HIDE DEF OneCpuPerProcess, Forking
  <2>1. ASSUME NEW c \in Cpus, CpuStep(c)
        PROVE  (OneCpuPerProcess /\ Forking)'
    BY ZenonT(30), <2>1, <1>1, <1>2, <1>3, <1>4, <1>5, <1>6, Effects
  <2> QED
    BY ZenonT(30), <2>1, <1>7 DEF Next

\* However the CPUs' scans interleave, no process runs on two CPUs, every CPU's
\* process is RUNNING and every RUNNING process is on a CPU: scheduler()'s second
\* look under the candidate's lock is enough.
THEOREM ProcessOnOneCpu == Spec => []OneCpuPerProcess
<1>1. Init => OneCpuPerProcess /\ Forking
  BY DEF Init, OneCpuPerProcess, Forking
<1>2. TypeOK /\ Shape /\ OneCpuPerProcess /\ Forking /\ [Next]_vars
        => (OneCpuPerProcess /\ Forking)'
  BY ZenonT(30), OneCpuStep
<1> QED
  BY <1>1, <1>2, ShapeCorrect, PTL DEF Spec


-----------------------------------------------------------------------------
(* Arrival numbers.                                                        *)

NoNewcomer(p) == \A q \in Procs : q # p /\ InPool(q)' => InPool(q)

\* What a step does to the arrival numbers: it hands out a new one, or clears the
\* one of a slot that is not in the pool, or leaves them alone.
NewTicket(p) ==
  /\ qtime' = [qtime EXCEPT ![p] = seq_counter]
  /\ seq_counter' = seq_counter + 1
  /\ NoNewcomer(p)
NoTicket(p) ==
  /\ qtime' = [qtime EXCEPT ![p] = 0]
  /\ seq_counter' = seq_counter
  /\ ~InPool(p)'
  /\ NoNewcomer(p)
SameTickets ==
  /\ UNCHANGED <<qtime, seq_counter>>
  /\ \A q \in Procs : InPool(q)' => InPool(q)

\* Every step has one of these effects.
LEMMA TicketEffects ==
  ASSUME TypeOK, Shape, OneCpuPerProcess, NEW c \in Cpus, CpuStep(c)
  PROVE  SameTickets \/ \E p \in Procs : NewTicket(p) \/ NoTicket(p)
<1> USE TypeParts, Places DEF NoNewcomer, InPool
<1>1. CASE \/ SchedStart(c) \/ ScanStep(c) \/ Idle(c) \/ DispatchLost(c) \/ ClockIntr(c)
           \/ ReadTicks(c) \/ CheckBoost(c) \/ ReadPriority(c) \/ HigherStep(c)
           \/ Wakeup(c)
  <2>1. UNCHANGED <<state, qtime, seq_counter>>
    BY ZenonT(30), <1>1 DEF SchedStart, ScanStep, Idle, DispatchLost, ClockIntr, ReadTicks,
       CheckBoost, ReadPriority, HigherStep, Wakeup, procVars
  <2> QED
    BY ZenonT(30), <2>1 DEF SameTickets
<1>2. CASE Dispatch(c)
  BY ZenonT(30), <1>2 DEF Dispatch, StillRunnable, NoEnqueue, SameTickets, ProcType, LocalType
<1>3. CASE Yield(c)
  BY <1>3 DEF Yield, Leave, NoEnqueue, SameTickets, ProcType, OneCpuPerProcess, Procs, NoProc
<1>4. CASE Exit(c)
  BY ZenonT(30), <1>4 DEF Exit, InProcess, Leave, NoEnqueue, SameTickets, ProcType
<1>5. ASSUME NEW ch \in Chans, Sleep(c, ch)
      PROVE  SameTickets
  BY <1>5 DEF Sleep, InProcess, Leave, NoEnqueue, SameTickets, ProcType, OneCpuPerProcess,
     Procs, NoProc
<1>6. ASSUME NEW q \in Procs, Reap(c, q)
      PROVE  SameTickets
  BY ZenonT(30), <1>6 DEF Reap, NoEnqueue, SameTickets, ProcType
<1>7. CASE WakeStep(c)
  <2>1. PICK p \in Procs : p = idx[c]
    BY ZenonT(30), <1>7 DEF WakeStep
  <2>2. SameTickets \/ NewTicket(p)
    BY ZenonT(30), <1>7, <2>1 DEF WakeStep, mlfq_enqueue, NoEnqueue, SameTickets, NewTicket, ProcType
  <2> QED
    BY ZenonT(30), <2>1, <2>2
<1>8. CASE BoostStep(c)
  <2>1. PICK p \in Procs : p = idx[c]
    BY ZenonT(30), <1>8 DEF BoostStep
  <2>2. SameTickets \/ NewTicket(p)
    BY ZenonT(30), <1>8, <2>1 DEF BoostStep, mlfq_enqueue, NoEnqueue, SameTickets, NewTicket
  <2> QED
    BY ZenonT(30), <2>1, <2>2
<1>9. CASE Account(c)
  <2>1. PICK p \in Procs : p = cur[c]
    BY ZenonT(30), <1>9 DEF Account
  <2>2. SameTickets \/ NewTicket(p)
    BY ZenonT(30), <1>9, <2>1 DEF Account, mlfq_enqueue, SameTickets, NewTicket
  <2> QED
    BY ZenonT(30), <2>1, <2>2
<1>10. ASSUME NEW q \in Procs, ForkAlloc(c, q)
       PROVE  NoTicket(q)
  BY ZenonT(30), <1>10 DEF ForkAlloc, NoTicket, ProcType
<1>11. CASE ForkReady(c)
  <2>1. PICK p \in Procs : p = child[cur[c]]
    BY ZenonT(30), <1>11 DEF ForkReady, ProcType
  <2>2. NewTicket(p)
    BY ZenonT(30), <1>11, <2>1 DEF ForkReady, mlfq_enqueue, NewTicket, ProcType
  <2> QED
    BY ZenonT(30), <2>1, <2>2
<1>12. ASSUME NEW q \in Procs, Kill(c, q)
       PROVE  NewTicket(q)
  BY ZenonT(30), <1>12 DEF Kill, mlfq_enqueue, NewTicket, ProcType
<1> QED
  BY ZenonT(30), <1>1, <1>2, <1>3, <1>4, <1>5, <1>6, <1>7, <1>8, <1>9, <1>10, <1>11, <1>12
  DEF CpuStep

\* Each of these effects keeps the numbers distinct.
LEMMA TicketStep ==
  ASSUME TypeOK, Shape, OneCpuPerProcess, TicketsDistinct, seq_counter > 0, [Next]_vars
  PROVE  TicketsDistinct' /\ seq_counter' > 0
<1>0. qtime \in [Procs -> Nat] /\ seq_counter \in Nat
  BY ZenonT(30) DEF TypeOK
<1>1. CASE SameTickets
  BY ZenonT(30), <1>0, <1>1 DEF SameTickets, TicketsDistinct
<1>2. ASSUME NEW p \in Procs, NewTicket(p)
      PROVE  TicketsDistinct' /\ seq_counter' > 0
  BY <1>0, <1>2 DEF NewTicket, NoNewcomer, TicketsDistinct
<1>3. ASSUME NEW p \in Procs, NoTicket(p)
      PROVE  TicketsDistinct' /\ seq_counter' > 0
  BY ZenonT(30), <1>0, <1>3 DEF NoTicket, NoNewcomer, TicketsDistinct
<1>4. CASE UNCHANGED vars
  BY ZenonT(30), <1>4 DEF vars, procVars, TicketsDistinct, InPool
<1> QED
  BY ZenonT(30), <1>1, <1>2, <1>3, <1>4, TicketEffects DEF Next

\* The arrival numbers of the processes in the pool are distinct numbers handed out
\* by mlfq_next_seq(), so each level is a FIFO and the scheduler's choice is unique.
THEOREM FifoTickets == Spec => []TicketsDistinct
<1>1. Init => TicketsDistinct /\ seq_counter > 0
  BY DEF Init, TicketsDistinct, InPool, Procs
<1>2. TypeOK /\ Shape /\ OneCpuPerProcess /\ TicketsDistinct /\ seq_counter > 0
        /\ [Next]_vars => TicketsDistinct' /\ (seq_counter > 0)'
  BY ZenonT(30), TicketStep
<1> QED
  BY <1>1, <1>2, ShapeCorrect, ProcessOnOneCpu, PTL DEF Spec

-----------------------------------------------------------------------------
(* Slices.                                                                 *)

\* Every step leaves every process part of its slice.
LEMMA SliceStep ==
  ASSUME TypeOK, Shape, SliceRemains, [Next]_vars
  PROVE  SliceRemains'
<1> USE TypeParts, Places, LevelFacts
<1>0. /\ ticks_used \in [Procs -> Nat] /\ priority \in [Procs -> Levels]
      /\ mlfq_slice \in [Levels -> Nat \ {0}]
  BY ZenonT(30), MlfqAssumption DEF TypeOK
\* A process that is enqueued, on whatever level, has its whole slice.
<1>1. ASSUME NEW p \in Procs, ticks_used' = [ticks_used EXCEPT ![p] = 0],
             priority' \in [Procs -> Levels], \A q \in Procs \ {p} : priority'[q] = priority[q]
      PROVE  SliceRemains'
  <2> SUFFICES ASSUME NEW q \in Procs
               PROVE  ticks_used'[q] < mlfq_slice[priority'[q]]
    BY ZenonT(30) DEF SliceRemains
  <2>1. CASE q = p
    <3>1. mlfq_slice[priority'[p]] \in Nat \ {0} /\ ticks_used'[p] = 0
      BY ZenonT(30), <1>0, <1>1
    <3> QED
      BY <2>1, <3>1
  <2>2. CASE q # p
    BY ZenonT(30), <1>0, <1>1, <2>2 DEF SliceRemains
  <2> QED
    BY ZenonT(30), <2>1, <2>2
<1>2. CASE UNCHANGED <<ticks_used, priority>>
  BY ZenonT(30), <1>2 DEF SliceRemains
<1>3. ASSUME NEW c \in Cpus, CpuStep(c)
      PROVE  SliceRemains'
  <2>0. priority' \in [Procs -> Levels]
    BY ZenonT(30), <1>3, StepProcType DEF ProcType
  <2>1. CASE \/ SchedStart(c) \/ ScanStep(c) \/ Idle(c) \/ DispatchLost(c) \/ ClockIntr(c)
             \/ ReadTicks(c) \/ CheckBoost(c) \/ ReadPriority(c) \/ HigherStep(c)
             \/ Wakeup(c)
    BY ZenonT(30), <2>1, <1>2 DEF SchedStart, ScanStep, Idle, DispatchLost, ClockIntr, ReadTicks,
       CheckBoost, ReadPriority, HigherStep, Wakeup, procVars
  <2>2. CASE \/ Dispatch(c) \/ Yield(c) \/ Exit(c) \/ (\E ch \in Chans : Sleep(c, ch))
             \/ (\E q \in Procs : Reap(c, q))
    BY ZenonT(30), <2>2, <1>2 DEF Dispatch, Yield, Exit, Sleep, Reap, NoEnqueue
  <2>3. CASE WakeStep(c)
    <3>1. idx[c] \in Procs
      BY ZenonT(30), <2>3 DEF WakeStep
    <3> QED
      BY ZenonT(30), <1>1, <1>2, <2>0, <2>3, <3>1 DEF WakeStep, mlfq_enqueue, NoEnqueue
  <2>4. CASE BoostStep(c)
    <3>1. idx[c] \in Procs
      BY ZenonT(30), <2>4 DEF BoostStep
    <3> QED
      BY ZenonT(30), <1>0, <1>1, <1>2, <2>0, <2>4, <3>1 DEF BoostStep, mlfq_enqueue, NoEnqueue
  <2>5. CASE Account(c)
    <3>1. cur[c] \in Procs
      BY ZenonT(30), <2>5 DEF Account
    <3>2. CASE ticks_used[cur[c]] + 1 >= mlfq_slice[priority[cur[c]]]
      BY ZenonT(30), <1>0, <1>1, <2>0, <2>5, <3>1, <3>2 DEF Account, mlfq_enqueue
    <3>3. CASE ~(ticks_used[cur[c]] + 1 >= mlfq_slice[priority[cur[c]]])
      <4>1. /\ ticks_used' = [ticks_used EXCEPT ![cur[c]] = ticks_used[cur[c]] + 1]
            /\ priority' = priority
        BY ZenonT(30), <2>5, <3>3 DEF Account
      <4>2. ticks_used[cur[c]] + 1 < mlfq_slice[priority[cur[c]]]
        <5>1. ticks_used[cur[c]] \in Nat /\ mlfq_slice[priority[cur[c]]] \in Nat
          BY ZenonT(30), <1>0, <3>1
        <5> QED
          BY <3>3, <5>1
      <4> QED
        BY ZenonT(30), <1>0, <4>1, <4>2 DEF SliceRemains
    <3> QED
      BY ZenonT(30), <3>2, <3>3
  <2>6. ASSUME NEW q \in Procs, ForkAlloc(c, q)
        PROVE  SliceRemains'
    BY ZenonT(30), <1>0, <1>1, <2>0, <2>6 DEF ForkAlloc
  <2>7. CASE ForkReady(c)
    <3>1. child[cur[c]] \in Procs
      BY ZenonT(30), <2>7 DEF ForkReady, ProcType
    <3> QED
      BY ZenonT(30), <1>1, <2>0, <2>7, <3>1 DEF ForkReady, mlfq_enqueue
  <2>8. ASSUME NEW q \in Procs, Kill(c, q)
        PROVE  SliceRemains'
    BY ZenonT(30), <1>1, <2>0, <2>8 DEF Kill, mlfq_enqueue
  <2> QED
    BY ZenonT(30), <1>3, <2>1, <2>2, <2>3, <2>4, <2>5, <2>6, <2>7, <2>8 DEF CpuStep
<1>4. CASE UNCHANGED vars
  BY ZenonT(30), <1>2, <1>4 DEF vars, procVars
<1> QED
  BY ZenonT(30), <1>3, <1>4 DEF Next

\* A process never carries a tick count that its level's slice does not allow: a
\* boost, a demotion and a wakeup all reset it under the process's lock.
THEOREM SliceBound == Spec => []SliceRemains
<1>1. Init => SliceRemains
  BY MlfqAssumption, LevelFacts DEF Init, SliceRemains
<1>2. TypeOK /\ Shape /\ SliceRemains /\ [Next]_vars => SliceRemains'
  BY ZenonT(30), SliceStep
<1> QED
  BY <1>1, <1>2, ShapeCorrect, PTL DEF Spec

-----------------------------------------------------------------------------
(* The scan.                                                               *)

\* The scan so far: no steady process of a slot already visited comes before the
\* candidate.
ScanSoFar ==
  \A c \in Cpus : pc[c] = "scan" =>
    \A q \in steady[c] : q < idx[c] =>
      /\ best[c] # NoProc
      /\ \/ prio[c] < priority[q]
         \/ prio[c] = priority[q] /\ best_qtime[c] <= qtime[q]

\* A CPU that is scanning after a step has just begun, or has visited a slot, or has
\* been left alone by a step of another CPU.
LEMMA ScanEffects ==
  ASSUME TypeOK, Shape, NEW c \in Cpus, CpuStep(c), NEW d \in Cpus, pc'[d] = "scan"
  PROVE  \/ pc[d] # "scan" /\ idx'[d] = 1 /\ best'[d] = best[d]
         \/ ScanStep(d)
         \/ /\ pc[d] = "scan" /\ idx'[d] = idx[d] /\ best'[d] = best[d]
            /\ best_qtime'[d] = best_qtime[d] /\ prio'[d] = prio[d]
<1>0. /\ CpuType
      /\ best \in [Cpus -> Procs \cup {NoProc}] /\ best_qtime \in [Cpus -> Nat]
      /\ prio \in [Cpus -> 0 .. MLFQ_LEVELS]
  BY ZenonT(30) DEF TypeOK, CpuType
<1> USE <1>0 DEF CpuType
<1>1. CASE SchedStart(c)
  BY ZenonT(30), <1>1 DEF SchedStart, Goto, Shape, pickVars
<1>2. CASE ScanStep(c)
  BY ZenonT(30), <1>2 DEF ScanStep, pickVars
<1>3. CASE Idle(c) \/ DispatchLost(c)
  BY ZenonT(30), <1>3 DEF Idle, DispatchLost, BackToScheduler, Goto
<1>4. CASE Dispatch(c)
  BY ZenonT(30), <1>4 DEF Dispatch, Goto
<1>5. CASE ClockIntr(c) \/ ReadTicks(c) \/ CheckBoost(c) \/ Account(c) \/ Wakeup(c)
  BY ZenonT(30), <1>5 DEF ClockIntr, ReadTicks, CheckBoost, Account, Wakeup, Goto, pickVars
<1>6. CASE WakeStep(c)
  BY ZenonT(30), <1>6 DEF WakeStep, Loop, AfterWakeup, Goto, pickVars
<1>7. CASE BoostStep(c)
  BY ZenonT(30), <1>7 DEF BoostStep, Loop, Goto, pickVars
<1>8. CASE ReadPriority(c)
  BY ZenonT(30), <1>8 DEF ReadPriority, Goto
<1>9. CASE HigherStep(c)
  BY ZenonT(30), <1>9 DEF HigherStep, Goto
<1>10. CASE Yield(c) \/ Exit(c) \/ \E ch \in Chans : Sleep(c, ch)
  BY ZenonT(30), <1>10 DEF Yield, Exit, Sleep, Leave, Goto, pickVars
<1>11. CASE ForkReady(c) \/ \E q \in Procs : Kill(c, q) \/ ForkAlloc(c, q) \/ Reap(c, q)
  BY ZenonT(30), <1>11 DEF ForkReady, Kill, ForkAlloc, Reap, cpuVars, pickVars
<1> QED
  BY ZenonT(30), <1>1, <1>2, <1>3, <1>4, <1>5, <1>6, <1>7, <1>8, <1>9, <1>10, <1>11 DEF CpuStep

\* A scan keeps its promise for the slots it has passed: a steady process keeps its
\* place, and the candidate changes only for a better one.
LEMMA ScanKeeps ==
  ASSUME TypeOK, Shape, ScanSoFar, [Next]_vars
  PROVE  ScanSoFar'
<1>1. CASE UNCHANGED vars
  BY ZenonT(30), <1>1 DEF vars, procVars, cpuVars, pickVars, histVars, ScanSoFar
<1>2. ASSUME NEW c \in Cpus, CpuStep(c), SteadyStep
      PROVE  ScanSoFar'
  <2> SUFFICES ASSUME NEW d \in Cpus, pc'[d] = "scan", NEW q \in steady'[d], q < idx'[d]
               PROVE  /\ best'[d] # NoProc
                      /\ \/ prio'[d] < priority'[q]
                         \/ prio'[d] = priority'[q] /\ best_qtime'[d] <= qtime'[q]
    BY ZenonT(30) DEF ScanSoFar
  <2>1. /\ q \in Procs /\ (pc[d] = "scan" => q \in steady[d])
        /\ state[q] = "RUNNABLE"
        /\ priority'[q] = priority[q] /\ qtime'[q] = qtime[q]
    BY ZenonT(30), <1>2 DEF SteadyStep, TypeOK
  <2>2. CASE pc[d] # "scan" /\ idx'[d] = 1 /\ best'[d] = best[d]
    BY <2>1, <2>2 DEF Procs
  <2>3. CASE /\ pc[d] = "scan" /\ idx'[d] = idx[d] /\ best'[d] = best[d]
             /\ best_qtime'[d] = best_qtime[d] /\ prio'[d] = prio[d]
    BY ZenonT(30), <2>1, <2>3 DEF ScanSoFar
  <2>4. CASE ScanStep(d)
    <3>1. /\ pc[d] = "scan" /\ idx[d] \in Procs /\ idx'[d] = idx[d] + 1
          /\ best \in [Cpus -> Procs \cup {NoProc}] /\ best_qtime \in [Cpus -> Nat]
          /\ prio \in [Cpus -> 0 .. MLFQ_LEVELS] /\ 0 \notin Procs
      BY SMTT(30), <2>4 DEF ScanStep, TypeOK, Procs
    <3>2. /\ priority[q] \in Nat /\ qtime[q] \in Nat /\ MLFQ_LEVELS \in Nat
          /\ priority[idx[d]] \in Nat /\ qtime[idx[d]] \in Nat
      BY <2>1, <3>1, MlfqAssumption DEF TypeOK, Levels
    <3>3. CASE state[idx[d]] = "RUNNABLE" /\ Beats(d, idx[d])
      <4>1. best'[d] = idx[d] /\ prio'[d] = priority[idx[d]] /\ best_qtime'[d] = qtime[idx[d]]
        BY ZenonT(30), <2>4, <3>1, <3>3 DEF ScanStep
      <4>2. CASE q = idx[d]
        BY SMTT(30), <2>1, <3>1, <3>2, <4>1, <4>2 DEF NoProc
      <4>3. CASE q # idx[d]
        <5>1. q < idx[d]
          BY <2>1, <3>1, <4>3 DEF Procs
        <5>2. /\ best[d] # NoProc
              /\ \/ prio[d] < priority[q]
                 \/ prio[d] = priority[q] /\ best_qtime[d] <= qtime[q]
          BY ZenonT(30), <2>1, <3>1, <5>1 DEF ScanSoFar
        <5>3. prio[d] \in Nat /\ best_qtime[d] \in Nat
          BY <3>1, <3>2
        <5> QED
          BY SMTT(30), <2>1, <3>1, <3>2, <3>3, <4>1, <5>2, <5>3 DEF Beats, NoProc
      <4> QED
        BY ZenonT(30), <4>2, <4>3
    <3>4. CASE ~(state[idx[d]] = "RUNNABLE" /\ Beats(d, idx[d]))
      <4>1. best'[d] = best[d] /\ prio'[d] = prio[d] /\ best_qtime'[d] = best_qtime[d]
        BY ZenonT(30), <2>4, <3>4 DEF ScanStep, pickVars
      <4>2. prio[d] \in Nat /\ best_qtime[d] \in Nat
        BY SMTT(30), <3>1, <3>2
      <4>3. CASE q = idx[d]
        BY SMTT(30), <2>1, <3>2, <3>4, <4>1, <4>2, <4>3 DEF Beats
      <4>4. CASE q # idx[d]
        <5>1. q < idx[d]
          BY <2>1, <3>1, <4>4 DEF Procs
        <5> QED
          BY ZenonT(30), <2>1, <3>1, <4>1, <5>1 DEF ScanSoFar
      <4> QED
        BY ZenonT(30), <4>3, <4>4
    <3> QED
      BY ZenonT(30), <3>3, <3>4
  <2> QED
    BY ZenonT(30), <1>2, <2>2, <2>3, <2>4, ScanEffects
<1> QED
  BY ZenonT(30), <1>1, <1>2 DEF Next

\* When the scan of scheduler() ends, no process that stayed RUNNABLE and in its
\* place all through it comes before the candidate, whatever the other CPUs did.
THEOREM ScanIsSound == Spec => []ScanPicksBest
<1>1. Init => ScanSoFar
  BY ZenonT(30) DEF Init, ScanSoFar
<1>2. TypeOK /\ Shape /\ ScanSoFar /\ [Next]_vars => ScanSoFar'
  BY ZenonT(30), ScanKeeps
<1>3. TypeOK /\ ScanSoFar => ScanPicksBest
  <2> SUFFICES ASSUME TypeOK, ScanSoFar, NEW c \in Cpus, pc[c] = "scan",
                      idx[c] = NPROC + 1, NEW q \in steady[c]
               PROVE  q < idx[c]
    BY ZenonT(30) DEF ScanPicksBest, ScanSoFar
  <2>1. q \in 1 .. NPROC
    BY ZenonT(30) DEF TypeOK, Procs
  <2> QED
    BY <2>1, MlfqAssumption
<1> QED
  BY <1>1, <1>2, <1>3, ShapeCorrect, PTL DEF Spec

-----------------------------------------------------------------------------
(* The switch.  Other CPUs may move the candidate and the others while the     *)
(* scan goes on; among those they leave alone the best is switched to.         *)

\* As long as the candidate stays in its place, what was recorded of it is so.
CandidateInPlace ==
  \A c \in Cpus : pc[c] = "scan" /\ best[c] \in steady[c] =>
    prio[c] = priority[best[c]] /\ best_qtime[c] = qtime[best[c]]

\* A CPU that is not in its scan has forgotten the last one.
NoCandidate == \A c \in Cpus : pc[c] # "scan" => best[c] = NoProc

\* The candidate is forgotten wherever the scan is left.
LEMMA CandidateForgotten ==
  ASSUME TypeOK, NoCandidate, NEW c \in Cpus, CpuStep(c)
  PROVE  NoCandidate'
<1>0. /\ CpuType /\ best \in [Cpus -> Procs \cup {NoProc}]
  BY ZenonT(30) DEF TypeOK, CpuType
<1> USE <1>0 DEF CpuType, NoCandidate
<1>1. CASE SchedStart(c)
  BY ZenonT(30), <1>1 DEF SchedStart, Goto, pickVars
<1>2. CASE ScanStep(c)
  BY ZenonT(30), <1>2 DEF ScanStep, pickVars
<1>3. CASE Idle(c) \/ DispatchLost(c)
  BY ZenonT(30), <1>3 DEF Idle, DispatchLost, BackToScheduler, Goto
<1>4. CASE Dispatch(c)
  BY ZenonT(30), <1>4 DEF Dispatch, Goto
<1>5. CASE ClockIntr(c) \/ ReadTicks(c) \/ CheckBoost(c) \/ Account(c) \/ Wakeup(c)
  BY ZenonT(30), <1>5 DEF ClockIntr, ReadTicks, CheckBoost, Account, Wakeup, InProcess, Goto, pickVars
<1>6. CASE WakeStep(c)
  BY ZenonT(30), <1>6 DEF WakeStep, Loop, AfterWakeup, Goto, pickVars
<1>7. CASE BoostStep(c)
  BY ZenonT(30), <1>7 DEF BoostStep, Loop, Goto, pickVars
<1>8. CASE ReadPriority(c)
  BY ZenonT(30), <1>8 DEF ReadPriority, Goto
<1>9. CASE HigherStep(c)
  BY ZenonT(30), <1>9 DEF HigherStep, Goto
<1>10. CASE Yield(c) \/ Exit(c) \/ \E ch \in Chans : Sleep(c, ch)
  BY ZenonT(30), <1>10 DEF Yield, Exit, Sleep, InProcess, Leave, Goto, pickVars
<1>11. CASE ForkReady(c) \/ \E q \in Procs : Kill(c, q) \/ ForkAlloc(c, q) \/ Reap(c, q)
  BY ZenonT(30), <1>11 DEF ForkReady, Kill, ForkAlloc, Reap, cpuVars, pickVars
<1> QED
  BY ZenonT(30), <1>1, <1>2, <1>3, <1>4, <1>5, <1>6, <1>7, <1>8, <1>9, <1>10, <1>11 DEF CpuStep

\* A candidate that stays in its place stays as it was recorded.
LEMMA CandidateKeeps ==
  ASSUME TypeOK, Shape, NoCandidate, CandidateInPlace, [Next]_vars
  PROVE  (NoCandidate /\ CandidateInPlace)'
<1>1. CASE UNCHANGED vars
  BY ZenonT(30), <1>1 DEF vars, procVars, cpuVars, pickVars, histVars, CandidateInPlace, NoCandidate
<1>2. ASSUME NEW c \in Cpus, CpuStep(c), SteadyStep
      PROVE  (NoCandidate /\ CandidateInPlace)'
  <2>1. NoCandidate'
    BY ZenonT(30), <1>2, CandidateForgotten
  <2>2. SUFFICES ASSUME NEW d \in Cpus, pc'[d] = "scan", best'[d] \in steady'[d]
                 PROVE  prio'[d] = priority'[best'[d]] /\ best_qtime'[d] = qtime'[best'[d]]
    BY ZenonT(30), <2>1 DEF CandidateInPlace
  <2>3. /\ best'[d] \in Procs /\ (pc[d] = "scan" => best'[d] \in steady[d])
        /\ priority'[best'[d]] = priority[best'[d]] /\ qtime'[best'[d]] = qtime[best'[d]]
    BY ZenonT(30), <1>2, <2>2 DEF SteadyStep, TypeOK
  <2>4. CASE pc[d] # "scan" /\ idx'[d] = 1 /\ best'[d] = best[d]
    <3>1. best[d] = NoProc
      BY ZenonT(30), <2>4 DEF NoCandidate
    <3> QED BY <2>3, <2>4, <3>1 DEF Procs, NoProc
  <2>5. CASE /\ pc[d] = "scan" /\ idx'[d] = idx[d] /\ best'[d] = best[d]
             /\ best_qtime'[d] = best_qtime[d] /\ prio'[d] = prio[d]
    BY ZenonT(30), <2>3, <2>5 DEF CandidateInPlace
  <2>6. CASE ScanStep(d)
    <3>1. /\ pc[d] = "scan"
          /\ best \in [Cpus -> Procs \cup {NoProc}] /\ best_qtime \in [Cpus -> Nat]
          /\ prio \in [Cpus -> 0 .. MLFQ_LEVELS]
      BY ZenonT(30), <2>6 DEF ScanStep, TypeOK
    <3>2. CASE state[idx[d]] = "RUNNABLE" /\ Beats(d, idx[d])
      BY ZenonT(30), <2>3, <2>6, <3>1, <3>2 DEF ScanStep
    <3>3. CASE ~(state[idx[d]] = "RUNNABLE" /\ Beats(d, idx[d]))
      <4>1. best'[d] = best[d] /\ prio'[d] = prio[d] /\ best_qtime'[d] = best_qtime[d]
        BY ZenonT(30), <2>6, <3>3 DEF ScanStep, pickVars
      <4> QED BY ZenonT(30), <2>3, <3>1, <4>1 DEF CandidateInPlace
    <3> QED BY ZenonT(30), <3>2, <3>3
  <2> QED
    BY ZenonT(30), <1>2, <2>2, <2>4, <2>5, <2>6, ScanEffects
<1> QED
  BY ZenonT(30), <1>1, <1>2 DEF Next

\* A switch is the end of a scan: it takes the candidate.
LEMMA SwitchIsDispatch ==
  ASSUME TypeOK, Shape, NEW c \in Cpus, CpuStep(c), NEW d \in Cpus, Dispatches(d)
  PROVE  /\ pc[d] = "scan" /\ idx[d] = NPROC + 1
         /\ best[d] \in Procs /\ cur'[d] = best[d]
<1>0. cur \in [Cpus -> Procs \cup {NoProc}] /\ best[d] \in Procs \cup {NoProc}
  BY ZenonT(30) DEF TypeOK
<1> USE <1>0 DEF Dispatches
<1>1. CASE Dispatch(c)
  BY ZenonT(30), <1>1 DEF Dispatch
<1>2. CASE \/ SchedStart(c) \/ ScanStep(c) \/ Idle(c) \/ DispatchLost(c)
           \/ ClockIntr(c) \/ WakeStep(c) \/ ReadTicks(c) \/ CheckBoost(c) \/ BoostStep(c)
           \/ Account(c) \/ ReadPriority(c) \/ HigherStep(c) \/ Wakeup(c)
  BY ZenonT(30), <1>2 DEF SchedStart, ScanStep, Idle, DispatchLost, ClockIntr, WakeStep,
     ReadTicks, CheckBoost, BoostStep, Account, ReadPriority, HigherStep, Wakeup
<1>3. CASE Yield(c) \/ Exit(c) \/ \E ch \in Chans : Sleep(c, ch)
  BY ZenonT(30), <1>3 DEF Yield, Exit, Sleep, Leave
<1>4. CASE ForkReady(c) \/ \E q \in Procs : Kill(c, q) \/ ForkAlloc(c, q) \/ Reap(c, q)
  BY ZenonT(30), <1>4 DEF ForkReady, Kill, ForkAlloc, Reap, cpuVars
<1> QED
  BY ZenonT(30), <1>1, <1>2, <1>3, <1>4 DEF CpuStep

\* Whatever the other CPUs do, of the processes that stayed RUNNABLE and in their
\* places from the start of the scan of scheduler() to the switch, the one switched to
\* has the least (priority, qtime).
THEOREM DispatchesTheBest == Spec => StrictPriority
<1> DEFINE Rule ==
      \A c \in Cpus : Dispatches(c) /\ cur'[c] \in steady[c] =>
        \A q \in steady[c] :
          \/ priority[cur'[c]] < priority[q]
          \/ priority[cur'[c]] = priority[q] /\ qtime[cur'[c]] <= qtime[q]
<1>1. Init => NoCandidate /\ CandidateInPlace
  BY ZenonT(30) DEF Init, NoCandidate, CandidateInPlace
<1>2. TypeOK /\ Shape /\ NoCandidate /\ CandidateInPlace /\ [Next]_vars
      => (NoCandidate /\ CandidateInPlace)'
  BY ZenonT(30), CandidateKeeps
<1>3. TypeOK /\ Shape /\ CandidateInPlace /\ ScanPicksBest /\ [Next]_vars => [Rule]_vars
  <2> SUFFICES ASSUME TypeOK, Shape, CandidateInPlace, ScanPicksBest, NEW e \in Cpus, CpuStep(e),
                      NEW c \in Cpus, Dispatches(c), cur'[c] \in steady[c], NEW q \in steady[c]
               PROVE  \/ priority[cur'[c]] < priority[q]
                      \/ priority[cur'[c]] = priority[q] /\ qtime[cur'[c]] <= qtime[q]
    BY ZenonT(30) DEF Next
  <2>1. /\ pc[c] = "scan" /\ idx[c] = NPROC + 1
        /\ best[c] \in Procs /\ cur'[c] = best[c]
    BY ZenonT(30), SwitchIsDispatch
  <2>2. prio[c] = priority[best[c]] /\ best_qtime[c] = qtime[best[c]]
    BY ZenonT(30), <2>1 DEF CandidateInPlace
  <2> QED BY ZenonT(60), <2>1, <2>2 DEF ScanPicksBest
<1> QED
  BY <1>1, <1>2, <1>3, ShapeCorrect, ScanIsSound, PTL DEF Spec, StrictPriority

=============================================================================
