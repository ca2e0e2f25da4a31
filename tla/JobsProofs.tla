----------------------------- MODULE JobsProofs -----------------------------
(***************************************************************************)
(* Theorems about what the job table, the foreground wait and the output   *)
(* registry of Jobs know of the children: no exit, no stop and no output   *)
(* is lost on the way from the kernel to them.                             *)
(***************************************************************************)
EXTENDS JobsInvariant

-----------------------------------------------------------------------------
(* What has been heard of the children.                                    *)

\* The last event of a child in the queue tells of the state the child is in, unless
\* the kernel has a later one.
QueueTells ==
  \A p \in Pids :
    \/ report[p] # "none"
    \/ Settled(p)
    \/ \E i \in DOMAIN pending : /\ pending[i] = [pid |-> p, status |-> StatusOf(p)]
                                 /\ \A k \in DOMAIN pending : k > i => pending[k].pid # p

\* During the launch no event is applied.
LaunchedRunning ==
  pc = "launch" => \A p \in Range(wait.pids) : Settled(p) => proc[p] \in Born

\* Of a process whose exit has been applied no output is left to copy.
NoneLeft == \A p \in Pids : proc[p] = "exited" /\ Settled(p) => out[p] # "used"

\* Of the exit of a process the job table and the wait have heard.
ExitsApplied ==
  /\ Waiting => \A p \in Pids : Range(wait.pids) = {p} /\ Settled(p) /\ proc[p] = "exited"
                  => p \in wait.done
  /\ \A j \in Numbers : \A p \in Pids :
       j # wait.job /\ Members(j) = {p} /\ Settled(p) => proc[p] # "exited"

\* Of the stops and continuations of a process they have heard as well, when the process
\* is in the group that they have for it.
StopsApplied ==
  /\ Waiting => \A p \in Pids : Range(wait.pids) = {p} /\ Settled(p) /\ pgrp[p] = wait.pgid
                  => (wait.stopped <=> proc[p] = "stopped")
  /\ \A j \in Numbers : \A p \in Pids :
       j # wait.job /\ Members(j) = {p} /\ Settled(p) /\ pgrp[p] = jobs[j].pgid =>
         (jobs[j].state = "JOB_STOPPED" <=> proc[p] = "stopped")

\* The handler never finds the queue full.
NothingDropped == [][SigchldHandler => Fits]_vars

\* A job leaves the table only when each of its processes has exited, or when the
\* resume that waits for it has timed out.
THEOREM RemovedOnlyWhenExited == Spec => RemovedWhenExited
<1> DEFINE Gone(j) == \/ \A p \in Members(j) : proc[p] = "exited"
                      \/ wait.job = j /\ timed_out
<1>1. ASSUME JobsInv, [Next]_vars, NEW j \in Numbers, j \notin DOMAIN jobs' PROVE Gone(j)
  <2>0. Types /\ DoneSettled /\ Membership /\ WaitShape /\ Forks /\ Reports
    BY Zenon, <1>1 DEF JobsInv
  <2>1. CASE CalmActions
    BY Zenon, <1>1, <2>0, <2>1, CalmEffects DEF Calm, SameTable, Numbers
  <2>2. CASE SigchldHandler
    BY Zenon, <1>1, <2>2, HandlerPlaces DEF tableVars, Numbers
  <2>3. CASE StageFails \/ Forking
    BY Zenon, <1>1, <2>3 DEF StageFails, Forking, StageForks, tableVars, Numbers
  <2>4. CASE Launched
    BY ZenonT(30), <1>1, <2>0, <2>4, LaunchedEffects, Registered DEF LaunchLeaves, Numbers
  <2>5. CASE WaitReturns
    <3>1. WaitOver \/ timed_out
      BY Zenon, <2>0, <2>5, ReturnEffects
    <3>2. CASE jobs_register(wait.pgid, wait.pids, FALSE, "JOB_STOPPED")
      BY ZenonT(30), <1>1, <2>0, <3>2, Registered DEF Numbers
    <3>3. CASE jobs' = [jobs EXCEPT ![wait.job].state = "JOB_STOPPED"]
      BY Zenon, <1>1, <3>3 DEF Numbers
    <3>4. CASE wait.job # None /\ ~wait.stopped /\ jobs' = Without(jobs, wait.job)
      <4>1. j = wait.job
        BY <1>1, <3>4 DEF Without, Numbers
      <4>2. jobs[wait.job].pids = wait.pids
        BY Zenon, <2>0, <3>4 DEF Membership
      <4>3. wait.done = Range(wait.pids) => \A p \in Members(j) : proc[p] = "exited"
        BY Zenon, <2>0, <4>1, <4>2 DEF DoneSettled, Members
      <4> QED BY Zenon, <3>1, <3>4, <4>1, <4>3 DEF WaitOver
    <3>5. CASE UNCHANGED jobs
      BY Zenon, <1>1, <3>5 DEF Numbers
    <3> QED BY ZenonT(30), <2>0, <2>5, <3>2, <3>3, <3>4, <3>5, ReturnEffects
  <2>6. CASE \E ok \in Pipelines, background \in BOOLEAN, redirect \in Redirects :
               Launch(ok, background, redirect)
    BY Zenon, <1>1, <2>6 DEF Launch, tableVars, Numbers
  <2>7. CASE \E n \in Numbers : \E timeout \in Timeouts : ResumeFg(n, timeout)
    <3>1. SameTable
      BY Zenon, <1>1, <2>7, ResumeEffects
    <3> QED BY Zenon, <1>1, <3>1 DEF SameTable, Numbers
  <2>8. ASSUME NEW e, Tracked(e) PROVE Gone(j)
    <3>1. TableStep(e)
      BY Zenon, <1>1, <2>8, TrackedEffects
    <3>2. e \in Event /\ (e.status = "exited" => proc[e.pid] = "exited")
      BY Zenon, <1>1, <2>8, TakeInv DEF Tracked
    <3>3. e.status = "exited" /\ jobs[j].done \cup {e.pid} = Members(j)
      BY ZenonT(30), <1>1, <2>0, <3>1, <3>2, TableEffects DEF Numbers
    <3> QED BY Zenon, <2>0, <3>2, <3>3 DEF DoneSettled
  <2>9. ASSUME NEW e, Counted(e) PROVE Gone(j)
    BY Zenon, <1>1, <2>9 DEF Counted, Numbers
  <2>10. Steps
    BY Zenon, <1>1, <2>0, StepCases
  <2> HIDE DEF Gone
  <2> QED BY ZenonT(30), <2>1, <2>2, <2>3, <2>4, <2>5, <2>6, <2>7, <2>8, <2>9, <2>10 DEF Steps
<1>2. JobsInv /\ [Next]_vars =>
        [\A j \in Numbers \ DOMAIN jobs' : \/ \A p \in Members(j) : proc[p] = "exited"
                                           \/ wait.job = j /\ timed_out]_vars
  BY Zenon, <1>1
<1> QED BY <1>2, JobsSafe, PTL DEF Spec, RemovedWhenExited

-----------------------------------------------------------------------------
(* With a queue that has room, nothing that happens to a child is lost.    *)

\* The steps that take no event from the queue.
OtherSteps ==
  \/ CalmActions \/ SigchldHandler \/ StageFails \/ Forking \/ Launched \/ WaitReturns
  \/ \E ok \in Pipelines, background \in BOOLEAN, redirect \in Redirects :
       Launch(ok, background, redirect)
  \/ \E j \in Numbers : \E timeout \in Timeouts : ResumeFg(j, timeout)

\* They settle no child.
Hushed ==
  /\ \A p \in Started : Settled(p)' => Settled(p) /\ proc'[p] = proc[p]
  /\ \A p \in Pids \ Started : proc'[p] \in {"none"} \cup Born
  /\ \A p \in Pids : proc[p] # "none" => proc'[p] # "none"

\* The children and the queue are as they were.
LEMMA Idle ==
  ASSUME Types, UNCHANGED <<proc, report, pending>>
  PROVE  Hushed
BY Zenon DEF Hushed, Settled, Started

\* Nor do the kernel's steps settle a child.
LEMMA KernelHushed ==
  ASSUME Types, KernelStep, UNCHANGED pending
  PROVE  Hushed
<1>1. /\ \A p \in Pids : Settled(p)' => Settled(p) /\ proc'[p] = proc[p]
      /\ \A p \in Pids : proc'[p] # "none" <=> proc[p] # "none"
  BY Zenon, KernelEffects
<1> QED BY Zenon, <1>1 DEF Hushed, Started

\* The handler, when the queue has room.
LEMMA HandlerHushed ==
  ASSUME Types, SigchldHandler, Fits
  PROVE  Hushed
<1>1. proc' = proc
  BY Zenon, HandlerPlaces
<1>2. /\ \A i \in DOMAIN pending : i \in DOMAIN pending' /\ pending'[i] = pending[i]
      /\ \A p \in Pids : report[p] # "none" => \E i \in DOMAIN pending' : pending'[i].pid = p
  BY Zenon, HandlerEffects
<1>3. \A p \in Pids : Settled(p)' => Settled(p)
  BY Zenon, <1>2 DEF Settled
<1> QED BY Zenon, <1>1, <1>3 DEF Hushed, Started

\* The start of a child.
LEMMA StageHushed ==
  ASSUME Types, Forks, Reports, Forking
  PROVE  Hushed
<1>1. PICK p \in Pids, born \in Born : proc[p] = "none" /\ proc' = [proc EXCEPT ![p] = born]
  BY Zenon, StageEffects
<1>2. UNCHANGED <<report, pending>>
  BY Zenon DEF Forking, StageForks
<1>3. proc'[p] \in Born /\ \A q \in Pids : q # p => proc'[q] = proc[q]
  BY <1>1 DEF Types
<1>4. \A q \in Pids : Settled(q)' <=> Settled(q)
  BY Zenon, <1>2 DEF Settled
<1>5. \A q \in Pids \ Started : proc'[q] \in {"none"} \cup Born
  BY Zenon, <1>3 DEF Started
<1>6. proc'[p] # "none"
  BY <1>3 DEF Born
<1> QED BY ZenonT(30), <1>1, <1>3, <1>4, <1>5, <1>6 DEF Hushed, Started

\* All the steps that take no event.
LEMMA OtherHushed ==
  ASSUME JobsInv, OtherSteps, SigchldHandler => Fits
  PROVE  Hushed
<1>0. Types /\ Forks /\ Reports /\ WaitShape
  BY Zenon DEF JobsInv
<1>1. CASE CalmActions
  BY Zenon, <1>0, <1>1, CalmEffects, KernelHushed DEF Calm
<1>2. CASE SigchldHandler
  BY Zenon, <1>0, <1>2, HandlerHushed
<1>3. CASE Forking
  BY Zenon, <1>0, <1>3, StageHushed
<1>4. CASE StageFails
  BY Zenon, <1>0, <1>4, Idle DEF StageFails, osVars
<1>5. CASE Launched
  BY ZenonT(30), <1>0, <1>5, Idle, LaunchedEffects DEF SameWorld
<1>6. CASE WaitReturns
  BY ZenonT(30), <1>0, <1>6, Idle DEF WaitReturns, osVars
<1>7. CASE \E ok \in Pipelines, background \in BOOLEAN, redirect \in Redirects :
             Launch(ok, background, redirect)
  BY Zenon, <1>0, <1>7, Idle DEF Launch, osVars
<1>8. CASE \E j \in Numbers : \E timeout \in Timeouts : ResumeFg(j, timeout)
  BY Zenon, <1>0, <1>8, ResumeEffects, KernelHushed
<1> QED BY ZenonT(30), <1>1, <1>2, <1>3, <1>4, <1>5, <1>6, <1>7, <1>8 DEF OtherSteps

\* The shell takes the last event of a child: it tells of the state the child is in.
LEMMA LastEvent ==
  ASSUME JobsInv, QueueTells, NEW e, Take(e), Settled(e.pid)'
  PROVE  e.status = StatusOf(e.pid)
<1>0. Types /\ ExitsLast
  BY Zenon DEF JobsInv
<1>1. /\ pending # <<>> /\ e = Head(pending) /\ pending' = take_pending
      /\ UNCHANGED <<proc, report>>
  BY Zenon DEF Take
<1>2. /\ e = pending[1] /\ 1 \in DOMAIN pending
      /\ \A i \in DOMAIN pending : i # 1 => i - 1 \in DOMAIN pending' /\ pending'[i - 1] = pending[i]
      /\ ~Settled(e.pid) /\ e \in Event
  BY ZenonT(30), <1>0, <1>1, TakeEffects
<1>3. e.pid \in Pids
  BY Zenon, TakeInv
<1>4. report[e.pid] = "none" /\ \A i \in DOMAIN pending' : pending'[i].pid # e.pid
  <2> DEFINE p == e.pid
  <2>1. Settled(p)' <=> (report'[p] = "none" /\ \A i \in DOMAIN pending' : pending'[i].pid # p)
    BY Zenon DEF Settled
  <2> QED BY ZenonT(30), <1>1, <2>1
<1>5. PICK i \in DOMAIN pending : pending[i] = [pid |-> e.pid, status |-> StatusOf(e.pid)]
  BY ZenonT(30), <1>2, <1>3, <1>4 DEF QueueTells
<1>6. pending[i].pid = e.pid /\ pending[i].status = StatusOf(e.pid)
  BY <1>5
<1>7. i = 1
  BY Zenon, <1>2, <1>4, <1>6
<1> QED BY Zenon, <1>2, <1>6, <1>7

\* QueueTells when an event is taken.
LEMMA TakeTells ==
  ASSUME JobsInv, QueueTells, NEW e, Take(e)
  PROVE  QueueTells'
<1>0. Types /\ ExitsLast
  BY Zenon DEF JobsInv
<1>1. /\ pending # <<>> /\ e = Head(pending) /\ pending' = take_pending
      /\ UNCHANGED <<proc, report>>
  BY Zenon DEF Take
<1>2. /\ e = pending[1] /\ 1 \in DOMAIN pending
      /\ \A i \in DOMAIN pending' : i + 1 \in DOMAIN pending /\ pending'[i] = pending[i + 1]
      /\ \A i \in DOMAIN pending : i # 1 => i - 1 \in DOMAIN pending' /\ pending'[i - 1] = pending[i]
      /\ \A i \in DOMAIN pending : i \in Nat
      /\ \A i \in DOMAIN pending' : i \in Nat \ {0}
      /\ \A p \in Pids : Settled(p) => Settled(p)'
  BY ZenonT(30), <1>0, <1>1, TakeEffects
<1>3. ASSUME NEW p \in Pids, report[p] = "none", ~Settled(p)
      PROVE  \/ Settled(p)'
             \/ \E i \in DOMAIN pending' : /\ pending'[i] = [pid |-> p, status |-> StatusOf(p)]
                                           /\ \A k \in DOMAIN pending' : k > i => pending'[k].pid # p
  <2>1. PICK i \in DOMAIN pending : /\ pending[i] = [pid |-> p, status |-> StatusOf(p)]
                                    /\ \A k \in DOMAIN pending : k > i => pending[k].pid # p
    BY Zenon, <1>3 DEF QueueTells
  <2>2. CASE i = 1
    <3>1. \A k \in DOMAIN pending' : k + 1 > 1
      BY <1>2
    <3>2. \A k \in DOMAIN pending' : pending'[k].pid # p
      BY ZenonT(30), <1>2, <2>1, <2>2, <3>1
    <3>3. report'[p] = "none"
      BY Zenon, <1>1, <1>3
    <3> QED BY Zenon, <3>2, <3>3 DEF Settled
  <2>3. CASE i # 1
    <3>1. i - 1 \in DOMAIN pending' /\ pending'[i - 1] = [pid |-> p, status |-> StatusOf(p)]
      BY Zenon, <1>2, <2>1, <2>3
    <3>2. \A k \in DOMAIN pending' : k > i - 1 => k + 1 > i
      BY <1>2
    <3>3. \A k \in DOMAIN pending' : k > i - 1 => pending'[k].pid # p
      BY Zenon, <1>2, <2>1, <3>2
    <3> QED BY Zenon, <3>1, <3>3
  <2> QED BY Zenon, <2>2, <2>3
<1>4. \A p \in Pids : StatusOf(p)' = StatusOf(p)
  BY Zenon, <1>1 DEF StatusOf
<1>5. ASSUME NEW p \in Pids
      PROVE  \/ report'[p] # "none"
             \/ Settled(p)'
             \/ \E i \in DOMAIN pending' : /\ pending'[i] = [pid |-> p, status |-> StatusOf(p)']
                                           /\ \A k \in DOMAIN pending' : k > i => pending'[k].pid # p
  <2>1. StatusOf(p)' = StatusOf(p) /\ report'[p] = report[p] /\ (Settled(p) => Settled(p)')
    BY ZenonT(30), <1>1, <1>2, <1>4
  <2>2. CASE report[p] # "none" \/ Settled(p)
    BY Zenon, <2>1, <2>2
  <2>3. CASE report[p] = "none" /\ ~Settled(p)
    <3> DEFINE Last(s) == \E i \in DOMAIN pending' :
                            /\ pending'[i] = [pid |-> p, status |-> s]
                            /\ \A k \in DOMAIN pending' : k > i => pending'[k].pid # p
    <3>1. Settled(p)' \/ Last(StatusOf(p))
      BY Zenon, <1>3, <2>3
    <3> HIDE DEF Last
    <3>2. Settled(p)' \/ Last(StatusOf(p)')
      BY Zenon, <2>1, <3>1
    <3> QED BY Zenon, <3>2 DEF Last
  <2> QED BY Zenon, <2>2, <2>3
<1> QED BY Zenon, <1>5 DEF QueueTells

\* QueueTells when the handler has room.
LEMMA HandlerTells ==
  ASSUME JobsInv, QueueTells, SigchldHandler, Fits
  PROVE  QueueTells'
<1>0. Types /\ Reports
  BY Zenon DEF JobsInv
<1>1. /\ proc' = proc
      /\ report' = [p \in Pids |-> "none"]
      /\ \A i \in DOMAIN pending' :
           \/ i \in DOMAIN pending /\ pending'[i] = pending[i]
           \/ /\ report[pending'[i].pid] # "none"
              /\ pending'[i].status = report[pending'[i].pid]
              /\ \A k \in DOMAIN pending' : k > i => pending'[k].pid # pending'[i].pid
      /\ \A i \in DOMAIN pending : i \in DOMAIN pending' /\ pending'[i] = pending[i]
      /\ \A p \in Pids : report[p] # "none" =>
           \E i \in DOMAIN pending' : pending'[i].pid = p /\ \A n \in DOMAIN pending : n < i
      /\ pending' \in Seq(Event)
  BY ZenonT(30), <1>0, HandlerEffects, HandlerPlaces
<1>2. \A p \in Pids : StatusOf(p)' = StatusOf(p) /\ report'[p] = "none"
  BY Zenon, <1>1 DEF StatusOf
<1>3. ASSUME NEW p \in Pids, report[p] # "none"
      PROVE  \E i \in DOMAIN pending' : /\ pending'[i] = [pid |-> p, status |-> StatusOf(p)']
                                        /\ \A k \in DOMAIN pending' : k > i => pending'[k].pid # p
  <2>1. PICK i \in DOMAIN pending' : pending'[i].pid = p /\ \A n \in DOMAIN pending : n < i
    BY Zenon, <1>1, <1>3
  <2>2. i \notin DOMAIN pending
    <3>1. \A n \in DOMAIN pending : ~(n < n)
      BY <1>0 DEF Types
    <3> QED BY Zenon, <2>1, <3>1
  <2>3. pending'[i].status = report[p] /\ \A k \in DOMAIN pending' : k > i => pending'[k].pid # p
    BY ZenonT(30), <1>1, <2>1, <2>2
  <2>4. report[p] = StatusOf(p)'
    BY ZenonT(30), <1>0, <1>2, <1>3 DEF Reports
  <2>5. pending'[i] \in Event
    BY <1>1
  <2>6. pending'[i] = [pid |-> p, status |-> StatusOf(p)']
    <3> DEFINE s == StatusOf(p)'
    <3>1. pending'[i].status = s
      BY Zenon, <2>3, <2>4
    <3> HIDE DEF s
    <3>2. pending'[i] = [pid |-> p, status |-> s]
      BY SMTT(30), <2>1, <2>5, <3>1 DEF Event
    <3> QED BY Zenon, <3>2 DEF s
  <2> QED BY Zenon, <2>3, <2>6
<1>4. ASSUME NEW p \in Pids, report[p] = "none", Settled(p) PROVE Settled(p)'
  <2>1. \A i \in DOMAIN pending' : pending'[i].pid # p
    BY ZenonT(30), <1>1, <1>4 DEF Settled
  <2> QED BY Zenon, <1>2, <2>1 DEF Settled
<1>5. ASSUME NEW p \in Pids, report[p] = "none", ~Settled(p)
      PROVE  \E i \in DOMAIN pending' : /\ pending'[i] = [pid |-> p, status |-> StatusOf(p)']
                                        /\ \A k \in DOMAIN pending' : k > i => pending'[k].pid # p
  <2>1. PICK i \in DOMAIN pending : /\ pending[i] = [pid |-> p, status |-> StatusOf(p)]
                                    /\ \A k \in DOMAIN pending : k > i => pending[k].pid # p
    BY Zenon, <1>5 DEF QueueTells
  <2>2. ASSUME NEW k \in DOMAIN pending', k > i PROVE pending'[k].pid # p
    BY ZenonT(30), <1>1, <1>5, <2>1, <2>2
  <2> QED BY Zenon, <1>1, <1>2, <2>1, <2>2
<1> QED BY Zenon, <1>3, <1>4, <1>5 DEF QueueTells

\* The kernel, and the start of a child.
LEMMA ChildrenTell ==
  ASSUME QueueTells, UNCHANGED pending,
         \A p \in Pids : report'[p] = "none" =>
           /\ report[p] = "none"
           /\ proc'[p] = proc[p] \/ Settled(p)
  PROVE  QueueTells'
<1>1. ASSUME NEW p \in Pids, report'[p] = "none"
      PROVE  \/ Settled(p)'
             \/ \E i \in DOMAIN pending' : /\ pending'[i] = [pid |-> p, status |-> StatusOf(p)']
                                           /\ \A k \in DOMAIN pending' : k > i => pending'[k].pid # p
  <2>1. report[p] = "none" /\ (proc'[p] = proc[p] \/ Settled(p))
    BY Zenon, <1>1
  <2>2. CASE Settled(p)
    BY Zenon, <1>1, <2>2 DEF Settled
  <2>3. CASE ~Settled(p)
    <3> DEFINE Last(s) == \E i \in DOMAIN pending :
                            /\ pending[i] = [pid |-> p, status |-> s]
                            /\ \A k \in DOMAIN pending : k > i => pending[k].pid # p
    <3>1. StatusOf(p)' = StatusOf(p)
      BY Zenon, <2>1, <2>3 DEF StatusOf
    <3>2. Last(StatusOf(p))
      BY ZenonT(30), <2>1, <2>3 DEF QueueTells
    <3> HIDE DEF Last
    <3>3. Last(StatusOf(p)')
      BY ZenonT(30), <3>1, <3>2
    <3> QED BY Zenon, <3>3 DEF Last
  <2> QED BY ZenonT(30), <2>2, <2>3
<1> QED BY Zenon, <1>1 DEF QueueTells

\* QueueTells after every other step.
LEMMA OtherTells ==
  ASSUME JobsInv, OtherSteps, SigchldHandler => Fits, QueueTells
  PROVE  QueueTells'
<1>0. Types /\ Forks /\ Reports /\ WaitShape
  BY Zenon DEF JobsInv
<1>1. CASE KernelStep /\ UNCHANGED pending
  <2>1. \A p \in Pids : report'[p] = "none" => report[p] = "none" /\ proc'[p] = proc[p]
    BY ZenonT(30), <1>0, <1>1, KernelEffects
  <2> QED BY ZenonT(30), <1>1, <2>1, ChildrenTell
<1>2. CASE UNCHANGED <<proc, report, pending>>
  BY Zenon, <1>2, ChildrenTell
<1>3. CASE SigchldHandler
  BY Zenon, <1>3, HandlerTells
<1>4. CASE Forking
  <2>1. PICK p \in Pids, born \in Born : Settled(p) /\ proc' = [proc EXCEPT ![p] = born]
    BY ZenonT(30), <1>0, <1>4, StageEffects
  <2>2. \A q \in Pids : q # p => proc'[q] = proc[q]
    BY SMTT(30), <1>0, <2>1 DEF Types
  <2>3. UNCHANGED <<report, pending>>
    BY Zenon, <1>4 DEF Forking, StageForks
  <2> QED BY ZenonT(30), <2>1, <2>2, <2>3, ChildrenTell
<1>5. CASE CalmActions
  BY ZenonT(30), <1>0, <1>1, <1>5, CalmEffects DEF Calm
<1>6. CASE StageFails \/ WaitReturns
  BY ZenonT(30), <1>2, <1>6 DEF StageFails, WaitReturns, osVars
<1>7. CASE Launched
  BY ZenonT(30), <1>2, <1>7, LaunchedEffects DEF SameWorld
<1>8. CASE \E ok \in Pipelines, background \in BOOLEAN, redirect \in Redirects :
             Launch(ok, background, redirect)
  BY ZenonT(30), <1>2, <1>8 DEF Launch, osVars
<1>9. CASE \E j \in Numbers : \E timeout \in Timeouts : ResumeFg(j, timeout)
  BY Zenon, <1>1, <1>9, ResumeEffects
<1> QED BY ZenonT(30), <1>3, <1>4, <1>5, <1>6, <1>7, <1>8, <1>9 DEF OtherSteps

-----------------------------------------------------------------------------
(* The output registry.                                                    *)

\* Only the launch puts an entry of the registry in use.
LEMMA OtherOutput ==
  ASSUME JobsInv, OtherSteps
  PROVE  \A p \in Started : out'[p] = "used" => out[p] = "used"
<1>0. Types /\ Forks /\ Reports /\ WaitShape
  BY Zenon DEF JobsInv
<1>1. CASE UNCHANGED out
  BY Zenon, <1>1
<1>2. CASE Forking
  <2>1. PICK p \in Pids : /\ proc[p] = "none"
                          /\ out' = [out EXCEPT ![p] = IF wait.redirect THEN "used" ELSE "none"]
    BY Zenon, <1>0, <1>2, StageEffects
  <2>2. \A q \in Pids : q # p => out'[q] = out[q]
    BY <1>0, <2>1 DEF Types
  <2> QED BY Zenon, <2>1, <2>2 DEF Started
<1>3. CASE WaitReturns
  BY Zenon, <1>0, <1>3, ReturnEffects DEF Started
<1>4. CASE CalmActions
  BY ZenonT(30), <1>0, <1>1, <1>4, CalmEffects DEF Calm
<1>5. CASE SigchldHandler
  BY Zenon, <1>1, <1>5, HandlerPlaces
<1>6. CASE StageFails
  BY Zenon, <1>1, <1>6 DEF StageFails
<1>7. CASE Launched
  BY Zenon, <1>1, <1>7, LaunchedEffects DEF SameWorld
<1>8. CASE \E ok \in Pipelines, background \in BOOLEAN, redirect \in Redirects :
             Launch(ok, background, redirect)
  BY Zenon, <1>1, <1>8 DEF Launch
<1>9. CASE \E j \in Numbers : \E timeout \in Timeouts : ResumeFg(j, timeout)
  BY Zenon, <1>1, <1>9, ResumeEffects
<1> QED BY ZenonT(30), <1>2, <1>3, <1>4, <1>5, <1>6, <1>7, <1>8, <1>9 DEF OtherSteps

\* NoneLeft after a step that takes no event.
LEMMA OtherDelivers ==
  ASSUME JobsInv, OtherSteps, SigchldHandler => Fits, NoneLeft
  PROVE  NoneLeft'
<1>1. Hushed /\ \A p \in Started : out'[p] = "used" => out[p] = "used"
  BY Zenon, OtherHushed, OtherOutput
<1>2. ASSUME NEW p \in Pids, proc'[p] = "exited", Settled(p)' PROVE out'[p] # "used"
  <2>1. proc'[p] \notin {"none"} \cup Born
    BY <1>2 DEF Born
  <2>2. p \in Started
    BY Zenon, <1>1, <2>1 DEF Hushed
  <2>3. Settled(p) /\ proc[p] = "exited"
    BY Zenon, <1>1, <1>2, <2>2 DEF Hushed
  <2> QED BY ZenonT(30), <1>1, <2>2, <2>3 DEF NoneLeft
<1> QED BY Zenon, <1>2 DEF NoneLeft

\* NoneLeft after an event.
LEMMA EventDelivers ==
  ASSUME JobsInv, QueueTells, NoneLeft, NEW e, Tracked(e) \/ Counted(e)
  PROVE  NoneLeft'
<1>0. Types
  BY Zenon DEF JobsInv
<1>1. Take(e) /\ proc' = proc
  BY Zenon DEF Tracked, Counted, Take
<1>2. /\ e.pid \in Pids /\ e.status \in Events
      /\ \A p \in Pids : p # e.pid => (Settled(p)' <=> Settled(p))
  BY Zenon, <1>1, TakeInv
<1>3. /\ \A p \in Pids : out'[p] = "used" => out[p] = "used"
      /\ e.status = "exited" \/ Tracked(e) => out'[e.pid] # "used"
  <2>1. CASE out' = outreg_finalize(out, e.pid)
    BY ZenonT(30), <1>0, <1>2, <2>1, Finalizes
  <2>2. CASE Tracked(e)
    BY Zenon, <2>1, <2>2, TrackedEffects
  <2>3. CASE Counted(e) /\ ~Tracked(e)
    <3>1. OwnEvent(e)
      BY Zenon, <2>3 DEF Counted
    <3>2. \A p \in Pids : out'[p] = "used" => out[p] = "used"
      BY ZenonT(30), <1>0, <1>2, <3>1, CountedEffects
    <3>3. CASE e.status = "exited"
      <4>1. e.status # "stopped" /\ e.status # "continued"
        BY SMTT(30), <3>3
      <4> QED BY ZenonT(30), <1>0, <1>2, <2>1, <3>1, <4>1, CountedEffects
    <3> QED BY Zenon, <2>3, <3>2, <3>3
  <2> QED BY Zenon, <2>2, <2>3
<1>4. ASSUME NEW p \in Pids, proc'[p] = "exited", Settled(p)' PROVE out'[p] # "used"
  <2>1. CASE p # e.pid
    BY ZenonT(30), <1>1, <1>2, <1>3, <1>4, <2>1 DEF NoneLeft
  <2>2. CASE p = e.pid
    <3>1. Settled(e.pid)'
      BY Zenon, <1>4, <2>2
    <3>2. e.status = StatusOf(e.pid)
      BY ZenonT(30), <1>1, <3>1, LastEvent
    <3>3. e.status = "exited"
      BY ZenonT(30), <1>1, <1>4, <2>2, <3>2, StatusTells
    <3> QED BY ZenonT(30), <1>3, <2>2, <3>3
  <2> QED BY Zenon, <2>1, <2>2
<1> QED BY ZenonT(30), <1>4 DEF NoneLeft

-----------------------------------------------------------------------------
(* The job table and the foreground wait.                                  *)

\* What the launch, the table and the wait know of a child that the step leaves settled.
LEMMA StillApplied ==
  ASSUME JobsInv, Hushed, LaunchedRunning, ExitsApplied, NEW p \in Pids, Settled(p)'
  PROVE  /\ pc = "launch" /\ p \in Range(wait.pids) => proc'[p] \in Born
         /\ \A j \in Numbers : j # wait.job /\ Members(j) = {p} => proc'[p] # "exited"
         /\ Waiting /\ Range(wait.pids) = {p} /\ proc'[p] = "exited" => p \in wait.done
<1>0. Membership
  BY Zenon DEF JobsInv
<1>1. p \in Started => Settled(p) /\ proc'[p] = proc[p]
  BY Zenon DEF Hushed
<1>2. p \in Range(wait.pids) => p \in Started
  BY Zenon, <1>0 DEF Membership, Started
<1>3. \A j \in Numbers : p \in Members(j) => p \in Started
  BY Zenon, <1>0 DEF Membership, Started
<1>4. pc = "launch" /\ p \in Range(wait.pids) => proc'[p] \in Born
  BY Zenon, <1>1, <1>2 DEF LaunchedRunning
<1>5. \A j \in Numbers : j # wait.job /\ Members(j) = {p} => proc'[p] # "exited"
  BY Zenon, <1>1, <1>3 DEF ExitsApplied
<1>6. Waiting /\ Range(wait.pids) = {p} /\ proc'[p] = "exited" => p \in wait.done
  BY Zenon, <1>1, <1>2 DEF ExitsApplied
<1> QED BY ZenonT(30), <1>4, <1>5, <1>6

\* A job that is waited for is in the table, and nothing else has the number None.
LEMMA WaitedJob ==
  ASSUME JobsInv
  PROVE  /\ wait.job # None => Waiting /\ wait.job \in Numbers /\ Members(wait.job) = Range(wait.pids)
         /\ \A j \in Numbers : j # None
         /\ wait.done \subseteq Range(wait.pids)
         /\ wait.stopped => Range(wait.pids) # wait.done /\ Range(wait.pids) # {} /\ wait.pids # <<>>
<1>0. Types /\ DoneSettled /\ Membership /\ WaitShape
  BY Zenon DEF JobsInv
<1>1. wait.job # None => wait.job \in Numbers /\ Members(wait.job) = Range(wait.pids)
  BY Zenon, <1>0 DEF Membership, Members
<1>2. wait.job # None => Waiting
  <2>1. wait.job # None => pc # "launch" /\ wait # NoWait
    BY Zenon, <1>0, AtRest DEF WaitShape
  <2> QED BY SMTT(30), <1>0, <2>1 DEF WaitShape, Waiting
<1>3. \A j \in Numbers : j # None
  BY <1>0 DEF Types, Numbers, None
<1>4. wait.done \subseteq Range(wait.pids)
  BY Zenon, <1>0 DEF DoneSettled
<1>5. wait.stopped => Range(wait.pids) # wait.done /\ Range(wait.pids) # {}
  BY SMTT(30), <1>0, <1>4 DEF WaitShape
<1>6. Range(wait.pids) # {} => wait.pids # <<>>
  BY DEF Range
<1> QED BY ZenonT(30), <1>1, <1>2, <1>3, <1>4, <1>5, <1>6

\* LaunchedRunning after a step that takes no event.
LEMMA OtherLaunchedRunning ==
  ASSUME JobsInv, OtherSteps, SigchldHandler => Fits, LaunchedRunning, ExitsApplied
  PROVE  LaunchedRunning'
<1>0. Types /\ Forks /\ Reports /\ WaitShape /\ Hushed
  BY Zenon, OtherHushed DEF JobsInv
<1>1. \A p \in Pids : pc = "launch" /\ p \in Range(wait.pids) /\ Settled(p)' => proc'[p] \in Born
  BY Zenon, <1>0, StillApplied
<1>2. Range(wait.pids) \subseteq Pids
  BY Zenon, <1>0, MembersArePids
<1>3. CASE (pc' = "launch" => pc = "launch") /\ wait'.pids = wait.pids
  BY ZenonT(30), <1>1, <1>2, <1>3 DEF LaunchedRunning
<1>4. CASE pc' # "launch"
  BY Zenon, <1>4 DEF LaunchedRunning
<1>5. CASE Forking
  <2>1. PICK p \in Pids, born \in Born :
                          /\ proc' = [proc EXCEPT ![p] = born]
                          /\ Range(wait'.pids) = Range(wait.pids) \cup {p}
    BY ZenonT(30), <1>0, <1>5, StageEffects
  <2>2. proc'[p] \in Born
    BY SMTT(30), <1>0, <2>1 DEF Types
  <2>3. pc = "launch"
    BY Zenon, <1>5 DEF Forking, StageForks
  <2>4. \A q \in Range(wait'.pids) : Settled(q)' => proc'[q] \in Born
    BY ZenonT(30), <1>1, <1>2, <2>1, <2>2, <2>3
  <2> QED BY Zenon, <2>4 DEF LaunchedRunning
<1>6. CASE CalmActions
  BY ZenonT(30), <1>0, <1>3, <1>6, CalmEffects DEF Calm, SamePlace
<1>7. CASE SigchldHandler
  BY ZenonT(30), <1>3, <1>7, HandlerPlaces DEF SamePlace
<1>8. CASE StageFails
  <2>1. wait \in WaitType
    BY Zenon, <1>0 DEF Types
  <2>2. wait'.pids = wait.pids /\ pc' = pc
    BY Zenon, <1>8, <2>1 DEF StageFails, WaitType
  <2> QED BY Zenon, <1>3, <2>2
<1>9. CASE Launched
  <2>1. pc' = "top" \/ pc' = "wait"
    BY Zenon, <1>9, LaunchedEffects
  <2>2. pc' # "launch"
    BY <2>1
  <2> QED BY Zenon, <1>4, <2>2
<1>10. CASE WaitReturns
  <2>1. pc' \in {"top", "over"}
    BY ZenonT(30), <1>0, <1>10, ReturnEffects
  <2>2. pc' # "launch"
    BY <2>1
  <2> QED BY Zenon, <1>4, <2>2
<1>11. CASE \E ok \in Pipelines, background \in BOOLEAN, redirect \in Redirects :
              Launch(ok, background, redirect)
  <2>1. wait'.pids = <<>>
    BY <1>11 DEF Launch, NoWait
  <2>2. Range(wait'.pids) = {}
    BY <2>1 DEF Range
  <2> QED BY Zenon, <2>2 DEF LaunchedRunning
<1>12. CASE \E j \in Numbers : \E timeout \in Timeouts : ResumeFg(j, timeout)
  <2>1. pc' = "wait"
    BY Zenon, <1>12, ResumeEffects
  <2>2. pc' # "launch"
    BY <2>1
  <2> QED BY Zenon, <1>4, <2>2
<1> QED BY ZenonT(30), <1>5, <1>6, <1>7, <1>8, <1>9, <1>10, <1>11, <1>12 DEF OtherSteps

\* No event is taken during a launch.
LEMMA EventLaunchedRunning ==
  ASSUME NEW e, Tracked(e) \/ Counted(e)
  PROVE  LaunchedRunning'
<1>1. pc' # "launch"
  <2>1. CASE Tracked(e)
    BY Zenon, <2>1 DEF Tracked, Take
  <2>2. CASE Counted(e)
    BY <2>2 DEF Counted, Take
  <2> QED BY Zenon, <2>1, <2>2
<1> QED BY Zenon, <1>1 DEF LaunchedRunning

\* The two parts of ExitsApplied.
WaitKnows == Waiting => \A p \in Pids : Range(wait.pids) = {p} /\ Settled(p) /\ proc[p] = "exited"
                                          => p \in wait.done
TableKnows == \A j \in Numbers : \A p \in Pids :
                j # wait.job /\ Members(j) = {p} /\ Settled(p) => proc[p] # "exited"

\* The table after a step that takes no event.
LEMMA OtherTableKnows ==
  ASSUME JobsInv, OtherSteps, SigchldHandler => Fits, LaunchedRunning, ExitsApplied
  PROVE  TableKnows'
<1>0. Types /\ Forks /\ Reports /\ WaitShape /\ Membership /\ Hushed
  BY Zenon, OtherHushed DEF JobsInv
<1>1. \A p \in Pids : Settled(p)' =>
        /\ pc = "launch" /\ p \in Range(wait.pids) => proc'[p] \in Born
        /\ \A j \in Numbers : j # wait.job /\ Members(j) = {p} => proc'[p] # "exited"
        /\ Waiting /\ Range(wait.pids) = {p} /\ proc'[p] = "exited" => p \in wait.done
  BY Zenon, <1>0, StillApplied
<1> DEFINE Old(n) == n \in Numbers /\ Range(jobs'[n].pids) = Members(n) /\ n # wait.job
           New(n) == n \in DOMAIN jobs' /\ Range(jobs'[n].pids) = Range(wait.pids)
<1>2. ASSUME NEW n \in Numbers', n # wait'.job => Old(n) PROVE
        \A p \in Pids : n # wait'.job /\ Range(jobs'[n].pids) = {p} /\ Settled(p)' => proc'[p] # "exited"
  BY Zenon, <1>1, <1>2
<1>3. ASSUME NEW n \in Numbers', New(n), pc = "launch" \/ wait.stopped PROVE
        \A p \in Pids : n # wait'.job /\ Range(jobs'[n].pids) = {p} /\ Settled(p)' => proc'[p] # "exited"
  <2> SUFFICES ASSUME NEW p \in Pids, Range(wait.pids) = {p}, Settled(p)', proc'[p] = "exited"
               PROVE  FALSE
    BY Zenon, <1>3
  <2>1. proc'[p] \notin Born
    BY DEF Born
  <2>2. pc # "launch"
    BY Zenon, <1>1, <2>1
  <2>3. wait # NoWait
    BY Zenon, AtRest
  <2>4. Waiting
    BY ZenonT(30), <1>0, <2>2, <2>3 DEF WaitShape, Waiting
  <2>5. p \in wait.done /\ wait.stopped
    BY ZenonT(30), <1>1, <1>3, <2>2, <2>4
  <2>6. wait.done = Range(wait.pids)
    BY Zenon, <2>5, WaitedJob
  <2> QED BY ZenonT(30), <2>5, <2>6, WaitedJob
<1>4. CASE Numbers' = Numbers /\ wait'.job = wait.job
           /\ \A n \in Numbers : Range(jobs'[n].pids) = Members(n)
  BY Zenon, <1>2, <1>4 DEF TableKnows, Members
<1>5. CASE UNCHANGED jobs /\ wait'.job = wait.job
  BY Zenon, <1>4, <1>5 DEF Numbers, Members
<1>6. CASE CalmActions
  BY ZenonT(30), <1>0, <1>4, <1>6, CalmEffects, SameMembers DEF Calm
<1>7. CASE SigchldHandler
  BY ZenonT(30), <1>5, <1>7, HandlerPlaces DEF tableVars
<1>8. CASE StageFails \/ Forking
  <2>1. wait \in WaitType /\ UNCHANGED jobs
    BY ZenonT(30), <1>0, <1>8 DEF Types, StageFails, Forking, StageForks, tableVars
  <2>2. wait'.job = wait.job
    BY Zenon, <1>8, <2>1 DEF StageFails, Forking, StageForks, WaitType
  <2> QED BY ZenonT(30), <1>5, <2>1, <2>2
<1>9. CASE \E ok \in Pipelines, background \in BOOLEAN, redirect \in Redirects :
             Launch(ok, background, redirect)
  <2>1. UNCHANGED jobs /\ wait = NoWait
    BY SMTT(30), <1>0, <1>9 DEF Launch, tableVars, WaitShape
  <2>2. wait'.job = wait.job
    BY SMTT(30), <1>9, <2>1 DEF Launch, NoWait
  <2> QED BY ZenonT(30), <1>5, <2>1, <2>2
<1>10. CASE \E j \in Numbers : \E timeout \in Timeouts : ResumeFg(j, timeout)
  <2>1. SameTable /\ wait = NoWait
    BY ZenonT(30), <1>10, ResumeEffects
  <2>2. Numbers' = Numbers /\ \A n \in Numbers : Range(jobs'[n].pids) = Members(n) /\ n # wait.job
    BY ZenonT(30), <2>1, SameMembers, AtRest, WaitedJob
  <2> QED BY Zenon, <1>2, <2>2 DEF TableKnows, Members
<1>11. ASSUME wait.job = None, NEW background \in BOOLEAN, NEW st \in {"JOB_RUNNING", "JOB_STOPPED"},
              jobs_register(wait.pgid, wait.pids, background, st), pc = "launch" \/ wait.stopped
       PROVE  TableKnows'
  <2>1. \A n \in DOMAIN jobs' : \/ n \in DOMAIN jobs /\ jobs'[n] = jobs[n]
                                \/ jobs'[n].pids = wait.pids
    BY ZenonT(30), <1>0, <1>11, Registered
  <2>2. ASSUME NEW n \in Numbers' PROVE Old(n) \/ New(n)
    BY ZenonT(30), <1>11, <2>1, WaitedJob DEF Numbers, Members
  <2> HIDE DEF Old, New
  <2> QED BY ZenonT(30), <1>2, <1>3, <1>11, <2>2 DEF TableKnows, Members
<1>12. CASE Launched
  <2>1. pc = "launch" /\ wait.job = None
    BY ZenonT(30), <1>0, <1>12, LaunchedEffects DEF WaitShape
  <2>2. CASE wait' \in {wait, NoWait} /\ UNCHANGED jobs
    BY ZenonT(30), <1>5, <2>1, <2>2, AtRest
  <2>3. CASE jobs_register(wait.pgid, wait.pids, TRUE, "JOB_RUNNING")
    BY ZenonT(30), <1>11, <2>1, <2>3
  <2> QED BY ZenonT(30), <1>12, <2>2, <2>3, LaunchedEffects DEF LaunchLeaves
<1>13. CASE WaitReturns
  <2>1. CASE wait.job = None /\ wait.stopped
             /\ jobs_register(wait.pgid, wait.pids, FALSE, "JOB_STOPPED")
    BY Zenon, <1>11, <2>1
  <2>2. CASE wait.job = None /\ UNCHANGED jobs
    <3>1. wait'.job = None
      BY ZenonT(30), <1>0, <1>13, ReturnEffects, AtRest
    <3> QED BY ZenonT(30), <1>5, <2>2, <3>1
  <2>3. CASE wait.job # None /\ wait.stopped /\ jobs' = [jobs EXCEPT ![wait.job].state = "JOB_STOPPED"]
    <3>1. Numbers' = Numbers /\ \A n \in Numbers : Range(jobs'[n].pids) = Members(n)
      BY SMTT(30), <1>0, <2>3 DEF Types, JobType, Numbers, Members
    <3>2. ASSUME NEW n \in Numbers' PROVE Old(n) \/ New(n)
      BY ZenonT(30), <2>3, <3>1, WaitedJob DEF Numbers
    <3> HIDE DEF Old, New
    <3> QED BY ZenonT(30), <1>2, <1>3, <2>3, <3>2 DEF TableKnows, Members
  <2>4. CASE jobs' = Without(jobs, wait.job)
    <3>1. \A n \in Numbers' : n \in Numbers /\ n # wait.job /\ Range(jobs'[n].pids) = Members(n)
      BY <2>4 DEF Without, Numbers, Members
    <3> QED BY ZenonT(30), <1>2, <3>1 DEF TableKnows, Members
  <2>5. wait.job # None => wait.job \in Numbers
    BY Zenon, WaitedJob
  <2> QED BY ZenonT(30), <1>0, <1>13, <2>1, <2>2, <2>3, <2>4, <2>5, ReturnEffects
<1> QED BY ZenonT(30), <1>6, <1>7, <1>8, <1>9, <1>10, <1>12, <1>13 DEF OtherSteps

\* The wait after a step that takes no event.
LEMMA OtherWaitKnows ==
  ASSUME JobsInv, OtherSteps, SigchldHandler => Fits, LaunchedRunning, ExitsApplied
  PROVE  WaitKnows'
<1>0. Types /\ Forks /\ Reports /\ WaitShape /\ Membership /\ Hushed
  BY Zenon, OtherHushed DEF JobsInv
<1>1. \A p \in Pids : Settled(p)' =>
        /\ pc = "launch" /\ p \in Range(wait.pids) => proc'[p] \in Born
        /\ \A j \in Numbers : j # wait.job /\ Members(j) = {p} => proc'[p] # "exited"
        /\ Waiting /\ Range(wait.pids) = {p} /\ proc'[p] = "exited" => p \in wait.done
  BY Zenon, <1>0, StillApplied
<1>2. CASE SamePlace /\ UNCHANGED wait
  BY Zenon, <1>1, <1>2 DEF WaitKnows, SamePlace
<1>3. CASE ~Waiting'
  BY Zenon, <1>3 DEF WaitKnows
<1>4. CASE CalmActions
  BY ZenonT(30), <1>0, <1>2, <1>4, CalmEffects DEF Calm
<1>5. CASE SigchldHandler
  BY Zenon, <1>2, <1>5, HandlerPlaces
<1>6. CASE StageFails \/ Forking
  <2>1. ~Waiting'
    BY Zenon, <1>6 DEF StageFails, Forking, StageForks, Waiting
  <2> QED BY Zenon, <1>3, <2>1
<1>7. CASE \E ok \in Pipelines, background \in BOOLEAN, redirect \in Redirects :
             Launch(ok, background, redirect)
  <2>1. ~Waiting'
    BY <1>7 DEF Launch, Waiting
  <2> QED BY Zenon, <1>3, <2>1
<1>8. CASE Launched
  <2>1. pc = "launch" /\ (pc' = "top" \/ UNCHANGED wait)
    BY Zenon, <1>8, LaunchedEffects
  <2>2. CASE pc' = "top"
    BY SMTT(30), <1>3, <2>2 DEF Waiting
  <2>3. CASE UNCHANGED wait
    <3>1. ASSUME NEW p \in Pids, Range(wait.pids) = {p}, Settled(p)' PROVE proc'[p] # "exited"
      <4>1. proc'[p] \in Born
        BY ZenonT(30), <1>1, <2>1, <3>1
      <4> QED BY <4>1 DEF Born
    <3> QED BY Zenon, <2>3, <3>1 DEF WaitKnows
  <2> QED BY ZenonT(30), <2>1, <2>2, <2>3
<1>9. CASE WaitReturns
  <2>1. pc' \in {"top", "over"}
    BY Zenon, <1>0, <1>9, ReturnEffects
  <2>2. ~Waiting'
    BY <2>1 DEF Waiting
  <2> QED BY Zenon, <1>3, <2>2
<1>10. ASSUME NEW j \in Numbers, NEW timeout \in Timeouts, ResumeFg(j, timeout) PROVE WaitKnows'
  <2>1. wait = NoWait /\ wait'.pids = jobs[j].pids
    BY Zenon, <1>10, ResumeEffects
  <2>2. j # wait.job
    BY ZenonT(30), <2>1, AtRest, WaitedJob
  <2> QED BY ZenonT(30), <1>1, <2>1, <2>2 DEF WaitKnows, Members
<1> QED BY ZenonT(30), <1>4, <1>5, <1>6, <1>7, <1>8, <1>9, <1>10 DEF OtherSteps

\* What becomes of the job that the process of the event belongs to, if it stays in
\* the table.
LEMMA JobOfEvent ==
  ASSUME JobsInv, NEW e, Tracked(e), NEW n \in Numbers', n \in Numbers, e.pid \in Members(n)
  PROVE  /\ e.status = "exited" => jobs[n].done \cup {e.pid} # Members(n)
         /\ e.status = "stopped" => jobs'[n].state = "JOB_STOPPED"
         /\ e.status = "continued" => jobs'[n].state = "JOB_RUNNING"
<1>0. Types /\ Membership
  BY Zenon DEF JobsInv
<1>1. TableStep(e)
  BY Zenon, TrackedEffects
<1>2. PICK j \in Numbers :
       /\ e.pid \in Members(j)
       /\ \/ e.status = "stopped" /\ jobs' = [jobs EXCEPT ![j].state = "JOB_STOPPED"]
          \/ e.status = "continued" /\ jobs' = [jobs EXCEPT ![j].state = "JOB_RUNNING"]
          \/ /\ e.status = "exited" /\ jobs[j].done \cup {e.pid} = Members(j)
             /\ jobs' = Without(jobs, j)
          \/ /\ e.status = "exited" /\ jobs[j].done \cup {e.pid} # Members(j)
  BY Zenon, <1>1 DEF TableStep
<1>3. j = n
  BY Zenon, <1>0, <1>2 DEF Membership
<1>4. jobs[n] \in JobType /\ jobs \in [DOMAIN jobs -> JobType] /\ n \in DOMAIN jobs
  BY Zenon, <1>0 DEF Types, Numbers
<1>5. CASE e.status = "stopped" /\ jobs' = [jobs EXCEPT ![n].state = "JOB_STOPPED"]
  BY SMTT(30), <1>4, <1>5 DEF JobType
<1>6. CASE e.status = "continued" /\ jobs' = [jobs EXCEPT ![n].state = "JOB_RUNNING"]
  BY SMTT(30), <1>4, <1>6 DEF JobType
<1>7. jobs' # Without(jobs, n)
  BY DEF Without, Numbers
<1>8. CASE e.status = "exited" /\ jobs[n].done \cup {e.pid} # Members(n)
  BY <1>8
<1> QED BY ZenonT(30), <1>2, <1>3, <1>5, <1>6, <1>7, <1>8

\* The jobs that stay in the table when an event is applied to it.
LEMMA TrackedTable ==
  ASSUME JobsInv, NEW e, Tracked(e), NEW n \in Numbers'
  PROVE  /\ n \in Numbers /\ Range(jobs'[n].pids) = Members(n) /\ jobs'[n].pgid = jobs[n].pgid
         /\ e.pid \notin Members(n) => jobs'[n] = jobs[n]
<1>1. Types /\ e \in Event /\ TableStep(e)
  BY Zenon, TrackedEffects, TakeInv DEF JobsInv, Tracked
<1>2. /\ DOMAIN jobs' \subseteq DOMAIN jobs
      /\ \A k \in DOMAIN jobs' : jobs'[k].pids = jobs[k].pids /\ jobs'[k].pgid = jobs[k].pgid
      /\ \A k \in DOMAIN jobs : e.pid \notin Members(k) => jobs'[k] = jobs[k]
  BY Zenon, <1>1, TableEffects
<1> QED BY Zenon, <1>2 DEF Numbers, Members

\* Both after an event that is applied to the table.
LEMMA TrackedKnows ==
  ASSUME JobsInv, QueueTells, ExitsApplied, NEW e, Tracked(e)
  PROVE  WaitKnows' /\ TableKnows'
<1>1. Take(e) /\ UNCHANGED <<proc, pc, wait>>
  BY Zenon DEF Tracked, Take
<1>2. \A p \in Pids : p # e.pid => (Settled(p)' <=> Settled(p))
  BY ZenonT(30), <1>1, TakeInv
<1>3. e.pid \notin Range(wait.pids)
  BY Zenon, TrackedEffects
<1>4. WaitKnows'
  BY ZenonT(30), <1>1, <1>2, <1>3 DEF WaitKnows, ExitsApplied, Waiting
<1>5. ASSUME NEW n \in Numbers', NEW p \in Pids, n # wait.job, Range(jobs'[n].pids) = {p}, Settled(p)'
      PROVE  proc[p] # "exited"
  <2>1. n \in Numbers /\ Members(n) = {p}
    BY ZenonT(30), <1>5, TrackedTable
  <2>2. CASE p # e.pid
    BY ZenonT(30), <1>2, <1>5, <2>1, <2>2 DEF ExitsApplied
  <2>3. CASE p = e.pid /\ proc[p] = "exited"
    <3>1. e.status = StatusOf(e.pid)
      BY ZenonT(30), <1>1, <1>5, <2>3, LastEvent
    <3>2. e.status = "exited"
      BY ZenonT(30), <2>3, <3>1, StatusTells
    <3>3. jobs[n].done \cup {e.pid} # Members(n)
      BY ZenonT(30), <2>1, <2>3, <3>2, JobOfEvent
    <3>4. jobs[n].done \subseteq Members(n)
      BY Zenon, <2>1 DEF JobsInv, DoneSettled
    <3> QED BY ZenonT(30), <2>1, <2>3, <3>3, <3>4
  <2> QED BY ZenonT(30), <2>2, <2>3
<1>6. TableKnows'
  BY Zenon, <1>1, <1>5 DEF TableKnows, Members
<1> QED BY Zenon, <1>4, <1>6

\* Both after an event of the wait's own.
LEMMA CountedKnows ==
  ASSUME JobsInv, QueueTells, ExitsApplied, NEW e, Counted(e)
  PROVE  WaitKnows' /\ TableKnows'
<1>0. Types /\ Membership
  BY Zenon DEF JobsInv
<1>1. /\ Take(e) /\ UNCHANGED <<proc, pc, jobs>> /\ e.pid \in Range(wait.pids) /\ OwnEvent(e)
  BY Zenon DEF Counted, Take
<1>2. /\ e.pid \in Pids /\ e.status \in Events
      /\ \A p \in Pids : p # e.pid => (Settled(p)' <=> Settled(p))
  BY Zenon, <1>1, TakeInv
<1>3. /\ wait'.pids = wait.pids /\ wait'.job = wait.job
      /\ \/ e.status = "stopped" \/ e.status = "continued"
         \/ wait'.done = wait.done \cup {e.pid}
  BY ZenonT(30), <1>0, <1>1, <1>2, CountedEffects
<1>4. ASSUME NEW p \in Pids, Range(wait.pids) = {p}, Settled(p)', proc[p] = "exited"
      PROVE  p \in wait'.done
  <2>1. p = e.pid
    BY ZenonT(30), <1>1, <1>4
  <2>2. e.status = StatusOf(e.pid)
    BY ZenonT(30), <1>1, <1>4, <2>1, LastEvent
  <2>3. e.status = "exited"
    BY ZenonT(30), <1>4, <2>1, <2>2, StatusTells
  <2>4. e.status # "stopped" /\ e.status # "continued"
    BY <2>3
  <2> QED BY ZenonT(30), <1>3, <2>1, <2>4
<1>5. ASSUME NEW n \in Numbers, NEW p \in Pids, n # wait.job, Members(n) = {p}, Settled(p)'
      PROVE  proc[p] # "exited"
  <2>1. e.pid \notin Members(n)
    <3>1. CASE wait.job = None
      BY ZenonT(30), <1>0, <1>1, <3>1 DEF Membership
    <3>2. CASE wait.job # None
      BY ZenonT(30), <1>0, <1>1, <1>5, <3>2, WaitedJob DEF Membership
    <3> QED BY ZenonT(30), <3>1, <3>2
  <2>2. p # e.pid
    BY ZenonT(30), <1>5, <2>1
  <2> QED BY ZenonT(30), <1>2, <1>5, <2>2 DEF ExitsApplied
<1>6. WaitKnows'
  BY ZenonT(30), <1>1, <1>3, <1>4 DEF WaitKnows
<1>7. TableKnows'
  BY ZenonT(30), <1>1, <1>3, <1>5 DEF TableKnows, Members, Numbers
<1> QED BY Zenon, <1>6, <1>7

-----------------------------------------------------------------------------
(* The invariant for a queue that has room.                                *)

\* Of all that has left the kernel and the queue, the registry, the table and the wait
\* have heard.
Heard == QueueTells /\ NoneLeft /\ LaunchedRunning /\ ExitsApplied

\* It holds at the start.
LEMMA InitHeard == ASSUME Init PROVE Heard
<1>1. JobsInv
  BY ZenonT(30), InitInv
<1>2. /\ proc = [p \in Pids |-> "none"] /\ report = [p \in Pids |-> "none"]
      /\ pending = <<>> /\ jobs = <<>> /\ pc = "top"
  BY Zenon DEF Init
<1>3. Numbers = {} /\ DOMAIN pending = {} /\ ~Waiting /\ pc # "launch"
      /\ \A p \in Pids : proc[p] # "exited" /\ report[p] = "none"
  BY SMTT(30), <1>2 DEF Numbers, Waiting
<1>4. \A p \in Pids : Settled(p)
  BY Zenon, <1>3 DEF Settled
<1>5. QueueTells
  BY Zenon, <1>4 DEF QueueTells
<1>6. NoneLeft
  BY Zenon, <1>3 DEF NoneLeft
<1>7. LaunchedRunning /\ ExitsApplied
  BY Zenon, <1>3 DEF LaunchedRunning, ExitsApplied
<1> QED BY ZenonT(30), <1>5, <1>6, <1>7 DEF Heard

\* It is kept by every step at which the handler has room.
LEMMA StepHeard ==
  ASSUME JobsInv, Heard, [Next]_vars, [SigchldHandler => Fits]_vars
  PROVE  Heard'
<1>0. /\ QueueTells /\ NoneLeft /\ LaunchedRunning /\ ExitsApplied /\ WaitShape
  BY Zenon DEF Heard, JobsInv
<1>1. Steps
  BY ZenonT(30), <1>0, StepCases
<1>2. CASE OtherSteps
  <2>1. CASE UNCHANGED vars
    <3>1. UNCHANGED <<proc, report, out, pending, jobs, pc, wait>>
      BY Zenon, <2>1 DEF vars, osVars, tableVars
    <3>2. QueueTells'
      BY ZenonT(30), <1>0, <3>1, ChildrenTell
    <3>3. NoneLeft'
      BY ZenonT(30), <1>0, <3>1 DEF NoneLeft, Settled
    <3>4. LaunchedRunning' /\ ExitsApplied'
      BY ZenonT(30), <1>0, <3>1 DEF LaunchedRunning, ExitsApplied, Settled, Waiting, Numbers, Members
    <3> QED BY ZenonT(30), <3>2, <3>3, <3>4 DEF Heard
  <2>2. CASE SigchldHandler => Fits
    <3>1. QueueTells' /\ NoneLeft' /\ LaunchedRunning'
      BY ZenonT(30), <1>0, <1>2, <2>2, OtherTells, OtherDelivers, OtherLaunchedRunning
    <3>2. WaitKnows' /\ TableKnows'
      BY ZenonT(30), <1>0, <1>2, <2>2, OtherWaitKnows, OtherTableKnows
    <3> QED BY ZenonT(30), <3>1, <3>2 DEF Heard, ExitsApplied, WaitKnows, TableKnows
  <2> QED BY ZenonT(30), <2>1, <2>2
<1>3. ASSUME NEW e, Tracked(e) \/ Counted(e) PROVE Heard'
  <2>1. Take(e)
    BY Zenon, <1>3 DEF Tracked, Counted
  <2>2. QueueTells' /\ NoneLeft' /\ LaunchedRunning'
    BY ZenonT(30), <1>0, <1>3, <2>1, TakeTells, EventDelivers, EventLaunchedRunning
  <2>3. WaitKnows' /\ TableKnows'
    BY ZenonT(30), <1>0, <1>3, TrackedKnows, CountedKnows
  <2> QED BY ZenonT(30), <2>2, <2>3 DEF Heard, ExitsApplied, WaitKnows, TableKnows
<1> QED BY ZenonT(30), <1>1, <1>2, <1>3 DEF Steps, OtherSteps

\* Nothing that happens to a child is lost between the kernel and the tables, as long as
\* jobs_sigchld_handler() finds room in its queue.
THEOREM HeardSafe == Spec /\ NothingDropped => []Heard
<1>1. Init => Heard
  BY Zenon, InitHeard
<1>2. JobsInv /\ Heard /\ [Next]_vars /\ [SigchldHandler => Fits]_vars => Heard'
  BY Zenon, StepHeard
<1> QED BY <1>1, <1>2, JobsSafe, PTL DEF Spec, NothingDropped

\* The exit of a job of one process that is still in the table is on its way.
THEOREM ExitsNotLost == Spec /\ NothingDropped => []ExitNotLost
<1>1. ASSUME JobsInv, Heard PROVE ExitNotLost
  <2> SUFFICES ASSUME NEW j \in Numbers, NEW p \in Members(j), Members(j) = {p}, proc[p] = "exited"
               PROVE  \/ report[p] = "exited"
                      \/ \E i \in DOMAIN pending : pending[i] = [pid |-> p, status |-> "exited"]
                      \/ wait.job = j /\ p \in wait.done
    BY Zenon DEF ExitNotLost
  <2>0. QueueTells /\ ExitsApplied /\ Types /\ Reports
    BY ZenonT(30), <1>1 DEF Heard, JobsInv
  <2>1. p \in Pids /\ StatusOf(p) = "exited"
    BY ZenonT(30), <2>0, MembersArePids, StatusTells
  <2>2. CASE report[p] # "none"
    BY ZenonT(30), <2>0, <2>1, <2>2 DEF Reports
  <2>3. CASE Settled(p)
    <3>1. j = wait.job
      BY ZenonT(30), <2>0, <2>1, <2>3 DEF ExitsApplied
    <3>2. Waiting /\ Range(wait.pids) = {p}
      BY ZenonT(30), <1>1, <3>1, WaitedJob
    <3> QED BY ZenonT(30), <2>0, <2>1, <2>3, <3>1, <3>2 DEF ExitsApplied
  <2>4. CASE \E i \in DOMAIN pending : pending[i] = [pid |-> p, status |-> StatusOf(p)]
    BY ZenonT(30), <2>1, <2>4
  <2> QED BY ZenonT(30), <2>0, <2>1, <2>2, <2>3, <2>4 DEF QueueTells
<1>2. JobsInv /\ Heard => ExitNotLost
  BY Zenon, <1>1
<1> QED BY <1>2, HeardSafe, JobsSafe, PTL

-----------------------------------------------------------------------------
(* What is finalized early has been stopped.                               *)

HasStopped(p) == stops[p] > 0

\* A child that is stopped, or of which the kernel or the queue tell more than an exit,
\* has stopped at some time, and so has one whose output was finalized early.  Only a
\* wait for a job of the table has an alarm.
KernelCounts == \A p \in Pids : proc[p] = "stopped" \/ report[p] \in {"stopped", "continued"}
                                  => HasStopped(p)
QueueCounts  == \A i \in DOMAIN pending : pending[i].status # "exited" => HasStopped(pending[i].pid)
OutputCounts == \A p \in Pids : out[p] = "early" => HasStopped(p)
AlarmOfJob   == wait.alarm => wait.job # None
StopsCounted == /\ stops \in [Pids -> Nat]
                /\ KernelCounts /\ QueueCounts /\ OutputCounts /\ AlarmOfJob

\* The steps, by what they do to the children.
LEMMA KernelCases ==
  ASSUME [Next]_vars
  PROVE  UNCHANGED osVars \/ Child \/ (\E g : Continue(g)) \/ Forking \/ SigchldHandler
<1>1. CASE UNCHANGED vars \/ Interrupt \/ AlarmHandler
  BY Zenon, <1>1 DEF vars, Interrupt, AlarmHandler
<1>2. CASE OtherCommand \/ EndOfFile \/ Prompt \/ ProcessEvent \/ ProcessingDone
  BY Zenon, <1>2 DEF OtherCommand, EndOfFile, Prompt, ProcessEvent, ProcessingDone
<1>3. CASE \E ok \in Pipelines, background \in BOOLEAN, redirect \in Redirects :
             Launch(ok, background, redirect)
  BY Zenon, <1>3 DEF Launch
<1>4. CASE \E j \in Numbers : \/ PingCont(j) \/ ResumeBg(j)
                              \/ \E timeout \in Timeouts : ResumeFg(j, timeout)
  BY Zenon, <1>4 DEF PingCont, ResumeBg, ResumeFg
<1>5. CASE StageStarts \/ ForkFails
  <2>1. "running" \in Born /\ "unborn" \in Born
    BY DEF Born
  <2> QED BY Zenon, <1>5, <2>1 DEF StageStarts, ForkFails, Forking
<1>6. CASE StageFails \/ Launched \/ WaitEvent \/ WaitNone \/ Suspend \/ WaitReturns
  BY Zenon, <1>6 DEF StageFails, Launched, WaitEvent, WaitNone, Suspend, WaitReturns
<1> QED
  BY ZenonT(30), <1>1, <1>2, <1>3, <1>4, <1>5, <1>6 DEF Next, Command, ShellStep

\* A child that has stopped goes on having stopped, and no other child is stopped or has
\* a stop or a continuation to report.
LEMMA StopsStay ==
  ASSUME JobsInv, stops \in [Pids -> Nat], KernelCounts, [Next]_vars
  PROVE  /\ stops' \in [Pids -> Nat] /\ KernelCounts'
         /\ \A p \in Pids : HasStopped(p) => HasStopped(p)'
<1>0. Types /\ Forks /\ Reports
  BY Zenon DEF JobsInv
<1>1. CASE UNCHANGED osVars
  BY Zenon, <1>1 DEF osVars, KernelCounts, HasStopped
<1>2. ASSUME NEW c \in Pids, ChildExits(c)
      PROVE  /\ stops' \in [Pids -> Nat] /\ KernelCounts'
             /\ \A p \in Pids : HasStopped(p) => HasStopped(p)'
  BY SMTT(30), <1>0, <1>2 DEF ChildExits, KernelCounts, HasStopped, Types
<1>3. ASSUME NEW c \in Pids, ChildStops(c)
      PROVE  /\ stops' \in [Pids -> Nat] /\ KernelCounts'
             /\ \A p \in Pids : HasStopped(p) => HasStopped(p)'
  BY SMTT(30), <1>0, <1>3 DEF ChildStops, KernelCounts, HasStopped, Types
<1>4. ASSUME NEW g, Continue(g)
      PROVE  /\ stops' \in [Pids -> Nat] /\ KernelCounts'
             /\ \A p \in Pids : HasStopped(p) => HasStopped(p)'
  <2>1. /\ stops' = stops
        /\ \A p \in Pids : /\ proc'[p] = "stopped" => proc[p] = "stopped"
                           /\ report'[p] = report[p] \/ proc[p] = "stopped"
    BY SMTT(30), <1>4 DEF Continue
  <2> QED BY ZenonT(30), <2>1 DEF KernelCounts, HasStopped
<1>5. CASE Forking
  <2>1. PICK p \in Pids, born \in Born : proc' = [proc EXCEPT ![p] = born]
    BY ZenonT(30), <1>0, <1>5, StageEffects
  <2>2. UNCHANGED <<report, stops>>
    BY Zenon, <1>5 DEF Forking, StageForks
  <2>3. \A q \in Pids : proc'[q] = "stopped" => proc[q] = "stopped"
    BY SMTT(30), <1>0, <2>1 DEF Types, Born
  <2> QED BY ZenonT(30), <2>2, <2>3 DEF KernelCounts, HasStopped
<1>6. CASE SigchldHandler
  <2>1. UNCHANGED <<proc, stops>> /\ report' = [p \in Pids |-> "none"]
    BY ZenonT(30), <1>0, <1>6, HandlerPlaces, HandlerEffects
  <2>2. \A p \in Pids : report'[p] \notin {"stopped", "continued"}
    BY SMTT(30), <2>1
  <2> QED BY ZenonT(30), <2>1, <2>2 DEF KernelCounts, HasStopped
<1> QED BY ZenonT(30), <1>1, <1>2, <1>3, <1>4, <1>5, <1>6, KernelCases DEF Child

\* The queue.
LEMMA StepQueueCounts ==
  ASSUME JobsInv, stops \in [Pids -> Nat], KernelCounts, QueueCounts, [Next]_vars
  PROVE  QueueCounts'
<1>0. Types /\ Forks /\ Reports /\ WaitShape /\ ExitsLast
  BY Zenon DEF JobsInv
<1>1. \A p \in Pids : HasStopped(p) => stops'[p] > 0
  BY Zenon, StopsStay DEF HasStopped
<1>2. \A i \in DOMAIN pending : pending[i].pid \in Pids
  BY Zenon, <1>0, PendingEvents
<1>3. CASE UNCHANGED pending
  BY ZenonT(30), <1>1, <1>2, <1>3 DEF QueueCounts, HasStopped
<1>4. CASE SigchldHandler
  <2>1. /\ pending' \in Seq(Event)
        /\ \A i \in DOMAIN pending' :
              \/ i \in DOMAIN pending /\ pending'[i] = pending[i]
              \/ /\ report[pending'[i].pid] # "none"
                 /\ pending'[i].status = report[pending'[i].pid]
    BY ZenonT(30), <1>0, <1>4, HandlerEffects
  <2>2. ASSUME NEW i \in DOMAIN pending', pending'[i].status # "exited"
        PROVE  stops'[pending'[i].pid] > 0
    <3>1. CASE i \in DOMAIN pending /\ pending'[i] = pending[i]
      BY ZenonT(30), <1>1, <1>2, <2>2, <3>1 DEF QueueCounts
    <3>2. CASE report[pending'[i].pid] # "none" /\ pending'[i].status = report[pending'[i].pid]
      <4>1. pending'[i] \in Event
        BY SMTT(30), <2>1
      <4>2. pending'[i].pid \in Pids /\ pending'[i].status \in {"stopped", "continued"}
        BY SMTT(30), <2>2, <4>1 DEF Event, Events
      <4> QED BY ZenonT(30), <1>1, <3>2, <4>2 DEF KernelCounts
    <3> QED BY ZenonT(30), <2>1, <3>1, <3>2
  <2> QED BY Zenon, <2>2 DEF QueueCounts, HasStopped
<1>5. ASSUME NEW e, Take(e) PROVE QueueCounts'
  <2>1. /\ pending # <<>> /\ e = Head(pending) /\ pending' = take_pending
        /\ UNCHANGED <<proc, report>>
    BY Zenon, <1>5 DEF Take
  <2>2. \A i \in DOMAIN pending' : i + 1 \in DOMAIN pending /\ pending'[i] = pending[i + 1]
    BY ZenonT(30), <1>0, <2>1, TakeEffects
  <2> QED BY ZenonT(30), <1>1, <1>2, <2>2 DEF QueueCounts, HasStopped
<1>6. CASE CalmActions
  BY ZenonT(30), <1>0, <1>3, <1>6, CalmEffects DEF Calm
<1>7. CASE StageFails \/ Forking \/ WaitReturns
  BY ZenonT(30), <1>3, <1>7 DEF StageFails, Forking, StageForks, WaitReturns
<1>8. CASE Launched
  BY ZenonT(30), <1>3, <1>8, LaunchedEffects DEF SameWorld
<1>9. CASE \E ok \in Pipelines, background \in BOOLEAN, redirect \in Redirects :
             Launch(ok, background, redirect)
  BY ZenonT(30), <1>3, <1>9 DEF Launch
<1>10. CASE \E j \in Numbers : \E timeout \in Timeouts : ResumeFg(j, timeout)
  BY ZenonT(30), <1>3, <1>10, ResumeEffects
<1>11. CASE \E e : Tracked(e) \/ Counted(e)
  BY ZenonT(30), <1>5, <1>11 DEF Tracked, Counted
<1> QED
  BY ZenonT(30), <1>0, <1>4, <1>6, <1>7, <1>8, <1>9, <1>10, <1>11, StepCases DEF Steps

\* outreg_finalize() of a process that has exited finalizes nothing early.
LEMMA FinalizedEarly ==
  ASSUME Types, NEW q \in Pids, NEW p \in Pids, outreg_finalize(out, q)[p] = "early"
  PROVE  out[p] = "early" \/ (p = q /\ proc[q] # "exited")
BY SMTT(30) DEF outreg_finalize, Types

\* What the end of a wait finalizes has exited.
LEMMA ReturnCounts ==
  ASSUME JobsInv, AlarmOfJob, WaitReturns, NEW p \in Pids, out'[p] = "early"
  PROVE  out[p] = "early"
<1>0. Types /\ DoneSettled
  BY Zenon DEF JobsInv
<1>1. CASE out' = out
  BY Zenon, <1>1
<1>2. CASE wait.done = Range(wait.pids) /\ out' = FinalizeAll(out, wait.pids)
  <2>1. out'[p] = IF p \in Range(wait.pids) THEN outreg_finalize(out, p)[p] ELSE out[p]
    BY SMTT(30), <1>2 DEF FinalizeAll
  <2>2. CASE p \in Range(wait.pids)
    <3>1. proc[p] = "exited"
      BY ZenonT(30), <1>0, <1>2, <2>2 DEF DoneSettled
    <3>2. outreg_finalize(out, p)[p] = "early"
      BY ZenonT(30), <2>1, <2>2
    <3> QED BY ZenonT(30), <1>0, <3>1, <3>2, FinalizedEarly
  <2> QED BY ZenonT(30), <2>1, <2>2
<1>3. WaitOver \/ Aborted
  BY Zenon DEF WaitReturns
<1>4. CASE AfterLaunch
  <2>1. ~Aborted
    BY Zenon, <1>4 DEF AfterLaunch, Aborted, AlarmOfJob
  <2> QED BY ZenonT(30), <1>1, <1>2, <1>3, <1>4, <2>1 DEF AfterLaunch, WaitOver
<1>5. CASE AfterResume
  <2>1. out' = out \/ (out' = FinalizeAll(out, wait.pids) /\ ~wait.stopped
                       /\ ~(Aborted /\ ~wait.stopped /\ wait.done # Range(wait.pids)))
    BY ZenonT(30), <1>5 DEF AfterResume
  <2> QED BY ZenonT(30), <1>1, <1>2, <1>3, <2>1 DEF WaitOver
<1> QED BY Zenon, <1>4, <1>5 DEF WaitReturns

\* The registry.
LEMMA StepOutputCounts ==
  ASSUME JobsInv, StopsCounted, [Next]_vars
  PROVE  OutputCounts'
<1>0. /\ Types /\ Forks /\ Reports /\ WaitShape /\ ExitsLast
      /\ stops \in [Pids -> Nat] /\ KernelCounts /\ QueueCounts /\ OutputCounts /\ AlarmOfJob
  BY Zenon DEF JobsInv, StopsCounted
<1>1. \A p \in Pids : HasStopped(p) => HasStopped(p)'
  BY Zenon, <1>0, StopsStay
<1>2. CASE \A p \in Pids : out'[p] = "early" => out[p] = "early"
  BY ZenonT(30), <1>0, <1>1, <1>2 DEF OutputCounts
<1>3. CASE UNCHANGED out
  BY Zenon, <1>2, <1>3
<1>4. ASSUME NEW e, Take(e), out' = outreg_finalize(out, e.pid) PROVE OutputCounts'
  <2>1. /\ pending # <<>> /\ e = Head(pending) /\ pending' = take_pending
        /\ UNCHANGED <<proc, report>>
    BY Zenon, <1>4 DEF Take
  <2>2. e = pending[1] /\ 1 \in DOMAIN pending /\ (e.status = "exited" => proc[e.pid] = "exited")
    BY ZenonT(30), <1>0, <2>1, TakeEffects
  <2>3. e.pid \in Pids
    BY ZenonT(30), <1>4, TakeInv
  <2>4. proc[e.pid] # "exited" => HasStopped(e.pid)
    BY ZenonT(30), <1>0, <2>2 DEF QueueCounts
  <2>5. \A p \in Pids : out'[p] = "early" => out[p] = "early" \/ (p = e.pid /\ proc[e.pid] # "exited")
    BY ZenonT(30), <1>0, <1>4, <2>3, FinalizedEarly
  <2> QED BY ZenonT(30), <1>0, <1>1, <2>4, <2>5 DEF OutputCounts
<1>5. CASE Forking
  <2>1. PICK p \in Pids : out' = [out EXCEPT ![p] = IF wait.redirect THEN "used" ELSE "none"]
    BY ZenonT(30), <1>0, <1>5, StageEffects
  <2>2. \A q \in Pids : out'[q] = "early" => out[q] = "early"
    BY SMTT(30), <1>0, <2>1 DEF Types
  <2> QED BY Zenon, <1>2, <2>2
<1>6. CASE WaitReturns
  BY ZenonT(30), <1>0, <1>2, <1>6, ReturnCounts
<1>7. CASE CalmActions
  BY ZenonT(30), <1>0, <1>3, <1>7, CalmEffects DEF Calm
<1>8. CASE SigchldHandler
  BY ZenonT(30), <1>3, <1>8, HandlerPlaces
<1>9. CASE StageFails
  BY ZenonT(30), <1>3, <1>9 DEF StageFails
<1>10. CASE Launched
  BY ZenonT(30), <1>3, <1>10, LaunchedEffects DEF SameWorld
<1>11. CASE \E ok \in Pipelines, background \in BOOLEAN, redirect \in Redirects :
             Launch(ok, background, redirect)
  BY ZenonT(30), <1>3, <1>11 DEF Launch
<1>12. CASE \E j \in Numbers : \E timeout \in Timeouts : ResumeFg(j, timeout)
  BY ZenonT(30), <1>3, <1>12, ResumeEffects
<1>13. ASSUME NEW e, Tracked(e) PROVE OutputCounts'
  BY ZenonT(30), <1>4, <1>13, TrackedEffects DEF Tracked
<1>14. ASSUME NEW e, Counted(e) PROVE OutputCounts'
  <2>1. Take(e) /\ OwnEvent(e)
    BY Zenon, <1>14 DEF Counted
  <2>2. out' = out \/ out' = outreg_finalize(out, e.pid)
    BY <2>1 DEF OwnEvent
  <2> QED BY ZenonT(30), <1>3, <1>4, <2>1, <2>2
<1> QED
  BY ZenonT(30), <1>0, <1>5, <1>6, <1>7, <1>8, <1>9, <1>10, <1>11, <1>12, <1>13, <1>14, StepCases
  DEF Steps

\* The alarm.
LEMMA StepAlarmOfJob ==
  ASSUME JobsInv, AlarmOfJob, [Next]_vars
  PROVE  AlarmOfJob'
<1>0. Types /\ Forks /\ Reports /\ WaitShape
  BY Zenon DEF JobsInv
<1>1. wait \in WaitType
  BY Zenon, <1>0 DEF Types
<1>2. CASE wait'.alarm = wait.alarm /\ wait'.job = wait.job
  BY Zenon, <1>2 DEF AlarmOfJob
<1>3. CASE wait' = NoWait
  BY SMTT(30), <1>3 DEF AlarmOfJob, NoWait
<1>4. CASE UNCHANGED wait
  BY Zenon, <1>2, <1>4
<1>5. CASE CalmActions
  BY ZenonT(30), <1>0, <1>4, <1>5, CalmEffects DEF Calm
<1>6. CASE SigchldHandler
  BY ZenonT(30), <1>4, <1>6, HandlerPlaces
<1>7. CASE StageFails
  BY ZenonT(30), <1>1, <1>2, <1>7 DEF StageFails, WaitType
<1>8. CASE Forking
  <2>1. PICK born \in Born : StageForks(born)
    BY Zenon, <1>8 DEF Forking
  <2>2. PICK p, g : wait' = [wait EXCEPT !.stages = Tail(@), !.first = FALSE, !.pgid = g,
                                         !.pids = Append(@, p)]
    BY Zenon, <2>1 DEF StageForks
  <2> QED BY ZenonT(30), <1>1, <1>2, <2>2 DEF WaitType
<1>9. CASE Launched
  BY ZenonT(30), <1>3, <1>4, <1>9, LaunchedEffects
<1>10. CASE WaitReturns
  BY ZenonT(30), <1>3, <1>10 DEF WaitReturns
<1>11. CASE \E ok \in Pipelines, background \in BOOLEAN, redirect \in Redirects :
             Launch(ok, background, redirect)
  <2>1. ~wait'.alarm
    BY SMTT(30), <1>11 DEF Launch, NoWait
  <2> QED BY Zenon, <2>1 DEF AlarmOfJob
<1>12. CASE \E j \in Numbers : \E timeout \in Timeouts : ResumeFg(j, timeout)
  BY ZenonT(30), <1>12, ResumeEffects DEF AlarmOfJob
<1>13. ASSUME NEW e, Tracked(e) PROVE AlarmOfJob'
  BY ZenonT(30), <1>4, <1>13 DEF Tracked
<1>14. ASSUME NEW e, Counted(e) PROVE AlarmOfJob'
  <2>1. OwnEvent(e)
    BY Zenon, <1>14 DEF Counted
  <2>2. wait'.alarm = wait.alarm /\ wait'.job = wait.job
    BY SMTT(30), <1>1, <2>1 DEF OwnEvent, WaitType
  <2> QED BY Zenon, <1>2, <2>2
<1> QED
  BY ZenonT(30), <1>0, <1>5, <1>6, <1>7, <1>8, <1>9, <1>10, <1>11, <1>12, <1>13, <1>14, StepCases
  DEF Steps

\* StopsCounted holds at the start.
LEMMA InitCounted == ASSUME Init PROVE StopsCounted
<1>1. stops \in [Pids -> Nat]
  BY SMTT(30) DEF Init
<1>2. KernelCounts /\ QueueCounts /\ OutputCounts /\ AlarmOfJob
  BY SMTT(30) DEF Init, KernelCounts, QueueCounts, OutputCounts, AlarmOfJob, NoWait
<1> QED BY Zenon, <1>1, <1>2 DEF StopsCounted

\* A process whose output is finalized before its exit has been stopped, whether or not
\* the queue of events has room.
THEOREM StopsCountedSafe == Spec => []StopsCounted
<1>1. Init => StopsCounted
  BY Zenon, InitCounted
<1>2. JobsInv /\ StopsCounted /\ [Next]_vars => StopsCounted'
  <2> SUFFICES ASSUME JobsInv, StopsCounted, [Next]_vars PROVE StopsCounted'
    OBVIOUS
  <2>1. stops \in [Pids -> Nat] /\ KernelCounts /\ QueueCounts /\ AlarmOfJob
    BY Zenon DEF StopsCounted
  <2> QED
    BY ZenonT(30), <2>1, StopsStay, StepQueueCounts, StepOutputCounts, StepAlarmOfJob
    DEF StopsCounted
<1> QED BY <1>1, <1>2, JobsSafe, PTL DEF Spec

\* Once the exit of a process has been applied, by the foreground wait, by the job table
\* or by neither, its output has been copied: all of it, unless the process has been
\* stopped and what it wrote was finalized at the stop.
THEOREM OutputIsDelivered == Spec /\ NothingDropped => []OutputDelivered
<1>1. ASSUME JobsInv, Heard, StopsCounted PROVE OutputDelivered
  <2> SUFFICES ASSUME NEW p \in Pids, proc[p] = "exited", report[p] = "none",
                      \A i \in DOMAIN pending : pending[i].pid # p
               PROVE  out[p] \in {"none", "whole"} \/ (out[p] = "early" /\ stops[p] > 0)
    BY Zenon DEF OutputDelivered
  <2>1. Settled(p)
    BY Zenon DEF Settled
  <2>2. out[p] # "used"
    BY Zenon, <1>1, <2>1 DEF Heard, NoneLeft
  <2>3. out[p] = "early" => stops[p] > 0
    BY Zenon, <1>1 DEF StopsCounted, OutputCounts, HasStopped
  <2>4. out[p] \in {"none", "used", "early", "whole"}
    BY <1>1 DEF JobsInv, Types
  <2> QED BY <2>2, <2>3, <2>4
<1>2. JobsInv /\ Heard /\ StopsCounted => OutputDelivered
  BY Zenon, <1>1
<1> QED BY <1>2, JobsSafe, HeardSafe, StopsCountedSafe, PTL

-----------------------------------------------------------------------------
(* Stops and continuations.                                                *)

\* The parts of StopsApplied.
WaitStops == Waiting => \A p \in Pids : Range(wait.pids) = {p} /\ Settled(p) /\ pgrp[p] = wait.pgid
                                          => (wait.stopped <=> proc[p] = "stopped")
TableStops == \A j \in Numbers : \A p \in Pids :
                j # wait.job /\ Members(j) = {p} /\ Settled(p) /\ pgrp[p] = jobs[j].pgid =>
                  (jobs[j].state = "JOB_STOPPED" <=> proc[p] = "stopped")

\* A child stays in its group.
GroupsStay == \A p \in Started : pgrp'[p] = pgrp[p]

\* It does so in the steps that take no event.
LEMMA OtherGroups == ASSUME JobsInv, OtherSteps PROVE GroupsStay
<1>0. Types /\ Forks /\ Reports /\ WaitShape
  BY Zenon DEF JobsInv
<1>1. CASE UNCHANGED pgrp
  BY Zenon, <1>1 DEF GroupsStay
<1>2. CASE Forking
  <2>1. PICK p \in Pids, g \in 0 .. NPIDS : proc[p] = "none" /\ pgrp' = [pgrp EXCEPT ![p] = g]
    BY ZenonT(30), <1>0, <1>2, StageEffects
  <2>2. \A q \in Pids : q # p => pgrp'[q] = pgrp[q]
    BY SMTT(30), <1>0, <2>1 DEF Types
  <2> QED BY Zenon, <2>1, <2>2 DEF Started, GroupsStay
<1>3. CASE CalmActions
  BY ZenonT(30), <1>0, <1>1, <1>3, CalmEffects DEF Calm
<1>4. CASE SigchldHandler
  BY ZenonT(30), <1>1, <1>4, HandlerPlaces
<1>5. CASE StageFails \/ WaitReturns
  BY ZenonT(30), <1>1, <1>5 DEF StageFails, WaitReturns, osVars
<1>6. CASE Launched
  BY ZenonT(30), <1>1, <1>6, LaunchedEffects DEF SameWorld
<1>7. CASE \E ok \in Pipelines, background \in BOOLEAN, redirect \in Redirects :
             Launch(ok, background, redirect)
  BY ZenonT(30), <1>1, <1>7 DEF Launch, osVars
<1>8. CASE \E j \in Numbers : \E timeout \in Timeouts : ResumeFg(j, timeout)
  BY ZenonT(30), <1>1, <1>8, ResumeEffects
<1> QED BY ZenonT(30), <1>2, <1>3, <1>4, <1>5, <1>6, <1>7, <1>8 DEF OtherSteps

\* What the table and the wait know of a child that the step leaves settled.
LEMMA StillStopped ==
  ASSUME JobsInv, Hushed, GroupsStay, StopsApplied, NEW p \in Pids, Settled(p)'
  PROVE  /\ \A j \in Numbers : j # wait.job /\ Members(j) = {p} /\ pgrp'[p] = jobs[j].pgid =>
              (jobs[j].state = "JOB_STOPPED" <=> proc'[p] = "stopped")
         /\ Waiting /\ Range(wait.pids) = {p} /\ pgrp'[p] = wait.pgid
              => (wait.stopped <=> proc'[p] = "stopped")
<1>0. Membership
  BY Zenon DEF JobsInv
<1>1. p \in Started => Settled(p) /\ proc'[p] = proc[p] /\ pgrp'[p] = pgrp[p]
  BY Zenon DEF Hushed, GroupsStay
<1>2. p \in Range(wait.pids) => p \in Started
  BY Zenon, <1>0 DEF Membership, Started
<1>3. \A j \in Numbers : p \in Members(j) => p \in Started
  BY Zenon, <1>0 DEF Membership, Started
<1>4. \A j \in Numbers : j # wait.job /\ Members(j) = {p} /\ pgrp'[p] = jobs[j].pgid =>
        (jobs[j].state = "JOB_STOPPED" <=> proc'[p] = "stopped")
  <2>1. ASSUME NEW j \in Numbers, j # wait.job, Members(j) = {p}, pgrp'[p] = jobs[j].pgid
        PROVE  jobs[j].state = "JOB_STOPPED" <=> proc'[p] = "stopped"
    <3>1. Settled(p) /\ proc'[p] = proc[p] /\ pgrp[p] = jobs[j].pgid
      BY ZenonT(30), <1>1, <1>3, <2>1
    <3>2. jobs[j].state = "JOB_STOPPED" <=> proc[p] = "stopped"
      BY Zenon, <2>1, <3>1 DEF StopsApplied
    <3> QED BY Zenon, <3>1, <3>2
  <2> QED BY Zenon, <2>1
<1>5. ASSUME Waiting, Range(wait.pids) = {p}, pgrp'[p] = wait.pgid
      PROVE  wait.stopped <=> proc'[p] = "stopped"
  <2>1. Settled(p) /\ proc'[p] = proc[p] /\ pgrp[p] = wait.pgid
    BY ZenonT(30), <1>1, <1>2, <1>5
  <2>2. wait.stopped <=> proc[p] = "stopped"
    BY Zenon, <1>5, <2>1 DEF StopsApplied
  <2> QED BY Zenon, <2>1, <2>2
<1> QED BY Zenon, <1>4, <1>5

\* SIGCONT to the group of a job of one process reaches the process if it is there.
LEMMA Resumed ==
  ASSUME JobsInv, Hushed, GroupsStay, NEW j \in Numbers, NEW p \in Pids, Members(j) = {p},
         Settled(p)', pgrp'[p] = jobs[j].pgid,
         \A q \in Pids : pgrp[q] = jobs[j].pgid /\ proc[q] = "stopped" => report'[q] = "continued"
  PROVE  proc'[p] # "stopped"
<1>0. Membership
  BY Zenon DEF JobsInv
<1>1. p \in Started
  BY Zenon, <1>0 DEF Membership, Started
<1>2. pgrp[p] = jobs[j].pgid
  BY Zenon, <1>1 DEF GroupsStay
<1>3. report'[p] = "none"
  BY Zenon DEF Settled
<1>4. report'[p] # "continued"
  BY <1>3
<1>5. proc[p] # "stopped"
  BY Zenon, <1>2, <1>4
<1> QED BY Zenon, <1>1, <1>5 DEF Hushed

\* resume in the background is the one quiet step that changes the table.
LEMMA CalmTable ==
  ASSUME CalmActions
  PROVE  UNCHANGED jobs \/ \E j \in Numbers : ResumeBg(j)
<1>1. CASE \E j \in Numbers : PingCont(j) \/ ResumeBg(j)
  BY Zenon, <1>1 DEF PingCont, tableVars
<1>2. CASE Child
  BY Zenon, <1>2 DEF Child, ChildExits, ChildStops, tableVars
<1>3. CASE UNCHANGED vars \/ Interrupt \/ AlarmHandler \/ OtherCommand \/ EndOfFile
  BY Zenon, <1>3 DEF vars, Interrupt, AlarmHandler, OtherCommand, EndOfFile, tableVars
<1>4. CASE Prompt \/ ProcessingDone \/ WaitNone \/ Suspend
  BY Zenon, <1>4 DEF Prompt, ProcessingDone, WaitNone, Suspend, tableVars
<1> QED BY ZenonT(30), <1>1, <1>2, <1>3, <1>4 DEF CalmActions

\* The states in the table after a step that takes no event.
LEMMA OtherTableStops ==
  ASSUME JobsInv, OtherSteps, SigchldHandler => Fits, Heard, StopsApplied
  PROVE  TableStops'
<1>0. Types /\ Forks /\ Reports /\ WaitShape /\ Membership /\ Hushed /\ LaunchedRunning /\ ExitsApplied
      /\ GroupsStay
  BY Zenon, OtherHushed, OtherGroups DEF JobsInv, Heard
<1>1. \A p \in Pids : Settled(p)' =>
        /\ \A j \in Numbers : j # wait.job /\ Members(j) = {p} /\ pgrp'[p] = jobs[j].pgid =>
              (jobs[j].state = "JOB_STOPPED" <=> proc'[p] = "stopped")
        /\ Waiting /\ Range(wait.pids) = {p} /\ pgrp'[p] = wait.pgid => (wait.stopped <=> proc'[p] = "stopped")
        /\ pc = "launch" /\ p \in Range(wait.pids) => proc'[p] \in Born
  BY ZenonT(30), <1>0, StillStopped, StillApplied
<1> DEFINE Tells(n) == \A p \in Pids : Range(jobs'[n].pids) = {p} /\ Settled(p)'
                                            /\ pgrp'[p] = jobs'[n].pgid =>
                         (jobs'[n].state = "JOB_STOPPED" <=> proc'[p] = "stopped")
           Old(n) == /\ n \in Numbers /\ Range(jobs'[n].pids) = Members(n) /\ n # wait.job
                     /\ jobs'[n].state = jobs[n].state /\ jobs'[n].pgid = jobs[n].pgid
           New(n) == n \in DOMAIN jobs' /\ Range(jobs'[n].pids) = Range(wait.pids)
                     /\ jobs'[n].pgid = wait.pgid
<1>2. ASSUME NEW n, Old(n) PROVE Tells(n)
  BY ZenonT(30), <1>1, <1>2
<1>3. ASSUME NEW n, New(n), pc = "launch", jobs'[n].state = "JOB_RUNNING" PROVE Tells(n)
  <2>1. jobs'[n].state # "JOB_STOPPED"
    BY <1>3
  <2>2. \A p \in Pids : Range(wait.pids) = {p} /\ Settled(p)' => proc'[p] \in Born
    BY ZenonT(30), <1>1, <1>3
  <2>3. \A p \in Pids : proc'[p] \in Born => proc'[p] # "stopped"
    BY DEF Born
  <2> QED BY ZenonT(30), <1>3, <2>1, <2>2, <2>3
<1>4. ASSUME NEW n, New(n), Waiting, wait.stopped, jobs'[n].state = "JOB_STOPPED" PROVE Tells(n)
  BY ZenonT(30), <1>1, <1>4
<1>5. (\A n \in Numbers' : n # wait'.job => Tells(n)) => TableStops'
  BY Zenon DEF TableStops, Members
<1> HIDE DEF Tells
<1>6. CASE UNCHANGED jobs /\ wait'.job = wait.job
  BY ZenonT(30), <1>2, <1>5, <1>6 DEF Numbers, Members
<1>7. ASSUME NEW j \in Numbers, jobs' = [jobs EXCEPT ![j].state = "JOB_RUNNING"],
             \A q \in Pids : pgrp[q] = jobs[j].pgid /\ proc[q] = "stopped" => report'[q] = "continued",
             wait.job = None
      PROVE  TableStops'
  <2>1. SameTable /\ (\A n \in DOMAIN jobs : n # j => jobs'[n] = jobs[n])
        /\ jobs'[j].state = "JOB_RUNNING"
    BY ZenonT(30), <1>0, <1>7, StateOfJob
  <2>2. Numbers' = Numbers /\ \A n \in Numbers : /\ Range(jobs'[n].pids) = Members(n) /\ n # wait.job
                                                 /\ jobs'[n].pgid = jobs[n].pgid
    BY ZenonT(30), <1>7, <2>1, SameMembers, WaitedJob DEF SameTable, Numbers
  <2>3. \A p \in Pids : Members(j) = {p} /\ Settled(p)' /\ pgrp'[p] = jobs[j].pgid => proc'[p] # "stopped"
    BY ZenonT(30), <1>0, <1>7, Resumed
  <2>4. jobs'[j].state # "JOB_STOPPED"
    BY SMTT(30), <2>1
  <2>5. Tells(j)
    BY ZenonT(30), <2>2, <2>3, <2>4 DEF Tells
  <2>6. \A n \in Numbers : n # j => Tells(n)
    BY ZenonT(30), <1>2, <2>1, <2>2 DEF Numbers
  <2> QED BY ZenonT(30), <1>5, <2>2, <2>5, <2>6
<1>8. CASE CalmActions
  <2>1. wait' = wait
    BY ZenonT(30), <1>0, <1>8, CalmEffects DEF Calm
  <2>2. ASSUME NEW j \in Numbers, ResumeBg(j) PROVE TableStops'
    <3>1. /\ pc = "idle" /\ Continue(jobs[j].pgid)
          /\ jobs' = [jobs EXCEPT ![j].state = "JOB_RUNNING"]
      BY ZenonT(30), <2>2 DEF ResumeBg
    <3>2. \A q \in Pids : pgrp[q] = jobs[j].pgid /\ proc[q] = "stopped" => report'[q] = "continued"
      BY ZenonT(30), <1>0, <3>1, ContinueEffects
    <3>3. wait = NoWait
      BY SMTT(30), <1>0, <3>1 DEF WaitShape
    <3> QED BY ZenonT(30), <1>7, <3>1, <3>2, <3>3, AtRest
  <2> QED BY ZenonT(30), <1>6, <1>8, <2>1, <2>2, CalmTable
<1>9. CASE SigchldHandler
  BY ZenonT(30), <1>6, <1>9, HandlerPlaces DEF tableVars
<1>10. CASE StageFails \/ Forking
  <2>1. wait \in WaitType /\ UNCHANGED jobs
    BY ZenonT(30), <1>0, <1>10 DEF Types, StageFails, Forking, StageForks, tableVars
  <2>2. wait'.job = wait.job
    BY Zenon, <1>10, <2>1 DEF StageFails, Forking, StageForks, WaitType
  <2> QED BY ZenonT(30), <1>6, <2>1, <2>2
<1>11. CASE \E ok \in Pipelines, background \in BOOLEAN, redirect \in Redirects :
              Launch(ok, background, redirect)
  <2>1. UNCHANGED jobs /\ wait = NoWait
    BY SMTT(30), <1>0, <1>11 DEF Launch, tableVars, WaitShape
  <2>2. wait'.job = wait.job
    BY SMTT(30), <1>11, <2>1 DEF Launch, NoWait
  <2> QED BY ZenonT(30), <1>6, <2>1, <2>2
<1>12. ASSUME NEW j \in Numbers, NEW timeout \in Timeouts, ResumeFg(j, timeout) PROVE TableStops'
  <2>1. wait = NoWait /\ jobs' = [jobs EXCEPT ![j].state = "JOB_RUNNING"]
        /\ \A q \in Pids : pgrp[q] = jobs[j].pgid /\ proc[q] = "stopped" => report'[q] = "continued"
    BY ZenonT(30), <1>12, ResumeEffects DEF ResumeFg
  <2> QED BY ZenonT(30), <1>7, <2>1, AtRest
<1>13. CASE Launched
  <2>1. pc = "launch" /\ wait.job = None
    BY ZenonT(30), <1>0, <1>13, LaunchedEffects DEF WaitShape
  <2>2. CASE wait' \in {wait, NoWait} /\ UNCHANGED jobs
    BY ZenonT(30), <1>6, <2>1, <2>2, AtRest
  <2>3. CASE jobs_register(wait.pgid, wait.pids, TRUE, "JOB_RUNNING")
    <3>1. \A n \in DOMAIN jobs' : \/ n \in DOMAIN jobs /\ jobs'[n] = jobs[n]
                                  \/ /\ jobs'[n].pids = wait.pids /\ jobs'[n].state = "JOB_RUNNING"
                                     /\ jobs'[n].pgid = wait.pgid
      BY ZenonT(30), <1>0, <2>3, Registered
    <3>2. \A n \in Numbers' : Old(n) \/ (New(n) /\ jobs'[n].state = "JOB_RUNNING")
      BY ZenonT(30), <2>1, <3>1, WaitedJob DEF Numbers, Members
    <3> HIDE DEF Old, New
    <3> QED BY ZenonT(30), <1>2, <1>3, <1>5, <2>1, <3>2
  <2> QED BY ZenonT(30), <1>13, <2>2, <2>3, LaunchedEffects DEF LaunchLeaves
<1>14. CASE WaitReturns
  <2>0. Waiting /\ wait' = NoWait
    BY ZenonT(30), <1>0, <1>14, ReturnEffects
  <2>1. CASE wait.job = None /\ wait.stopped
             /\ jobs_register(wait.pgid, wait.pids, FALSE, "JOB_STOPPED")
    <3>1. \A n \in DOMAIN jobs' : \/ n \in DOMAIN jobs /\ jobs'[n] = jobs[n]
                                  \/ /\ jobs'[n].pids = wait.pids /\ jobs'[n].state = "JOB_STOPPED"
                                     /\ jobs'[n].pgid = wait.pgid
      BY ZenonT(30), <1>0, <2>1, Registered
    <3>2. \A n \in Numbers' : Old(n) \/ (New(n) /\ jobs'[n].state = "JOB_STOPPED")
      BY ZenonT(30), <2>1, <3>1, WaitedJob DEF Numbers, Members
    <3> HIDE DEF Old, New
    <3> QED BY ZenonT(30), <1>2, <1>4, <1>5, <2>0, <2>1, <3>2
  <2>2. CASE wait.job = None /\ UNCHANGED jobs
    BY ZenonT(30), <1>6, <2>0, <2>2, AtRest
  <2>3. CASE wait.job # None /\ wait.stopped /\ jobs' = [jobs EXCEPT ![wait.job].state = "JOB_STOPPED"]
    <3>0. /\ wait.job \in Numbers /\ Members(wait.job) = Range(wait.pids)
          /\ jobs[wait.job].pgid = wait.pgid
      BY ZenonT(30), <1>0, <2>3, WaitedJob DEF Membership
    <3>1. /\ Numbers' = Numbers /\ \A n \in Numbers : Range(jobs'[n].pids) = Members(n)
          /\ \A n \in Numbers : n # wait.job => jobs'[n].state = jobs[n].state
          /\ jobs'[wait.job].state = "JOB_STOPPED"
          /\ \A n \in Numbers : jobs'[n].pgid = jobs[n].pgid
      BY SMTT(30), <1>0, <2>3, <3>0 DEF Types, JobType, Numbers, Members
    <3>2. ASSUME NEW n \in Numbers' PROVE Old(n) \/ (New(n) /\ jobs'[n].state = "JOB_STOPPED")
      BY ZenonT(30), <2>3, <3>0, <3>1 DEF Numbers
    <3> HIDE DEF Old, New
    <3> QED BY ZenonT(30), <1>2, <1>4, <1>5, <2>0, <2>3, <3>2
  <2>4. CASE jobs' = Without(jobs, wait.job)
    <3>1. \A n \in Numbers' : Old(n)
      BY SMTT(30), <2>4 DEF Without, Numbers, Members
    <3> HIDE DEF Old
    <3> QED BY ZenonT(30), <1>2, <1>5, <3>1
  <2>5. wait.job # None => wait.job \in Numbers
    BY Zenon, WaitedJob
  <2> QED BY ZenonT(30), <1>0, <1>14, <2>1, <2>2, <2>3, <2>4, <2>5, ReturnEffects
<1> QED BY ZenonT(30), <1>8, <1>9, <1>10, <1>11, <1>12, <1>13, <1>14 DEF OtherSteps

\* The wait after a step that takes no event.
LEMMA OtherWaitStops ==
  ASSUME JobsInv, OtherSteps, SigchldHandler => Fits, Heard, StopsApplied
  PROVE  WaitStops'
<1>0. Types /\ Forks /\ Reports /\ WaitShape /\ Membership /\ Hushed /\ LaunchedRunning /\ ExitsApplied
      /\ GroupsStay
  BY Zenon, OtherHushed, OtherGroups DEF JobsInv, Heard
<1>1. \A p \in Pids : Settled(p)' =>
        /\ Waiting /\ Range(wait.pids) = {p} /\ pgrp'[p] = wait.pgid => (wait.stopped <=> proc'[p] = "stopped")
        /\ pc = "launch" /\ p \in Range(wait.pids) => proc'[p] \in Born
  BY ZenonT(30), <1>0, StillStopped, StillApplied
<1>2. CASE SamePlace /\ UNCHANGED wait
  BY Zenon, <1>1, <1>2 DEF WaitStops, SamePlace
<1>3. CASE ~Waiting'
  BY Zenon, <1>3 DEF WaitStops
<1>4. CASE CalmActions
  BY ZenonT(30), <1>0, <1>2, <1>4, CalmEffects DEF Calm
<1>5. CASE SigchldHandler
  BY ZenonT(30), <1>2, <1>5, HandlerPlaces
<1>6. CASE StageFails \/ Forking
  <2>1. ~Waiting'
    BY Zenon, <1>6 DEF StageFails, Forking, StageForks, Waiting
  <2> QED BY ZenonT(30), <1>3, <2>1
<1>7. CASE \E ok \in Pipelines, background \in BOOLEAN, redirect \in Redirects :
             Launch(ok, background, redirect)
  <2>1. ~Waiting'
    BY <1>7 DEF Launch, Waiting
  <2> QED BY ZenonT(30), <1>3, <2>1
<1>8. CASE Launched
  <2>1. pc = "launch" /\ (pc' = "top" \/ UNCHANGED wait)
    BY ZenonT(30), <1>8, LaunchedEffects
  <2>2. CASE pc' = "top"
    BY SMTT(30), <1>3, <2>2 DEF Waiting
  <2>3. CASE UNCHANGED wait
    <3>1. ASSUME NEW p \in Pids, Range(wait.pids) = {p}, Settled(p)' PROVE proc'[p] # "stopped"
      <4>1. proc'[p] \in Born
        BY ZenonT(30), <1>1, <2>1, <3>1
      <4> QED BY <4>1 DEF Born
    <3>2. ~wait.stopped
      BY Zenon, <1>0, <2>1 DEF WaitShape
    <3> QED BY ZenonT(30), <2>3, <3>1, <3>2 DEF WaitStops
  <2> QED BY ZenonT(30), <2>1, <2>2, <2>3
<1>9. CASE WaitReturns
  <2>1. pc' \in {"top", "over"}
    BY ZenonT(30), <1>0, <1>9, ReturnEffects
  <2>2. ~Waiting'
    BY SMTT(30), <2>1 DEF Waiting
  <2> QED BY ZenonT(30), <1>3, <2>2
<1>10. ASSUME NEW j \in Numbers, NEW timeout \in Timeouts, ResumeFg(j, timeout) PROVE WaitStops'
  <2>1. /\ wait'.pids = jobs[j].pids /\ wait'.pgid = jobs[j].pgid /\ ~wait'.stopped
        /\ \A q \in Pids : pgrp[q] = jobs[j].pgid /\ proc[q] = "stopped" => report'[q] = "continued"
    BY Zenon, <1>10, ResumeEffects
  <2>2. \A p \in Pids : Members(j) = {p} /\ Settled(p)' /\ pgrp'[p] = jobs[j].pgid => proc'[p] # "stopped"
    BY ZenonT(30), <1>0, <2>1, Resumed
  <2> QED BY ZenonT(30), <2>1, <2>2 DEF WaitStops, Members
<1> QED BY ZenonT(30), <1>4, <1>5, <1>6, <1>7, <1>8, <1>9, <1>10 DEF OtherSteps

\* The three events tell three states apart.
LEMMA EventTells ==
  ASSUME NEW e, e.status \in Events, e.status = StatusOf(e.pid)
  PROVE  /\ e.status = "stopped" <=> proc[e.pid] = "stopped"
         /\ \/ e.status = "stopped"
            \/ e.status = "continued" /\ proc[e.pid] # "stopped"
            \/ e.status = "exited" /\ proc[e.pid] # "stopped"
<1>1. /\ e.status = "stopped" <=> proc[e.pid] = "stopped"
      /\ e.status = "continued" <=> proc[e.pid] = "running"
      /\ e.status = "exited" <=> proc[e.pid] = "exited"
  BY Zenon, StatusTells
<1> QED BY <1>1 DEF Events

\* Both after an event that is applied to the table.
LEMMA TrackedStops ==
  ASSUME JobsInv, QueueTells, StopsApplied, NEW e, Tracked(e)
  PROVE  WaitStops' /\ TableStops'
<1>1. Take(e) /\ UNCHANGED <<proc, pgrp, pc, wait>>
  BY Zenon DEF Tracked, Take
<1>2. e.status \in Events /\ \A p \in Pids : p # e.pid => (Settled(p)' <=> Settled(p))
  BY ZenonT(30), <1>1, TakeInv
<1>3. e.pid \notin Range(wait.pids)
  BY Zenon, TrackedEffects
<1>4. WaitStops'
  <2>1. ASSUME Waiting, NEW p \in Pids, Range(wait.pids) = {p}, Settled(p)', pgrp[p] = wait.pgid
        PROVE  wait.stopped <=> proc[p] = "stopped"
    <3>1. p # e.pid
      BY ZenonT(30), <1>3, <2>1
    <3> QED BY ZenonT(30), <1>2, <2>1, <3>1 DEF StopsApplied
  <2>2. Waiting' <=> Waiting
    BY Zenon, <1>1 DEF Waiting
  <2> QED BY ZenonT(30), <1>1, <2>1, <2>2 DEF WaitStops
<1>5. ASSUME NEW n \in Numbers', NEW p \in Pids, n # wait.job, Range(jobs'[n].pids) = {p}, Settled(p)',
             pgrp[p] = jobs'[n].pgid
      PROVE  jobs'[n].state = "JOB_STOPPED" <=> proc[p] = "stopped"
  <2>1. n \in Numbers /\ Members(n) = {p} /\ jobs'[n].pgid = jobs[n].pgid
    BY ZenonT(30), <1>5, TrackedTable
  <2>2. CASE p # e.pid
    <3>1. jobs'[n] = jobs[n]
      BY ZenonT(30), <2>1, <2>2, TrackedTable
    <3> QED BY ZenonT(30), <1>2, <1>5, <2>1, <2>2, <3>1 DEF StopsApplied
  <2>3. CASE p = e.pid
    <3>1. e.status = StatusOf(e.pid)
      BY ZenonT(30), <1>1, <1>5, <2>3, LastEvent
    <3>2. /\ e.status = "exited" => jobs[n].done \cup {e.pid} # Members(n)
          /\ e.status = "stopped" => jobs'[n].state = "JOB_STOPPED"
          /\ e.status = "continued" => jobs'[n].state = "JOB_RUNNING"
      BY ZenonT(30), <2>1, <2>3, JobOfEvent
    <3>3. jobs[n].done \subseteq Members(n)
      BY Zenon, <2>1 DEF JobsInv, DoneSettled
    <3>4. e.status # "exited"
      BY ZenonT(30), <2>1, <2>3, <3>2, <3>3
    <3>5. CASE e.status = "stopped"
      BY ZenonT(30), <1>2, <2>3, <3>1, <3>2, <3>5, EventTells
    <3>6. CASE e.status = "continued" /\ proc[e.pid] # "stopped"
      <4>1. jobs'[n].state # "JOB_STOPPED"
        BY SMTT(30), <3>2, <3>6
      <4> QED BY ZenonT(30), <2>3, <3>6, <4>1
    <3> QED BY ZenonT(30), <1>2, <3>1, <3>4, <3>5, <3>6, EventTells
  <2> QED BY ZenonT(30), <2>2, <2>3
<1>6. TableStops'
  BY Zenon, <1>1, <1>5 DEF TableStops, Members
<1> QED BY ZenonT(30), <1>4, <1>6

\* Both after an event of the wait's own.
LEMMA CountedStops ==
  ASSUME JobsInv, QueueTells, StopsApplied, NEW e, Counted(e)
  PROVE  WaitStops' /\ TableStops'
<1>0. Types /\ Membership
  BY Zenon DEF JobsInv
<1>1. /\ Take(e) /\ UNCHANGED <<proc, pgrp, pc, jobs>> /\ e.pid \in Range(wait.pids) /\ OwnEvent(e)
      /\ ~wait.stopped
  BY Zenon DEF Counted, Take
<1>2. /\ e.pid \in Pids /\ e.status \in Events
      /\ \A p \in Pids : p # e.pid => (Settled(p)' <=> Settled(p))
  BY ZenonT(30), <1>1, TakeInv
<1>3. /\ wait'.pids = wait.pids /\ wait'.job = wait.job /\ wait'.pgid = wait.pgid
      /\ \/ e.status = "stopped" /\ wait'.stopped
         \/ e.status = "continued" /\ wait'.stopped = wait.stopped
         \/ e.status = "exited" /\ wait'.stopped = wait.stopped
  BY ZenonT(30), <1>0, <1>1, <1>2, CountedEffects
<1>4. ASSUME NEW p \in Pids, Range(wait.pids) = {p}, Settled(p)'
      PROVE  wait'.stopped <=> proc[p] = "stopped"
  <2>1. p = e.pid
    BY ZenonT(30), <1>1, <1>4
  <2>2. e.status = StatusOf(e.pid)
    BY ZenonT(30), <1>1, <1>4, <2>1, LastEvent
  <2>3. e.status = "stopped" <=> proc[p] = "stopped"
    BY ZenonT(30), <1>2, <2>1, <2>2, EventTells
  <2>4. wait'.stopped <=> e.status = "stopped"
    BY SMTT(30), <1>1, <1>3
  <2> QED BY Zenon, <2>3, <2>4
<1>5. ASSUME NEW n \in Numbers, NEW p \in Pids, n # wait.job, Members(n) = {p}, Settled(p)',
             pgrp[p] = jobs[n].pgid
      PROVE  jobs[n].state = "JOB_STOPPED" <=> proc[p] = "stopped"
  <2>1. e.pid \notin Members(n)
    <3>1. CASE wait.job = None
      BY ZenonT(30), <1>0, <1>1, <3>1 DEF Membership
    <3>2. CASE wait.job # None
      BY ZenonT(30), <1>0, <1>1, <1>5, <3>2, WaitedJob DEF Membership
    <3> QED BY ZenonT(30), <3>1, <3>2
  <2>2. p # e.pid
    BY ZenonT(30), <1>5, <2>1
  <2> QED BY ZenonT(30), <1>2, <1>5, <2>2 DEF StopsApplied
<1>6. WaitStops'
  BY ZenonT(30), <1>1, <1>3, <1>4 DEF WaitStops
<1>7. TableStops'
  BY ZenonT(30), <1>1, <1>3, <1>5 DEF TableStops, Members, Numbers
<1> QED BY ZenonT(30), <1>6, <1>7

\* StopsApplied is kept by every step at which the handler has room.
LEMMA StepStops ==
  ASSUME JobsInv, Heard, StopsApplied, [Next]_vars, [SigchldHandler => Fits]_vars
  PROVE  StopsApplied'
<1>0. WaitShape /\ QueueTells
  BY Zenon DEF JobsInv, Heard
<1>1. Steps
  BY ZenonT(30), <1>0, StepCases
<1>2. CASE OtherSteps
  <2>1. CASE UNCHANGED vars
    <3>1. UNCHANGED <<proc, pgrp, report, pending, jobs, pc, wait>>
      BY Zenon, <2>1 DEF vars, osVars, tableVars
    <3> QED BY ZenonT(30), <3>1 DEF StopsApplied, Settled, Waiting, Numbers, Members
  <2>2. CASE SigchldHandler => Fits
    <3>1. WaitStops' /\ TableStops'
      BY ZenonT(30), <1>2, <2>2, OtherWaitStops, OtherTableStops
    <3> QED BY Zenon, <3>1 DEF StopsApplied, WaitStops, TableStops
  <2> QED BY ZenonT(30), <2>1, <2>2
<1>3. ASSUME NEW e, Tracked(e) \/ Counted(e) PROVE StopsApplied'
  <2>1. WaitStops' /\ TableStops'
    BY ZenonT(30), <1>0, <1>3, TrackedStops, CountedStops
  <2> QED BY Zenon, <2>1 DEF StopsApplied, WaitStops, TableStops
<1> QED BY ZenonT(30), <1>1, <1>2, <1>3 DEF Steps, OtherSteps

\* StopsApplied holds at the start.
LEMMA InitStops == ASSUME Init PROVE StopsApplied
<1>1. jobs = <<>> /\ pc = "top"
  BY Zenon DEF Init
<1>2. Numbers = {} /\ ~Waiting
  BY SMTT(30), <1>1 DEF Numbers, Waiting
<1> QED BY Zenon, <1>2 DEF StopsApplied

\* When the shell is at the prompt and all events have been applied, no job of one process
\* whose process has exited is in the table, and activities shows for a job whose process
\* is in the job's group the state that the process is in.
THEOREM ActivitiesAreUpToDate == Spec /\ NothingDropped => []ActivitiesUpToDate
<1>1. Init => StopsApplied
  BY Zenon, InitStops
<1>2. JobsInv /\ Heard /\ StopsApplied /\ [Next]_vars /\ [SigchldHandler => Fits]_vars
        => StopsApplied'
  BY ZenonT(30), StepStops
<1>3. ASSUME JobsInv, Heard, StopsApplied PROVE ActivitiesUpToDate
  <2> SUFFICES ASSUME pc = "idle", pending = <<>>, \A p \in Pids : report[p] = "none",
                      NEW j \in Numbers, NEW p \in Members(j), Members(j) = {p}
               PROVE  /\ proc[p] # "exited"
                      /\ pgrp[p] = jobs[j].pgid =>
                           (jobs[j].state = "JOB_STOPPED" <=> proc[p] = "stopped")
    BY Zenon DEF ActivitiesUpToDate
  <2>0. Types /\ WaitShape /\ ExitsApplied
    BY Zenon, <1>3 DEF JobsInv, Heard
  <2>1. Members(j) \subseteq Pids
    BY ZenonT(30), <2>0, MembersArePids
  <2>2. Settled(p)
    <3>1. DOMAIN pending = {}
      BY SMTT(30)
    <3> QED BY ZenonT(30), <2>1, <3>1 DEF Settled
  <2>3. wait = NoWait
    BY SMTT(30), <2>0 DEF WaitShape
  <2>4. j # wait.job
    BY ZenonT(30), <1>3, <2>3, AtRest, WaitedJob
  <2> QED BY ZenonT(30), <1>3, <2>0, <2>1, <2>2, <2>4 DEF StopsApplied, ExitsApplied
<1>4. JobsInv /\ Heard /\ StopsApplied => ActivitiesUpToDate
  BY Zenon, <1>3
<1> QED BY <1>1, <1>2, <1>4, JobsSafe, HeardSafe, PTL DEF Spec, NothingDropped

=============================================================================
