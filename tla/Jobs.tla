-------------------------------- MODULE Jobs --------------------------------
(***************************************************************************)
(* Job control of the C shell: jobs.c, resume.c, the launching part of     *)
(* pipeline.c, the output registry of redirection.c and the main loop.     *)
(*                                                                         *)
(* The shell is one thread; its SIGCHLD and SIGALRM handlers run between   *)
(* any two of its steps unless the signal is blocked.  The kernel and the  *)
(* children are the environment: a child exits, stops and is continued at  *)
(* any time, and the kernel keeps, for each child, the last status change  *)
(* that waitpid() has not returned yet.  Pids are not used twice.  A fork()  *)
(* may fail: the -1 that the shell goes on with is the number of a child    *)
(* that is never born.                                                      *)
(***************************************************************************)
EXTENDS Naturals, Sequences, FiniteSets, Functions

CONSTANTS
  NPIDS,        (* bound: children forked altogether                       *)
  MAX_STOPS,    (* bound: stops of each child                              *)
  JOBS_MAX, PENDING_MAX, NOTIF_MAX,
  Pipelines,    (* what is launched: for each stage, whether it is started *)
  Redirects,    (* whether the launched stages write to files: {TRUE}, ... *)
  Timeouts      (* whether `resume fg' is given a timeout                  *)

ASSUME JobsAssumption ==
  /\ NPIDS \in Nat /\ MAX_STOPS \in Nat
  /\ JOBS_MAX \in Nat /\ PENDING_MAX \in Nat /\ NOTIF_MAX \in Nat
  /\ Pipelines \subseteq Seq(BOOLEAN)
  /\ Redirects \subseteq BOOLEAN /\ Timeouts \subseteq BOOLEAN

Pids   == 1 .. NPIDS
None   == 0
ShellGroup == 0   \* the process group of the shell, as kill() and setpgid() name it
Events == {"exited", "stopped", "continued"}

VARIABLES
  proc,       \* a child: none, unborn, running, stopped, exited
  pgrp,       \* its process group
  report,     \* the status change that waitpid() would return
  stops,      \* how often it has stopped
  out,        \* its entry in the output registry: none, used; finalized after its
              \* exit (whole) or before (early)
  pending,    \* pending_pid and pending_status
  jobs,       \* the used entries of the job table, by job number
  next_job_number,
  notif,      \* notif_queue, as job numbers
  printed,    \* history: the jobs whose completion was printed
  pc,         \* where the shell is
  wait,       \* locals of the launch, of the foreground wait and of its caller
  before,     \* history: the stops of each child before the foreground wait
  timed_out,  \* g_timed_out
  eof_warned

osVars == <<proc, pgrp, report, stops>>
tableVars == <<jobs, next_job_number, notif, printed>>
vars == <<osVars, out, pending, tableVars, pc, wait, before, timed_out, eof_warned>>

\* No foreground wait.
NoWait == [stages |-> <<>>, first |-> TRUE, background |-> FALSE, redirect |-> FALSE,
           pids |-> <<>>, pgid |-> 0, done |-> {}, stopped |-> FALSE,
           job |-> None, alarm |-> FALSE]

Init ==
  /\ proc = [p \in Pids |-> "none"]
  /\ pgrp = [p \in Pids |-> ShellGroup]
  /\ report = [p \in Pids |-> "none"]
  /\ stops = [p \in Pids |-> 0]
  /\ out = [p \in Pids |-> "none"]
  /\ pending = <<>>
  /\ jobs = <<>>
  /\ next_job_number = 1
  /\ notif = <<>>
  /\ printed = {}
  /\ pc = "top"
  /\ wait = NoWait
  /\ before = [p \in Pids |-> 0]
  /\ timed_out = FALSE
  /\ eof_warned = FALSE

Alive(p) == proc[p] \in {"running", "stopped"}
Numbers == DOMAIN jobs
Members(j) == Range(jobs[j].pids)

\* The children forked so far; fork() numbers them in order, and no number is used again.
Started == {p \in Pids : proc[p] # "none"}
Forked == CHOOSE n \in 0 .. NPIDS : Started = 1 .. n

-----------------------------------------------------------------------------
\* The children and the kernel.

ChildExits(p) ==
  /\ Alive(p)
  /\ proc' = [proc EXCEPT ![p] = "exited"]
  /\ report' = [report EXCEPT ![p] = "exited"]
  /\ UNCHANGED <<pgrp, stops, out, pending, tableVars, pc, wait, before, timed_out, eof_warned>>

ChildStops(p) ==
  /\ proc[p] = "running" /\ stops[p] < MAX_STOPS
  /\ proc' = [proc EXCEPT ![p] = "stopped"]
  /\ report' = [report EXCEPT ![p] = "stopped"]
  /\ stops' = [stops EXCEPT ![p] = @ + 1]
  /\ UNCHANGED <<pgrp, out, pending, tableVars, pc, wait, before, timed_out, eof_warned>>

\* SIGCONT to the group g.
Continue(g) ==
  LET hit == {p \in Pids : pgrp[p] = g /\ proc[p] = "stopped"}
  IN /\ proc' = [p \in Pids |-> IF p \in hit THEN "running" ELSE proc[p]]
     /\ report' = [p \in Pids |-> IF p \in hit THEN "continued" ELSE report[p]]
     /\ UNCHANGED <<pgrp, stops>>

\* Faulty variant: sigsuspend() does not unblock SIGCHLD.
Unblocked_NotSuspended == pc \in {"top", "idle", "launch"}

\* SIGCHLD is blocked in jobs_process_pending() and in jobs_wait_foreground(), except
\* in its sigsuspend().
Unblocked == pc \in {"top", "idle", "launch", "suspended"}

\* The sequences that list every element of T once.
InSomeOrder(T) == UNION {Bijection(1 .. n, T) : n \in 0 .. NPIDS}

\* jobs_sigchld_handler(): every child that waitpid() reports, in some order.  In
\* getline() and in sigsuspend() the call it interrupts returns.
SigchldHandler ==
  /\ Unblocked
  /\ \E S \in InSomeOrder({p \in Pids : report[p] # "none"}) :
       /\ S # <<>>
       /\ LET new == [i \in DOMAIN S |-> [pid |-> S[i], status |-> report[S[i]]]]
              all == pending \o new
          IN pending' = SubSeq(all, 1, IF Len(all) < PENDING_MAX THEN Len(all)
                                       ELSE PENDING_MAX)
  /\ report' = [p \in Pids |-> "none"]
  /\ pc' = CASE pc = "idle" -> "eintr" [] pc = "suspended" -> "wait" [] OTHER -> pc
  /\ UNCHANGED <<proc, pgrp, stops, out, tableVars, wait, before, timed_out, eof_warned>>

\* alarm_handler(): SIGALRM is never blocked.
AlarmHandler ==
  /\ wait.alarm /\ ~timed_out
  /\ pc \in {"wait", "suspending", "suspended"}
  /\ timed_out' = TRUE
  /\ pc' = IF pc = "suspended" THEN "wait" ELSE pc
  /\ UNCHANGED <<osVars, out, pending, tableVars, wait, before, eof_warned>>

-----------------------------------------------------------------------------
\* outreg_finalize(), as a function of the registry: what the process has written so
\* far is copied, and the entry is given up.
outreg_finalize(o, p) ==
  IF o[p] = "used"
  THEN [o EXCEPT ![p] = IF proc[p] = "exited" THEN "whole" ELSE "early"]
  ELSE o

FinalizeAll(o, ps) == [p \in Pids |-> IF p \in Range(ps) THEN outreg_finalize(o, p)[p] ELSE o[p]]

Without(f, x) == [y \in DOMAIN f \ {x} |-> f[y]]

NewJob(pgid, pids, background, st) ==
  [pgid |-> pgid, pids |-> pids, done |-> {}, state |-> st, background |-> background]

\* jobs_register(): a full table takes no more jobs.
jobs_register(pgid, pids, background, st) ==
  IF Cardinality(Numbers) < JOBS_MAX
  THEN /\ jobs' = [n \in Numbers \cup {next_job_number} |->
                     IF n \in Numbers THEN jobs[n]
                     ELSE NewJob(pgid, pids, background, st)]
       /\ next_job_number' = next_job_number + 1
  ELSE UNCHANGED <<jobs, next_job_number>>

AllDone(job, done) == done = Range(job.pids)

\* handle_tracked_event() of a process p of job j that has exited.
ProcessDone(s, j, p) ==
  LET job  == s.jobs[j]
      done == job.done \cup {p}
  IN IF AllDone(job, done)
     THEN [s EXCEPT !.jobs = Without(@, j),
                    !.notif = IF job.background /\ Len(@) < NOTIF_MAX
                              THEN Append(@, j) ELSE @]
     ELSE [s EXCEPT !.jobs[j].done = done]

jobs_find_by_pid(s, p) == {j \in DOMAIN s.jobs : p \in Range(s.jobs[j].pids)}

\* Faulty variant: WIFCONTINUED leaves the state of the job alone.
JobEvent_NoCont(s, j, e) ==
  CASE e.status = "stopped"   -> [s EXCEPT !.jobs[j].state = "JOB_STOPPED"]
    [] e.status = "continued" -> s
    [] e.status = "exited"    -> ProcessDone(s, j, e.pid)

JobEvent(s, j, e) ==
  CASE e.status = "stopped"   -> [s EXCEPT !.jobs[j].state = "JOB_STOPPED"]
    [] e.status = "continued" -> [s EXCEPT !.jobs[j].state = "JOB_RUNNING"]
    [] e.status = "exited"    -> ProcessDone(s, j, e.pid)

\* handle_tracked_event(), as a function of the shell's state.  Whatever the event
\* is, the output of the process is finalized first.
handle_tracked_event(s, e) ==
  LET s1  == [s EXCEPT !.out = outreg_finalize(@, e.pid)]
      own == jobs_find_by_pid(s, e.pid)
  IN IF own = {} THEN s1 ELSE JobEvent(s1, CHOOSE j \in own : TRUE, e)

\* take_pending(): the queue without its first event.
take_pending == Tail(pending)

Shell == [out |-> out, jobs |-> jobs, notif |-> notif]
SetShell(s) == out' = s.out /\ jobs' = s.jobs /\ notif' = s.notif

-----------------------------------------------------------------------------
\* The main loop.

\* jobs_flush_notifications(), display_prompt(), and into getline().
Prompt ==
  /\ pc = "top"
  /\ printed' = printed \cup Range(notif)
  /\ notif' = <<>>
  /\ pc' = "idle"
  /\ UNCHANGED <<osVars, out, pending, jobs, next_job_number, wait, before, timed_out, eof_warned>>

\* getline() returned with EINTR: jobs_process_pending() empties the queue.
ProcessEvent ==
  /\ pc = "eintr" /\ pending # <<>>
  /\ SetShell(handle_tracked_event(Shell, Head(pending)))
  /\ pending' = take_pending
  /\ UNCHANGED <<osVars, next_job_number, printed, pc, wait, before, timed_out, eof_warned>>

ProcessingDone ==
  /\ pc = "eintr" /\ pending = <<>>
  /\ pc' = "top"
  /\ UNCHANGED <<osVars, out, pending, tableVars, wait, before, timed_out, eof_warned>>

\* A command line that starts no process and leaves the job table alone.
OtherCommand ==
  /\ pc = "idle"
  /\ pc' = "top" /\ eof_warned' = FALSE
  /\ UNCHANGED <<osVars, out, pending, tableVars, wait, before, timed_out>>

\* Ctrl-C or Ctrl-Z at the prompt: noop_handler(), and getline() returns with EINTR.
Interrupt ==
  /\ pc = "idle"
  /\ pc' = "eintr"
  /\ UNCHANGED <<osVars, out, pending, tableVars, wait, before, timed_out, eof_warned>>

\* End of file: a warning first if there are stopped jobs; then the shell ends, and
\* jobs_sighup_all() leaves it to every job to end.
EndOfFile ==
  /\ pc = "idle"
  /\ IF ~eof_warned /\ \E j \in Numbers : jobs[j].state = "JOB_STOPPED"
     THEN eof_warned' = TRUE /\ pc' = "top"
     ELSE eof_warned' = eof_warned /\ pc' = "over"
  /\ UNCHANGED <<osVars, out, pending, tableVars, wait, before, timed_out>>

\* launch_group(): the stages are started one by one, and SIGCHLD is not blocked.
Launch(ok, background, redirect) ==
  /\ pc = "idle"
  /\ Forked + Len(ok) <= NPIDS
  /\ wait' = [NoWait EXCEPT !.stages = ok, !.background = background,
                            !.redirect = redirect]
  /\ pc' = "launch" /\ eof_warned' = FALSE
  /\ UNCHANGED <<osVars, out, pending, tableVars, before, timed_out>>

\* The group g is there as long as one of its members has not been waited for.
GroupExists(g) == \E p \in Pids : /\ pgrp[p] = g
                                  /\ Alive(p) \/ report[p] = "exited"

\* setpgid(p, g), by the parent and by the child: 0 stands for p itself, and a
\* group that is gone cannot be joined.
setpgid(p, g) ==
  IF g \in {0, p} THEN p ELSE IF GroupExists(g) THEN g ELSE ShellGroup

\* The next stage cannot be started (no command, a redirection that fails, or a
\* command that is not found).
StageFails ==
  /\ pc = "launch" /\ wait.stages # <<>> /\ ~Head(wait.stages)
  /\ wait' = [wait EXCEPT !.stages = Tail(@), !.first = FALSE]
  /\ UNCHANGED <<osVars, out, pending, tableVars, pc, before, timed_out, eof_warned>>

\* fork() of the next stage; the first one names the group.  After a fork() that
\* failed the parent registers the -1 like any other pid: no event will ever name it,
\* and as a group it cannot be joined.
StageForks(born) ==
  LET p == Forked + 1
      g == IF wait.first THEN p ELSE wait.pgid
  IN /\ pc = "launch" /\ wait.stages # <<>> /\ Head(wait.stages)
     /\ proc' = [proc EXCEPT ![p] = born]
     /\ pgrp' = [pgrp EXCEPT ![p] = setpgid(p, g)]
     /\ out' = [out EXCEPT ![p] = IF wait.redirect THEN "used" ELSE "none"]
     /\ wait' = [wait EXCEPT !.stages = Tail(@), !.first = FALSE, !.pgid = g,
                             !.pids = Append(@, p)]
     /\ UNCHANGED <<report, stops, pending, tableVars, pc, before, timed_out, eof_warned>>

StageStarts == StageForks("running")
ForkFails   == StageForks("unborn")

\* All stages have been tried: nothing was started, or a background job is entered
\* into the table, or the foreground wait begins.
Launched ==
  /\ pc = "launch" /\ wait.stages = <<>>
  /\ \/ /\ wait.pids = <<>>
        /\ pc' = "top" /\ wait' = NoWait
        /\ UNCHANGED <<jobs, next_job_number>>
     \/ /\ wait.pids # <<>> /\ wait.background
        /\ jobs_register(wait.pgid, wait.pids, TRUE, "JOB_RUNNING")
        /\ pc' = "top" /\ wait' = NoWait
     \/ /\ wait.pids # <<>> /\ ~wait.background
        /\ pc' = "wait"
        /\ UNCHANGED <<wait, jobs, next_job_number>>
  /\ UNCHANGED <<osVars, out, pending, notif, printed, before, timed_out, eof_warned>>

\* run_ping() with SIGCONT: the table is left alone.
PingCont(j) ==
  /\ pc = "idle"
  /\ Continue(jobs[j].pgid)
  /\ pc' = "top" /\ eof_warned' = FALSE
  /\ UNCHANGED <<out, pending, tableVars, wait, before, timed_out>>

\* run_resume() of job j, in the background.
ResumeBg(j) ==
  /\ pc = "idle"
  /\ Continue(jobs[j].pgid)
  /\ jobs' = [jobs EXCEPT ![j].state = "JOB_RUNNING"]
  /\ pc' = "top" /\ eof_warned' = FALSE
  /\ UNCHANGED <<out, pending, next_job_number, notif, printed, wait, before, timed_out>>

\* run_resume() of job j, in the foreground: all the pids of the job are waited for.
ResumeFg(j, timeout) ==
  /\ pc = "idle"
  /\ Continue(jobs[j].pgid)
  /\ jobs' = [jobs EXCEPT ![j].state = "JOB_RUNNING"]
  /\ wait' = [NoWait EXCEPT !.pids = jobs[j].pids, !.pgid = jobs[j].pgid, !.job = j,
                            !.alarm = timeout]
  /\ before' = stops
  /\ timed_out' = FALSE
  /\ pc' = "wait" /\ eof_warned' = FALSE
  /\ UNCHANGED <<out, pending, next_job_number, notif, printed>>

-----------------------------------------------------------------------------
\* jobs_wait_foreground(), with SIGCHLD blocked.

WaitOver == wait.done = Range(wait.pids) \/ wait.stopped
Aborted  == wait.alarm /\ timed_out

\* An event of a process waited for that is not done yet.
OwnEvent(e) ==
  CASE e.status = "stopped" ->
         wait' = [wait EXCEPT !.stopped = TRUE] /\ UNCHANGED out
    [] e.status = "continued" ->
         UNCHANGED <<wait, out>>
    [] OTHER ->
         /\ wait' = [wait EXCEPT !.done = @ \cup {e.pid}]
         /\ out' = outreg_finalize(out, e.pid)

\* Faulty variant: events of other jobs are dropped.
OtherEvent_Dropped(e) == UNCHANGED <<out, jobs, notif, wait>>

\* An event of any other process.
OtherEvent(e) == SetShell(handle_tracked_event(Shell, e)) /\ UNCHANGED wait

\* One turn of the loop that finds an event in the queue.
WaitEvent ==
  /\ pc = "wait" /\ ~WaitOver /\ ~Aborted
  /\ pending # <<>>
  /\ pending' = take_pending
  /\ LET e == Head(pending)
     IN IF e.pid \in Range(wait.pids) \ wait.done
        THEN OwnEvent(e) /\ UNCHANGED <<jobs, notif>>
        ELSE OtherEvent(e)
  /\ UNCHANGED <<osVars, next_job_number, printed, pc, before, timed_out, eof_warned>>

\* One turn of the loop that finds none: on to sigsuspend().
WaitNone ==
  /\ pc = "wait" /\ ~WaitOver /\ ~Aborted
  /\ pending = <<>>
  /\ pc' = "suspending"
  /\ UNCHANGED <<osVars, out, pending, tableVars, wait, before, timed_out, eof_warned>>

\* sigsuspend() unblocks SIGCHLD and waits for a signal.
Suspend ==
  /\ pc = "suspending"
  /\ pc' = "suspended"
  /\ UNCHANGED <<osVars, out, pending, tableVars, wait, before, timed_out, eof_warned>>

\* What the caller does after the wait, jobs_flush_notifications() included.
AfterLaunch ==
  /\ wait.job = None
  /\ IF wait.stopped
     THEN jobs_register(wait.pgid, wait.pids, FALSE, "JOB_STOPPED") /\ UNCHANGED out
     ELSE out' = FinalizeAll(out, wait.pids) /\ UNCHANGED <<jobs, next_job_number>>
  /\ pc' = "top"

\* Faulty variant: after a timeout the outputs are copied as well, although the
\* processes may go on.
AfterResume_EarlyCopy ==
  LET late == Aborted /\ ~wait.stopped /\ wait.done # Range(wait.pids)
  IN /\ wait.job # None
     /\ jobs' = IF wait.stopped
                THEN IF wait.job \in Numbers
                     THEN [jobs EXCEPT ![wait.job].state = "JOB_STOPPED"] ELSE jobs
                ELSE Without(jobs, wait.job)
     /\ out' = IF wait.stopped THEN out ELSE FinalizeAll(out, wait.pids)
     /\ pc' = IF late /\ wait.pgid = ShellGroup THEN "over" ELSE "top"
     /\ UNCHANGED next_job_number

\* On a timeout SIGTERM goes to the group; group 0 is the shell's own, and the shell
\* does not survive it.  A child may or may not end.
AfterResume ==
  LET late == Aborted /\ ~wait.stopped /\ wait.done # Range(wait.pids)
  IN /\ wait.job # None
     /\ jobs' = IF wait.stopped
                THEN IF wait.job \in Numbers
                     THEN [jobs EXCEPT ![wait.job].state = "JOB_STOPPED"] ELSE jobs
                ELSE Without(jobs, wait.job)
     /\ out' = IF late \/ wait.stopped THEN out ELSE FinalizeAll(out, wait.pids)
     /\ pc' = IF late /\ wait.pgid = ShellGroup THEN "over" ELSE "top"
     /\ UNCHANGED next_job_number

WaitReturns ==
  /\ pc = "wait" /\ (WaitOver \/ Aborted)
  /\ AfterLaunch \/ AfterResume
  /\ printed' = printed \cup Range(notif) /\ notif' = <<>>
  /\ wait' = NoWait
  /\ before' = [p \in Pids |-> 0]
  /\ timed_out' = FALSE
  /\ UNCHANGED <<osVars, pending, eof_warned>>

-----------------------------------------------------------------------------
Child == \E p \in Pids : ChildExits(p) \/ ChildStops(p)

Command ==
  \/ OtherCommand \/ EndOfFile
  \/ \E ok \in Pipelines, background \in BOOLEAN, redirect \in Redirects :
       Launch(ok, background, redirect)
  \/ \E j \in Numbers : \/ PingCont(j) \/ ResumeBg(j)
                        \/ \E timeout \in Timeouts : ResumeFg(j, timeout)

ShellStep ==
  \/ Prompt \/ ProcessEvent \/ ProcessingDone
  \/ StageFails \/ StageStarts \/ ForkFails \/ Launched
  \/ WaitEvent \/ WaitNone \/ Suspend \/ WaitReturns

Next == Child \/ Interrupt \/ Command \/ ShellStep \/ SigchldHandler \/ AlarmHandler

Spec == Init /\ [][Next]_vars

\* The shell runs, its signals are delivered and its alarm goes off.  Nothing is
\* assumed of the children and of the user.
FairSpec == Spec /\ WF_vars(ShellStep) /\ WF_vars(SigchldHandler) /\ WF_vars(AlarmHandler)

-----------------------------------------------------------------------------
Waiting == pc \in {"wait", "suspending", "suspended"}

\* Types of the state, and the bounds of the three tables.
TypeOK ==
  /\ proc \in [Pids -> {"none", "unborn", "running", "stopped", "exited"}]
  /\ pgrp \in [Pids -> 0 .. NPIDS]
  /\ report \in [Pids -> Events \cup {"none"}]
  /\ stops \in [Pids -> 0 .. MAX_STOPS] /\ before \in [Pids -> 0 .. MAX_STOPS]
  /\ out \in [Pids -> {"none", "used", "early", "whole"}]
  /\ Len(pending) <= PENDING_MAX
  /\ \A i \in DOMAIN pending : pending[i] \in [pid : Pids, status : Events]
  /\ Numbers \subseteq 1 .. next_job_number - 1 /\ Cardinality(Numbers) <= JOBS_MAX
  /\ \A j \in Numbers : /\ jobs[j].state \in {"JOB_RUNNING", "JOB_STOPPED"}
                        /\ jobs[j].done \subseteq Members(j) /\ Members(j) \subseteq Pids
                        /\ jobs[j].pgid \in 0 .. NPIDS /\ jobs[j].background \in BOOLEAN
  /\ Len(notif) <= NOTIF_MAX
  /\ pc \in {"top", "idle", "eintr", "launch", "wait", "suspending", "suspended", "over"}
  /\ wait.done \subseteq Range(wait.pids) /\ wait.job \in Numbers \cup {None}
  /\ timed_out \in BOOLEAN /\ eof_warned \in BOOLEAN

\* Whatever the order in which the handler collects events and the shell applies
\* them, an exit is collected once, is the last event of its process, and has not
\* been applied to the job table or to the foreground wait before.
ExitIsLast ==
  \A i \in DOMAIN pending :
    LET p == pending[i].pid
    IN pending[i].status = "exited" =>
         /\ proc[p] = "exited" /\ report[p] = "none"
         /\ \A k \in DOMAIN pending : k > i => pending[k].pid # p
         /\ p \notin wait.done
         /\ \A j \in Numbers : p \notin jobs[j].done

\* handle_tracked_event() and jobs_wait_foreground() take a process for done only
\* when it has exited.
DoneHasExited ==
  /\ \A p \in wait.done : proc[p] = "exited"
  /\ \A j \in Numbers : \A p \in jobs[j].done : proc[p] = "exited"

\* A job leaves the table only when each of its processes has exited, or when the
\* `resume' that waits for it has timed out.
RemovedWhenExited ==
  [][\A j \in Numbers \ DOMAIN jobs' :
       \/ \A p \in Members(j) : proc[p] = "exited"
       \/ wait.job = j /\ timed_out]_vars

\* Of a job of one process that has exited and is still in the table, the exit is on
\* its way: in the kernel, in the queue, or counted by the foreground wait.
ExitNotLost ==
  \A j \in Numbers : \A p \in Members(j) :
    Members(j) = {p} /\ proc[p] = "exited" =>
      \/ report[p] = "exited"
      \/ \E i \in DOMAIN pending : pending[i] = [pid |-> p, status |-> "exited"]
      \/ wait.job = j /\ p \in wait.done

\* When all events have been applied, a job of one process that is in the table has not
\* exited, and the state `activities' shows for it is the state of the process.  The
\* state needs the process to be in the group that the table has: after a first stage
\* that is not found it is not, and `resume' writes "running" without reaching it.
ActivitiesUpToDate ==
  pc = "idle" /\ pending = <<>> /\ (\A p \in Pids : report[p] = "none")
    => \A j \in Numbers : \A p \in Members(j) :
         Members(j) = {p} =>
           /\ proc[p] # "exited"
           /\ pgrp[p] = jobs[j].pgid => (jobs[j].state = "JOB_STOPPED" <=> proc[p] = "stopped")

\* jobs_wait_foreground() reports a stop only if a process of the job has stopped
\* since the wait began.
StopIsNew ==
  wait.stopped => \E p \in Range(wait.pids) : stops[p] > before[p]

\* outreg_finalize() is called for a process that has exited: what it copies is the
\* whole output of the process.
FinalizedHasExited == \A p \in Pids : out[p] # "early"

\* Once the exit of a redirected process has been applied, by the foreground wait, by
\* the job table or by neither, its output has been copied: all of it, unless the
\* process has been stopped.  Of one that has been stopped, what it wrote after
\* handle_tracked_event() applied the stop or the continuation may be missing.
OutputDelivered ==
  \A p \in Pids :
    proc[p] = "exited" /\ report[p] = "none" /\ (\A i \in DOMAIN pending : pending[i].pid # p)
      => \/ out[p] \in {"none", "whole"}
         \/ out[p] = "early" /\ stops[p] > 0

\* A foreground wait ends once no process that it waits for is running.
WaitEnds ==
  (Waiting /\ \A p \in Range(wait.pids) : proc[p] # "running") ~> ~Waiting

\* A foreground wait for one process ends once the process has stopped or exited.  In
\* `resume fg' the process must be in the group that the table has for its job: where
\* it is not, SIGCONT does not reach it, and a stop applied before is not told again.
SingleWaitEnds ==
  (/\ Waiting /\ Len(wait.pids) = 1
   /\ proc[wait.pids[1]] \in {"stopped", "exited"}
   /\ wait.job # None => pgrp[wait.pids[1]] = wait.pgid) ~> ~Waiting

=============================================================================
