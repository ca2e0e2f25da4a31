-------------------------------- MODULE Proc --------------------------------
(***************************************************************************)
(* The life of processes in the xv6 kernel (kernel/proc.c): kfork(),       *)
(* kexit(), kwait(), kkill(), and the sleep_prepare() / sleep() / wakeup() *)
(* protocol that kwait() and kexit() use.                                  *)
(*                                                                         *)
(* What a process does under one p->lock is one step.  wait_lock is held   *)
(* across steps and is a variable.  Which process has a CPU is Mlfq's      *)
(* subject: here RUNNABLE also stands for RUNNING, and every RUNNABLE      *)
(* process may take the next step.  The channel of kwait() is the caller's *)
(* own struct proc, so a channel is a slot.                                *)
(***************************************************************************)
EXTENDS Integers

CONSTANTS
  NPROC,     (* slots of the process table; init has slot 1                 *)
  MAX_PID,   (* bound: no fork once nextpid has passed it                   *)
  KillArgs,  (* the pids that processes pass to kill()                      *)
  Status     (* the statuses that processes pass to exit()                  *)

Procs == 1 .. NPROC
initproc == 1
None == 0    \* no process, no pid, no channel

ASSUME ProcAssumption ==
  /\ NPROC \in Nat \ {0}
  /\ MAX_PID \in Nat
  /\ KillArgs \subseteq Nat
  /\ Status \subseteq Int

States == {"UNUSED", "USED", "SLEEPING", "RUNNABLE", "ZOMBIE"}

\* Where a process is.  none: no process; user: in user space, or anywhere in the
\* kernel that does not matter here; then the steps of kfork(), kexit(), kwait().
Pcs == {"none", "user", "forkparent", "forkready", "exit", "reparent", "wakeparent",
        "zombie", "wait", "scan", "prepare", "sleep"}

VARIABLES
  state, killed, chan, parent, pid, xstate,   \* struct proc
  nextpid,
  wait_lock,   \* the process that holds it, or None
  pc,
  np,          \* local of kfork(): the slot it has allocated
  pp,          \* local of reparent(): the slot its loop has reached
  status,      \* argument of kexit()
  victims      \* history: the pids that kill() was called with

table == <<state, killed, chan, parent, pid, xstate, nextpid>>
locals == <<np, pp, status>>
vars == <<table, wait_lock, pc, locals, victims>>

Init ==
  /\ state = [p \in Procs |-> IF p = initproc THEN "RUNNABLE" ELSE "UNUSED"]
  /\ killed = [p \in Procs |-> FALSE]
  /\ chan = [p \in Procs |-> None]
  /\ parent = [p \in Procs |-> None]
  /\ pid = [p \in Procs |-> IF p = initproc THEN 1 ELSE None]
  /\ xstate = [p \in Procs |-> 0]
  /\ nextpid = 2
  /\ wait_lock = None
  /\ pc = [p \in Procs |-> IF p = initproc THEN "user" ELSE "none"]
  /\ np = [p \in Procs |-> None]
  /\ pp = [p \in Procs |-> 1]
  /\ status = [p \in Procs |-> 0]
  /\ victims = {}

-----------------------------------------------------------------------------
At(p, where) == state[p] = "RUNNABLE" /\ pc[p] = where
Goto(p, where) == pc' = [pc EXCEPT ![p] = where]

acquire_wait_lock(p) == wait_lock = None /\ wait_lock' = p
release_wait_lock == wait_lock' = None

\* Faulty variant: a process that has not gone to sleep yet is not told.
wakeup_OnlySleeping(ch) ==
  LET hit == {q \in Procs : chan[q] = ch /\ state[q] = "SLEEPING"}
  IN /\ chan' = [q \in Procs |-> IF q \in hit THEN None ELSE chan[q]]
     /\ state' = [q \in Procs |-> IF q \in hit THEN "RUNNABLE" ELSE state[q]]

\* wakeup(ch).  Only the process ch itself ever waits on ch, so the loop over the
\* table changes one process and is one step.
wakeup(ch) ==
  LET hit == {q \in Procs : chan[q] = ch}
  IN /\ chan' = [q \in Procs |-> IF q \in hit THEN None ELSE chan[q]]
     /\ state' = [q \in Procs |-> IF q \in hit /\ state[q] = "SLEEPING" THEN "RUNNABLE"
                                  ELSE state[q]]

\* A process enters the kernel only if it has not been killed; if it has, the next
\* trap takes it to kexit(-1).
InUser(p) == At(p, "user") /\ ~killed[p]

-----------------------------------------------------------------------------
\* kfork(): allocproc() takes an UNUSED slot.  It does not touch p->killed.
ForkAlloc(p, q) ==
  /\ InUser(p)
  /\ nextpid <= MAX_PID
  /\ state[q] = "UNUSED"
  /\ state' = [state EXCEPT ![q] = "USED"]
  /\ pid' = [pid EXCEPT ![q] = nextpid]
  /\ nextpid' = nextpid + 1
  /\ np' = [np EXCEPT ![p] = q]
  /\ Goto(p, "forkparent")
  /\ UNCHANGED <<killed, chan, parent, xstate, wait_lock, pp, status, victims>>

\* Out of memory: freeproc() before p->lock is released.
ForkFails(p, q) ==
  /\ InUser(p)
  /\ nextpid <= MAX_PID
  /\ state[q] = "UNUSED"
  /\ nextpid' = nextpid + 1
  /\ killed' = [killed EXCEPT ![q] = FALSE]
  /\ UNCHANGED <<state, chan, parent, pid, xstate, wait_lock, pc, locals, victims>>

ForkParent(p) ==
  /\ At(p, "forkparent")
  /\ wait_lock = None
  /\ parent' = [parent EXCEPT ![np[p]] = p]
  /\ Goto(p, "forkready")
  /\ UNCHANGED <<state, killed, chan, pid, xstate, nextpid, wait_lock, locals, victims>>

ForkReady(p) ==
  /\ At(p, "forkready")
  /\ state' = [state EXCEPT ![np[p]] = "RUNNABLE"]
  /\ pc' = [pc EXCEPT ![p] = "user", ![np[p]] = "user"]
  /\ np' = [np EXCEPT ![p] = None]
  /\ UNCHANGED <<killed, chan, parent, pid, xstate, nextpid, wait_lock, pp, status, victims>>

-----------------------------------------------------------------------------
\* kexit(s): called by the process, or by usertrap() once the process is killed.
ExitCall(p, s) ==
  /\ At(p, "user") /\ p # initproc
  /\ killed[p] => s = -1
  /\ status' = [status EXCEPT ![p] = s]
  /\ Goto(p, "exit")
  /\ UNCHANGED <<table, wait_lock, np, pp, victims>>

ExitLock(p) ==
  /\ At(p, "exit")
  /\ acquire_wait_lock(p)
  /\ Goto(p, "reparent")
  /\ UNCHANGED <<table, locals, victims>>

\* Faulty variant of the loop's end: one slot too few.
LastSlot_Early(i) == i = NPROC - 1

LastSlot(i) == i = NPROC

\* One iteration of reparent().
ReparentStep(p) ==
  /\ At(p, "reparent")
  /\ IF parent[pp[p]] = p
     THEN parent' = [parent EXCEPT ![pp[p]] = initproc] /\ wakeup(initproc)
     ELSE UNCHANGED <<parent, chan, state>>
  /\ pp' = [pp EXCEPT ![p] = IF LastSlot(@) THEN 1 ELSE @ + 1]
  /\ Goto(p, IF LastSlot(pp[p]) THEN "wakeparent" ELSE "reparent")
  /\ UNCHANGED <<killed, pid, xstate, nextpid, wait_lock, np, status, victims>>

WakeParent(p) ==
  /\ At(p, "wakeparent")
  /\ wakeup(parent[p])
  /\ Goto(p, "zombie")
  /\ UNCHANGED <<killed, parent, pid, xstate, nextpid, wait_lock, locals, victims>>

BecomeZombie(p) ==
  /\ At(p, "zombie")
  /\ state' = [state EXCEPT ![p] = "ZOMBIE"]
  /\ xstate' = [xstate EXCEPT ![p] = status[p]]
  /\ Goto(p, "none")
  /\ release_wait_lock
  /\ UNCHANGED <<killed, chan, parent, pid, nextpid, locals, victims>>

-----------------------------------------------------------------------------
WaitCall(p) ==
  /\ InUser(p)
  /\ Goto(p, "wait")
  /\ UNCHANGED <<table, wait_lock, locals, victims>>

WaitLock(p) ==
  /\ At(p, "wait")
  /\ acquire_wait_lock(p)
  /\ Goto(p, "scan")
  /\ UNCHANGED <<table, locals, victims>>

\* Faulty variant: the last slot is left out of the scan.
Children_Short(p) == {q \in 1 .. NPROC - 1 : parent[q] = p}

Children(p) == {q \in Procs : parent[q] = p}
Zombies(p) == {q \in Children(p) : state[q] = "ZOMBIE"}

freeproc(q) ==
  /\ pid' = [pid EXCEPT ![q] = None]
  /\ chan' = [chan EXCEPT ![q] = None]
  /\ killed' = [killed EXCEPT ![q] = FALSE]
  /\ xstate' = [xstate EXCEPT ![q] = 0]
  /\ state' = [state EXCEPT ![q] = "UNUSED"]

\* The scan meets this zombie first in its table order: its status is copied out and
\* the slot is freed.
Reap(p, q) ==
  /\ At(p, "scan")
  /\ q \in Zombies(p) /\ \A r \in Zombies(p) : q <= r
  /\ parent' = [parent EXCEPT ![q] = None]
  /\ freeproc(q)
  /\ release_wait_lock
  /\ Goto(p, "user")
  /\ UNCHANGED <<nextpid, locals, victims>>

\* -1: no children, killed, or a zombie whose status cannot be copied out; init
\* passes no address.
WaitFails(p) ==
  /\ At(p, "scan")
  /\ Children(p) = {} \/ killed[p] \/ (Zombies(p) # {} /\ p # initproc)
  /\ release_wait_lock
  /\ Goto(p, "user")
  /\ UNCHANGED <<table, locals, victims>>

NoZombie(p) ==
  /\ At(p, "scan")
  /\ Children(p) # {} /\ Zombies(p) = {} /\ ~killed[p]
  /\ Goto(p, "prepare")
  /\ UNCHANGED <<table, wait_lock, locals, victims>>

\* sleep_prepare(p), then wait_lock is released.
Prepare(p) ==
  /\ At(p, "prepare")
  /\ chan' = [chan EXCEPT ![p] = p]
  /\ release_wait_lock
  /\ Goto(p, "sleep")
  /\ UNCHANGED <<state, killed, parent, pid, xstate, nextpid, locals, victims>>

\* sleep(): unless the wakeup has already come.  It returns to the head of kwait()'s
\* loop.
Sleep(p) ==
  /\ At(p, "sleep")
  /\ state' = [state EXCEPT ![p] = IF chan[p] # None THEN "SLEEPING" ELSE @]
  /\ Goto(p, "wait")
  /\ UNCHANGED <<killed, chan, parent, pid, xstate, nextpid, wait_lock, locals, victims>>

-----------------------------------------------------------------------------
\* kkill(a): some slot with this pid, if there is one.
Kill(p, q) ==
  /\ InUser(p)
  /\ pid[q] \in KillArgs
  /\ killed' = [killed EXCEPT ![q] = TRUE]
  /\ state' = [state EXCEPT ![q] = IF @ = "SLEEPING" THEN "RUNNABLE" ELSE @]
  /\ victims' = victims \cup {pid[q]}
  /\ UNCHANGED <<chan, parent, pid, xstate, nextpid, wait_lock, pc, locals>>

Kernel(p) ==
  \/ ForkParent(p) \/ ForkReady(p)
  \/ ExitLock(p) \/ ReparentStep(p) \/ WakeParent(p) \/ BecomeZombie(p)
  \/ WaitLock(p) \/ (\E q \in Procs : Reap(p, q)) \/ WaitFails(p) \/ NoZombie(p)
  \/ Prepare(p) \/ Sleep(p)

User(p) ==
  \/ WaitCall(p)
  \/ \E s \in Status \cup {-1} : ExitCall(p, s)
  \/ \E q \in Procs : ForkAlloc(p, q) \/ ForkFails(p, q) \/ Kill(p, q)

Next == \E p \in Procs : Kernel(p) \/ User(p)

Spec == Init /\ [][Next]_vars

\* Every runnable process gets on with its system call, and gets wait_lock if it
\* keeps trying; a killed process traps; init waits again and again.
Fairness ==
  /\ \A p \in Procs :
       /\ WF_vars(Kernel(p))
       /\ SF_vars(ForkParent(p)) /\ SF_vars(ExitLock(p)) /\ SF_vars(WaitLock(p))
       /\ WF_vars(killed[p] /\ ExitCall(p, -1))
  /\ WF_vars(WaitCall(initproc))

FairSpec == Spec /\ Fairness

-----------------------------------------------------------------------------
TypeOK ==
  /\ state \in [Procs -> States]
  /\ killed \in [Procs -> BOOLEAN]
  /\ chan \in [Procs -> Procs \cup {None}]
  /\ parent \in [Procs -> Procs \cup {None}]
  /\ pid \in [Procs -> Nat]
  /\ xstate \in [Procs -> Int]
  /\ nextpid \in Nat
  /\ wait_lock \in Procs \cup {None}
  /\ pc \in [Procs -> Pcs]
  /\ np \in [Procs -> Procs \cup {None}]
  /\ pp \in [Procs -> Procs]
  /\ status \in [Procs -> Int]
  /\ victims \subseteq Nat

\* The wakeup of kwait() is never lost: a process that sleeps in kwait(), or is on
\* its way into sleep() with its channel still set, has no zombie to collect.  A
\* child that exits, and a parent that hands its zombies to init, wake the waiter
\* in time, although sleep_prepare() and sleep() are apart.
WaitNotLost ==
  \A p \in Procs :
    chan[p] = p /\ (state[p] = "SLEEPING" \/ pc[p] = "sleep") => Zombies(p) = {}

\* Every process but init has a parent that can still wait for it: no exit and no
\* fork, in any order, leaves a process or a zombie behind with a dead parent.
ParentAlive ==
  \A q \in Procs \ {initproc} :
    state[q] \in {"SLEEPING", "RUNNABLE", "ZOMBIE"} =>
      parent[q] # None /\ state[parent[q]] \in {"SLEEPING", "RUNNABLE"}

\* A process is marked killed only if kill() was called with its pid.
KilledOnPurpose ==
  \A p \in Procs : state[p] # "UNUSED" /\ killed[p] => pid[p] \in victims

\* An orphan that has exited is collected by init.
OrphansReaped ==
  \A q \in Procs : state[q] = "ZOMBIE" /\ parent[q] = initproc ~> state[q] = "UNUSED"

\* kkill(): the victim is woken from its sleep and exits.
VictimExits ==
  \A p \in Procs \ {initproc} :
    killed[p] /\ state[p] \in {"SLEEPING", "RUNNABLE"} ~> state[p] \in {"ZOMBIE", "UNUSED"}

=============================================================================
