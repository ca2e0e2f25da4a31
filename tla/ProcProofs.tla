----------------------------- MODULE ProcProofs -----------------------------
(***************************************************************************)
(* Theorems about Proc, for every size of the process table: kwait() loses *)
(* no wakeup, and no process is left with a dead parent.                   *)
(***************************************************************************)
EXTENDS Proc, TLAPS

-----------------------------------------------------------------------------
(* The inductive invariant.                                                *)

Live(p) == state[p] \in {"SLEEPING", "RUNNABLE"}

Holding == {"reparent", "wakeparent", "zombie", "scan", "prepare"}

\* Who is where: the live processes have a place, sleepers sleep in kwait(), the
\* holder of wait_lock is known by its place, a process waits only on its own
\* channel, and init does not exit.
Places ==
  /\ \A p \in Procs : pc[p] # "none" <=> Live(p)
  /\ \A p \in Procs : state[p] = "SLEEPING" => pc[p] = "wait"
  /\ \A p \in Procs : wait_lock = p <=> pc[p] \in Holding
  /\ \A p \in Procs : chan[p] \in {None, p}
  /\ Live(initproc) /\ pc[initproc] \notin {"exit", "reparent", "wakeparent", "zombie"}

\* The slots that kfork() has taken.
Forking ==
  /\ \A p \in Procs : pc[p] \in {"forkparent", "forkready"} =>
       np[p] \in Procs /\ state[np[p]] = "USED"
  /\ \A p \in Procs : pc[p] = "forkready" => parent[np[p]] = p
  /\ \A p, q \in Procs : p # q /\ pc[p] \in {"forkparent", "forkready"}
       /\ pc[q] \in {"forkparent", "forkready"} => np[p] # np[q]

\* How far kexit() has come: the children that reparent() has passed are init's.
Exiting ==
  \A p \in Procs :
    /\ pc[p] # "reparent" => pp[p] = 1
    /\ pc[p] = "reparent" => \A q \in Procs : q < pp[p] => parent[q] # p
    /\ pc[p] \in {"wakeparent", "zombie"} => \A q \in Procs : parent[q] # p

\* A process about to be a zombie has woken its parent; one about to call
\* sleep_prepare() has no zombies.
Waiting ==
  \A p \in Procs :
    /\ pc[p] = "zombie" => chan[parent[p]] = None
    /\ pc[p] = "prepare" => Zombies(p) = {}

-----------------------------------------------------------------------------
(* Types.                                                                  *)

\* The initial state has the types and satisfies the invariant.
LEMMA InitInv == Init => TypeOK /\ Places /\ Forking /\ Exiting /\ Waiting
BY ProcAssumption
DEF Init, TypeOK, Places, Forking, Exiting, Waiting, Live, Holding, Zombies, Children,
    Procs, States, Pcs, None, initproc

\* Every step keeps the types.
LEMMA NextType ==
  ASSUME TypeOK, Places, Forking, [Next]_vars
  PROVE  TypeOK'
<1> USE ProcAssumption DEF TypeOK, States, Pcs, Goto, At, locals, table, acquire_wait_lock,
        release_wait_lock
<1>0. initproc \in Procs /\ -1 \in Int
  BY DEF initproc, Procs
<1>1. ASSUME NEW p \in Procs, Kernel(p)
      PROVE  TypeOK'
  <2>1. CASE ForkParent(p)
    BY ZenonT(30), <2>1 DEF ForkParent
  <2>2. CASE ForkReady(p)
    BY ZenonT(30), <2>2 DEF ForkReady, None
  <2>3. CASE ExitLock(p)
    BY ZenonT(30), <2>3 DEF ExitLock
  <2>4. CASE ReparentStep(p)
    <3>1. \A i \in Procs : (IF i = NPROC THEN 1 ELSE i + 1) \in Procs
      BY DEF Procs
    <3>2. pp' \in [Procs -> Procs]
      BY ZenonT(30), <2>4, <3>1 DEF ReparentStep, LastSlot
    <3> QED
      BY <1>0, <2>4, <3>2 DEF ReparentStep, LastSlot, wakeup
  <2>5. CASE WakeParent(p)
    BY ZenonT(30), <2>5 DEF WakeParent, wakeup
  <2>6. CASE BecomeZombie(p)
    BY ZenonT(30), <2>6 DEF BecomeZombie
  <2>7. CASE WaitLock(p)
    BY ZenonT(30), <2>7 DEF WaitLock
  <2>8. ASSUME NEW q \in Procs, Reap(p, q)
        PROVE  TypeOK'
    BY <2>8 DEF Reap, freeproc, None
  <2>9. CASE WaitFails(p)
    BY ZenonT(30), <2>9 DEF WaitFails
  <2>10. CASE NoZombie(p)
    BY ZenonT(30), <2>10 DEF NoZombie
  <2>11. CASE Prepare(p)
    BY ZenonT(30), <2>11 DEF Prepare
  <2>12. CASE Sleep(p)
    BY ZenonT(30), <2>12 DEF Sleep
  <2> QED
    BY ZenonT(30), <1>1, <2>1, <2>2, <2>3, <2>4, <2>5, <2>6, <2>7, <2>8, <2>9, <2>10, <2>11, <2>12
    DEF Kernel
<1>2. ASSUME NEW p \in Procs, User(p)
      PROVE  TypeOK'
  <2>1. CASE WaitCall(p)
    BY ZenonT(30), <2>1 DEF WaitCall, InUser
  <2>2. ASSUME NEW s \in Status \cup {-1}, ExitCall(p, s)
        PROVE  TypeOK'
    BY ZenonT(30), <1>0, <2>2 DEF ExitCall
  <2>3. ASSUME NEW q \in Procs, ForkAlloc(p, q)
        PROVE  TypeOK'
    BY <2>3 DEF ForkAlloc, InUser
  <2>4. ASSUME NEW q \in Procs, ForkFails(p, q)
        PROVE  TypeOK'
    BY <2>4 DEF ForkFails, InUser
  <2>5. ASSUME NEW q \in Procs, Kill(p, q)
        PROVE  TypeOK'
    BY ZenonT(30), <2>5 DEF Kill, InUser
  <2> QED
    BY ZenonT(30), <1>2, <2>1, <2>2, <2>3, <2>4, <2>5 DEF User
<1>3. CASE UNCHANGED vars
  BY ZenonT(30), <1>3 DEF vars
<1> QED
  BY ZenonT(30), <1>1, <1>2, <1>3 DEF Next

-----------------------------------------------------------------------------
(* Each part of the invariant is inductive, given the others.              *)

\* wakeup() makes sleepers runnable and clears their channel, and does no more.
LEMMA WakeupEffect ==
  ASSUME TypeOK, NEW ch \in Procs \cup {None}, wakeup(ch), NEW q \in Procs
  PROVE  /\ Live(q)' <=> Live(q)
         /\ ~Live(q) => state'[q] = state[q]
         /\ state'[q] = "SLEEPING" => state[q] = "SLEEPING" /\ chan[q] # ch
         /\ chan'[q] = IF chan[q] = ch THEN None ELSE chan[q]
BY ZenonT(30) DEF TypeOK, States, wakeup, Live

\* What one iteration of reparent() does: nobody falls asleep, nobody dies, and the
\* child it meets is init's, which has been told.
LEMMA ReparentEffect ==
  ASSUME TypeOK, Places, NEW p \in Procs, ReparentStep(p)
  PROVE  /\ \A q \in Procs :
              /\ Live(q)' <=> Live(q)
              /\ ~Live(q) => state'[q] = state[q]
              /\ state'[q] = "SLEEPING" => state[q] = "SLEEPING"
              /\ chan'[q] \in {chan[q], None}
              /\ parent'[q] = IF q = pp[p] /\ parent[q] = p THEN initproc ELSE parent[q]
         /\ parent' # parent => chan'[initproc] = None
<1>0. initproc \in Procs /\ initproc \in Procs \cup {None}
  BY ProcAssumption DEF initproc, Procs
<1>1. parent \in [Procs -> Procs \cup {None}] /\ chan[initproc] \in {None, initproc}
  BY ZenonT(30), <1>0 DEF TypeOK, Places
<1>2. CASE parent[pp[p]] = p
  <2>1. wakeup(initproc) /\ parent' = [parent EXCEPT ![pp[p]] = initproc]
    BY ZenonT(30), <1>2 DEF ReparentStep, LastSlot
  <2> QED
    BY ZenonT(30), <1>0, <1>1, <1>2, <2>1, WakeupEffect
<1>3. CASE parent[pp[p]] # p
  <2>1. UNCHANGED <<parent, chan, state>>
    BY ZenonT(30), <1>3 DEF ReparentStep, LastSlot
  <2> QED
    BY ZenonT(30), <1>3, <2>1 DEF Live
<1> QED
  BY ZenonT(30), <1>2, <1>3

\* What the wakeup of the parent does: nobody falls asleep, nobody dies, and the
\* parent has been told.
LEMMA WakeParentEffect ==
  ASSUME TypeOK, Places, NEW p \in Procs, WakeParent(p)
  PROVE  \A q \in Procs :
           /\ Live(q)' <=> Live(q)
           /\ ~Live(q) => state'[q] = state[q]
           /\ state'[q] = "SLEEPING" => state[q] = "SLEEPING"
           /\ chan'[q] \in {chan[q], None}
           /\ q = parent[p] => chan'[q] = None
<1>1. PICK ch \in Procs \cup {None} : ch = parent[p]
  BY ZenonT(30) DEF TypeOK
<1>2. wakeup(ch)
  BY ZenonT(30), <1>1 DEF WakeParent, wakeup
<1>3. \A q \in Procs : chan[q] \in {None, q}
  BY ZenonT(30) DEF Places
<1> QED
  BY ZenonT(30), <1>1, <1>2, <1>3, WakeupEffect

\* Every step keeps the processes in their places.
LEMMA NextPlaces ==
  ASSUME TypeOK, Places, Forking, [Next]_vars
  PROVE  Places'
<1>0. initproc \in Procs /\ None \notin Procs
  BY ProcAssumption DEF initproc, Procs, None
<1> USE <1>0 DEF TypeOK, Places, Live, Holding, At, Goto, table, locals, acquire_wait_lock,
        release_wait_lock, initproc, None, Procs
<1>1. ASSUME NEW p \in Procs, Kernel(p)
      PROVE  Places'
  <2>1. CASE ForkParent(p)
    BY ZenonT(30), <2>1 DEF ForkParent
  <2>2. CASE ForkReady(p)
    <3>1. /\ np[p] \in Procs /\ np[p] # p /\ np[p] # initproc
          /\ pc[np[p]] = "none"
      BY ZenonT(30), <2>2 DEF ForkReady, Forking
    <3> QED
      <4>1. /\ \A r \in Procs : pc'[r] = IF r \in {p, np[p]} THEN "user" ELSE pc[r]
            /\ \A r \in Procs : state'[r] = IF r = np[p] THEN "RUNNABLE" ELSE state[r]
            /\ UNCHANGED <<wait_lock, chan>> /\ pc[p] = "forkready" /\ state[p] = "RUNNABLE"
        BY ZenonT(30), <2>2, <3>1 DEF ForkReady
      <4> HIDE DEF TypeOK
      <4> QED
        BY <3>1, <4>1
  <2>3. CASE ExitLock(p)
    BY ZenonT(30), <2>3 DEF ExitLock
  <2>4. CASE ReparentStep(p)
    <3>1. /\ \A r \in Procs : pc'[r] = pc[r] \/ (r = p /\ pc'[r] \in {"reparent", "wakeparent"})
          /\ UNCHANGED wait_lock /\ pc[p] = "reparent" /\ state[p] = "RUNNABLE"
      BY ZenonT(30), <2>4 DEF ReparentStep, LastSlot
    <3> HIDE DEF TypeOK, Procs
    <3> QED
      BY <2>4, <3>1, ReparentEffect
  <2>5. CASE WakeParent(p)
    <3>1. /\ \A r \in Procs : pc'[r] = IF r = p THEN "zombie" ELSE pc[r]
          /\ UNCHANGED wait_lock /\ pc[p] = "wakeparent" /\ state[p] = "RUNNABLE"
      BY ZenonT(30), <2>5 DEF WakeParent
    <3> HIDE DEF TypeOK, Procs
    <3> QED
      BY <2>5, <3>1, WakeParentEffect
  <2>6. CASE BecomeZombie(p)
    BY <2>6 DEF BecomeZombie
  <2>7. CASE WaitLock(p)
    BY ZenonT(30), <2>7 DEF WaitLock
  <2>8. ASSUME NEW q \in Procs, Reap(p, q)
        PROVE  Places'
    BY <2>8 DEF Reap, freeproc, Zombies, Children
  <2>9. CASE WaitFails(p)
    BY ZenonT(30), <2>9 DEF WaitFails
  <2>10. CASE NoZombie(p)
    BY ZenonT(30), <2>10 DEF NoZombie
  <2>11. CASE Prepare(p)
    BY ZenonT(60), <2>11 DEF Prepare
  <2>12. CASE Sleep(p)
    BY ZenonT(30), <2>12 DEF Sleep
  <2> QED
    BY ZenonT(30), <1>1, <2>1, <2>2, <2>3, <2>4, <2>5, <2>6, <2>7, <2>8, <2>9, <2>10, <2>11, <2>12 DEF Kernel
<1>2. ASSUME NEW p \in Procs, User(p)
      PROVE  Places'
  <2>1. CASE WaitCall(p)
    BY ZenonT(30), <2>1 DEF WaitCall, InUser
  <2>2. ASSUME NEW s \in Status \cup {-1}, ExitCall(p, s)
        PROVE  Places'
    BY ZenonT(30), <2>2 DEF ExitCall
  <2>3. ASSUME NEW q \in Procs, ForkAlloc(p, q)
        PROVE  Places'
    BY ZenonT(30), <2>3 DEF ForkAlloc, InUser
  <2>4. ASSUME NEW q \in Procs, ForkFails(p, q)
        PROVE  Places'
    BY ZenonT(30), <2>4 DEF ForkFails, InUser
  <2>5. ASSUME NEW q \in Procs, Kill(p, q)
        PROVE  Places'
    BY ZenonT(30), <2>5 DEF Kill, InUser
  <2> QED
    BY ZenonT(30), <1>2, <2>1, <2>2, <2>3, <2>4, <2>5 DEF User
<1>3. CASE UNCHANGED vars
  BY ZenonT(30), <1>3 DEF vars
<1> QED
  BY ZenonT(30), <1>1, <1>2, <1>3 DEF Next

\* Every step keeps the slots of kfork() apart.
LEMMA NextForking ==
  ASSUME TypeOK, Places, Forking, [Next]_vars
  PROVE  Forking'
<1> USE DEF TypeOK, Forking, At, Goto, table, locals
<1>1. ASSUME NEW p \in Procs, Kernel(p)
      PROVE  Forking'
  <2>1. CASE ForkParent(p)
    BY <2>1 DEF ForkParent
  <2>2. CASE ForkReady(p)
    BY ZenonT(30), <2>2 DEF ForkReady
  <2>3. CASE ExitLock(p)
    BY ZenonT(30), <2>3 DEF ExitLock
  <2>4. CASE ReparentStep(p)
    BY <2>4 DEF ReparentStep, LastSlot, wakeup
  <2>5. CASE WakeParent(p)
    BY ZenonT(30), <2>5 DEF WakeParent, wakeup
  <2>6. CASE BecomeZombie(p)
    BY ZenonT(30), <2>6 DEF BecomeZombie
  <2>7. CASE WaitLock(p)
    BY ZenonT(30), <2>7 DEF WaitLock
  <2>8. ASSUME NEW q \in Procs, Reap(p, q)
        PROVE  Forking'
    BY ZenonT(30), <2>8 DEF Reap, freeproc, Zombies, Children
  <2>9. CASE WaitFails(p)
    BY ZenonT(30), <2>9 DEF WaitFails
  <2>10. CASE NoZombie(p)
    BY ZenonT(30), <2>10 DEF NoZombie
  <2>11. CASE Prepare(p)
    BY ZenonT(30), <2>11 DEF Prepare
  <2>12. CASE Sleep(p)
    BY ZenonT(30), <2>12 DEF Sleep
  <2> QED
    BY ZenonT(30), <1>1, <2>1, <2>2, <2>3, <2>4, <2>5, <2>6, <2>7, <2>8, <2>9, <2>10, <2>11, <2>12 DEF Kernel
<1>2. ASSUME NEW p \in Procs, User(p)
      PROVE  Forking'
  <2>1. CASE WaitCall(p)
    BY ZenonT(30), <2>1 DEF WaitCall, InUser
  <2>2. ASSUME NEW s \in Status \cup {-1}, ExitCall(p, s)
        PROVE  Forking'
    BY ZenonT(30), <2>2 DEF ExitCall
  <2>3. ASSUME NEW q \in Procs, ForkAlloc(p, q)
        PROVE  Forking'
    BY ZenonT(30), <2>3 DEF ForkAlloc, InUser
  <2>4. ASSUME NEW q \in Procs, ForkFails(p, q)
        PROVE  Forking'
    BY ZenonT(30), <2>4 DEF ForkFails, InUser
  <2>5. ASSUME NEW q \in Procs, Kill(p, q)
        PROVE  Forking'
    BY ZenonT(30), <2>5 DEF Kill, InUser
  <2> QED
    BY ZenonT(30), <1>2, <2>1, <2>2, <2>3, <2>4, <2>5 DEF User
<1>3. CASE UNCHANGED vars
  BY ZenonT(30), <1>3 DEF vars
<1> QED
  BY ZenonT(30), <1>1, <1>2, <1>3 DEF Next

\* Every step keeps what reparent() has done.
LEMMA NextExiting ==
  ASSUME TypeOK, Places, Forking, Exiting, [Next]_vars
  PROVE  Exiting'
<1> USE DEF TypeOK, Exiting, At, Goto, table, locals
<1>1. ASSUME NEW p \in Procs, Kernel(p)
      PROVE  Exiting'
  <2>1. CASE ForkParent(p)
    BY ZenonT(30), <2>1 DEF ForkParent
  <2>2. CASE ForkReady(p)
    <3>1. np[p] \in Procs /\ pc[np[p]] = "none"
      BY ZenonT(30), <2>2 DEF ForkReady, Forking, Places, Live
    <3>2. UNCHANGED <<pp, parent>> /\ \A r \in Procs : pc'[r] = pc[r] \/ pc'[r] = "user"
      BY ZenonT(30), <2>2, <3>1 DEF ForkReady
    <3>3. \A r \in Procs : pc'[r] = "user" => pc[r] # "reparent"
      BY ZenonT(30), <2>2, <3>1 DEF ForkReady
    <3> QED
      BY ZenonT(30), <3>2, <3>3
  <2>3. CASE ExitLock(p)
    <3>1. UNCHANGED <<pp, parent>> /\ pp[p] = 1
      BY ZenonT(30), <2>3 DEF ExitLock
    <3>2. \A q \in Procs : ~(q < 1)
      BY DEF Procs
    <3> QED
      BY <2>3, <3>1, <3>2 DEF ExitLock
  <2>4. CASE ReparentStep(p)
    <3>1. \A q \in Procs : parent'[q] = IF q = pp[p] /\ parent[q] = p THEN initproc ELSE parent[q]
      BY ZenonT(30), <2>4 DEF ReparentStep, LastSlot
    <3>2. p # initproc
      BY ZenonT(30), <2>4 DEF ReparentStep, LastSlot, Places
    <3>3. \A r \in Procs \ {p} : pc'[r] = pc[r] /\ pp'[r] = pp[r]
      BY ZenonT(30), <2>4 DEF ReparentStep, LastSlot
    <3>4. \A r \in Procs \ {p} : pc[r] \notin {"reparent", "wakeparent", "zombie"}
      BY <2>4 DEF ReparentStep, LastSlot, Places, Holding
    <3>5. CASE pp[p] = NPROC
      <4>1. pc'[p] = "wakeparent" /\ pp'[p] = 1
        BY ZenonT(30), <2>4, <3>5 DEF ReparentStep, LastSlot
      <4>2. \A q \in Procs : q < pp[p] \/ q = pp[p]
        BY <3>5 DEF Procs
      <4>3. \A q \in Procs : parent'[q] # p
        BY ZenonT(60), <2>4, <3>1, <3>2, <4>2 DEF ReparentStep, LastSlot
      <4> QED
        BY ZenonT(30), <3>3, <3>4, <4>1, <4>3
    <3>6. CASE pp[p] # NPROC
      <4>1. pc'[p] = "reparent" /\ pp'[p] = pp[p] + 1
        BY ZenonT(30), <2>4, <3>6 DEF ReparentStep, LastSlot
      <4>2. \A q \in Procs : q < pp[p] + 1 => q < pp[p] \/ q = pp[p]
        BY DEF Procs
      <4>3. \A q \in Procs : q < pp'[p] => parent'[q] # p
        BY ZenonT(30), <2>4, <3>1, <3>2, <4>1, <4>2 DEF ReparentStep, LastSlot
      <4> QED
        BY ZenonT(30), <3>3, <3>4, <4>1, <4>3
    <3> QED
      BY ZenonT(30), <3>5, <3>6
  <2>5. CASE WakeParent(p)
    BY ZenonT(30), <2>5 DEF WakeParent, wakeup
  <2>6. CASE BecomeZombie(p)
    BY ZenonT(30), <2>6 DEF BecomeZombie
  <2>7. CASE WaitLock(p)
    BY ZenonT(30), <2>7 DEF WaitLock
  <2>8. ASSUME NEW q \in Procs, Reap(p, q)
        PROVE  Exiting'
    <3>1. \A r \in Procs : parent'[r] \in {parent[r], None} /\ None # p
      BY <2>8 DEF Reap, freeproc, Procs, None
    <3>2. \A r \in Procs : pc'[r] = pc[r] \/ (r = p /\ pc'[r] = "user" /\ pc[r] = "scan")
      BY ZenonT(30), <2>8 DEF Reap, freeproc
    <3>3. None \notin Procs /\ UNCHANGED pp
      BY <2>8 DEF Procs, None, Reap, freeproc
    <3> QED
      BY <3>1, <3>2, <3>3
  <2>9. CASE WaitFails(p)
    BY ZenonT(30), <2>9 DEF WaitFails
  <2>10. CASE NoZombie(p)
    BY ZenonT(30), <2>10 DEF NoZombie
  <2>11. CASE Prepare(p)
    BY ZenonT(30), <2>11 DEF Prepare
  <2>12. CASE Sleep(p)
    BY ZenonT(30), <2>12 DEF Sleep
  <2> QED
    BY ZenonT(30), <1>1, <2>1, <2>2, <2>3, <2>4, <2>5, <2>6, <2>7, <2>8, <2>9, <2>10, <2>11, <2>12 DEF Kernel
<1>2. ASSUME NEW p \in Procs, User(p)
      PROVE  Exiting'
  <2>1. CASE WaitCall(p)
    BY ZenonT(30), <2>1 DEF WaitCall, InUser
  <2>2. ASSUME NEW s \in Status \cup {-1}, ExitCall(p, s)
        PROVE  Exiting'
    BY ZenonT(30), <2>2 DEF ExitCall
  <2>3. ASSUME NEW q \in Procs, ForkAlloc(p, q)
        PROVE  Exiting'
    BY ZenonT(30), <2>3 DEF ForkAlloc, InUser
  <2>4. ASSUME NEW q \in Procs, ForkFails(p, q)
        PROVE  Exiting'
    BY ZenonT(30), <2>4 DEF ForkFails, InUser
  <2>5. ASSUME NEW q \in Procs, Kill(p, q)
        PROVE  Exiting'
    BY ZenonT(30), <2>5 DEF Kill, InUser
  <2> QED
    BY ZenonT(30), <1>2, <2>1, <2>2, <2>3, <2>4, <2>5 DEF User
<1>3. CASE UNCHANGED vars
  BY ZenonT(30), <1>3 DEF vars
<1> QED
  BY ZenonT(30), <1>1, <1>2, <1>3 DEF Next

\* Every step leaves every process a live parent.
LEMMA NextParent ==
  ASSUME TypeOK, Places, Forking, Exiting, ParentAlive, [Next]_vars
  PROVE  ParentAlive'
<1>0. initproc \in Procs /\ None \notin Procs
  BY ProcAssumption DEF initproc, Procs, None
<1> USE <1>0 DEF TypeOK, ParentAlive, At, Goto, table, locals
<1>1. ASSUME NEW p \in Procs, Kernel(p)
      PROVE  ParentAlive'
  <2>1. CASE ForkParent(p)
    BY ZenonT(30), <2>1 DEF ForkParent
  <2>2. CASE ForkReady(p)
    BY <2>2 DEF ForkReady, Forking, Places
  <2>3. CASE ExitLock(p)
    BY ZenonT(30), <2>3 DEF ExitLock
  <2>4. CASE ReparentStep(p)
    <3>1. Live(initproc)
      BY ZenonT(30) DEF Places
    <3>2. \A q \in Procs : state'[q] = "ZOMBIE" \/ Live(q)' => state[q] = "ZOMBIE" \/ Live(q)
      BY ZenonT(30), <2>4, ReparentEffect DEF Live
    <3>3. \A q \in Procs : parent'[q] \in {parent[q], initproc}
      BY ZenonT(30), <2>4, ReparentEffect
    <3> QED
      BY <2>4, <3>1, <3>2, <3>3, ReparentEffect DEF Live
  <2>5. CASE WakeParent(p)
    BY ZenonT(30), <2>5 DEF WakeParent, wakeup
  <2>6. CASE BecomeZombie(p)
    <3>1. p # initproc /\ \A q \in Procs : parent[q] # p
      BY ZenonT(30), <2>6 DEF BecomeZombie, Exiting, Places
    <3> QED
      BY ZenonT(30), <2>6, <3>1 DEF BecomeZombie
  <2>7. CASE WaitLock(p)
    BY ZenonT(30), <2>7 DEF WaitLock
  <2>8. ASSUME NEW q \in Procs, Reap(p, q)
        PROVE  ParentAlive'
    <3>1. state[q] = "ZOMBIE" /\ q # initproc
      BY ZenonT(30), <2>8 DEF Reap, freeproc, Zombies, Places, Live
    <3>2. \A r \in Procs \ {initproc} : state[r] \in {"SLEEPING", "RUNNABLE", "ZOMBIE"} => parent[r] # q
      BY ZenonT(30), <3>1
    <3> QED
      BY ZenonT(30), <2>8, <3>1, <3>2 DEF Reap, freeproc
  <2>9. CASE WaitFails(p)
    BY ZenonT(30), <2>9 DEF WaitFails
  <2>10. CASE NoZombie(p)
    BY ZenonT(30), <2>10 DEF NoZombie
  <2>11. CASE Prepare(p)
    BY ZenonT(30), <2>11 DEF Prepare
  <2>12. CASE Sleep(p)
    BY ZenonT(30), <2>12 DEF Sleep
  <2> QED
    BY ZenonT(30), <1>1, <2>1, <2>2, <2>3, <2>4, <2>5, <2>6, <2>7, <2>8, <2>9, <2>10, <2>11, <2>12 DEF Kernel
<1>2. ASSUME NEW p \in Procs, User(p)
      PROVE  ParentAlive'
  <2>1. CASE WaitCall(p)
    BY ZenonT(30), <2>1 DEF WaitCall, InUser
  <2>2. ASSUME NEW s \in Status \cup {-1}, ExitCall(p, s)
        PROVE  ParentAlive'
    BY ZenonT(30), <2>2 DEF ExitCall
  <2>3. ASSUME NEW q \in Procs, ForkAlloc(p, q)
        PROVE  ParentAlive'
    BY ZenonT(30), <2>3 DEF ForkAlloc, InUser
  <2>4. ASSUME NEW q \in Procs, ForkFails(p, q)
        PROVE  ParentAlive'
    BY ZenonT(30), <2>4 DEF ForkFails, InUser
  <2>5. ASSUME NEW q \in Procs, Kill(p, q)
        PROVE  ParentAlive'
    BY ZenonT(30), <2>5 DEF Kill, InUser
  <2> QED
    BY ZenonT(30), <1>2, <2>1, <2>2, <2>3, <2>4, <2>5 DEF User
<1>3. CASE UNCHANGED vars
  BY ZenonT(30), <1>3 DEF vars
<1> QED
  BY ZenonT(30), <1>1, <1>2, <1>3 DEF Next

\* Every step keeps the waiters told of their zombies.
LEMMA NextWaiting ==
  ASSUME TypeOK, Places, Forking, Exiting, ParentAlive, Waiting, WaitNotLost, [Next]_vars
  PROVE  Waiting' /\ WaitNotLost'
<1>0. initproc \in Procs /\ None \notin Procs
  BY ProcAssumption DEF initproc, Procs, None
<1> USE <1>0 DEF TypeOK, Waiting, WaitNotLost, Zombies, Children, At, Goto, table, locals
<1>1. ASSUME NEW p \in Procs, Kernel(p)
      PROVE  Waiting' /\ WaitNotLost'
  <2>1. CASE ForkParent(p)
    <3>1. np[p] \in Procs /\ state[np[p]] = "USED" /\ pc[np[p]] = "none"
      BY ZenonT(30), <2>1 DEF ForkParent, Forking, Places, Live
    <3>2. \A r, q \in Procs : q \in Zombies(r)' => q \in Zombies(r)
      BY ZenonT(30), <2>1, <3>1 DEF ForkParent
    <3>3. \A r \in Procs : pc'[r] \in {"zombie", "prepare", "sleep"} => pc'[r] = pc[r] /\ parent'[r] = parent[r]
      BY ZenonT(30), <2>1, <3>1 DEF ForkParent
    <3> QED
      BY <2>1, <3>2, <3>3 DEF ForkParent
  <2>2. CASE ForkReady(p)
    BY ZenonT(30), <2>2 DEF ForkReady
  <2>3. CASE ExitLock(p)
    BY ZenonT(30), <2>3 DEF ExitLock
  <2>4. CASE ReparentStep(p)
    <3>1. \A r \in Procs : pc'[r] \notin {"zombie", "prepare"} /\ (pc'[r] = "sleep" => pc[r] = "sleep")
      BY ZenonT(30), <2>4 DEF ReparentStep, LastSlot, Places, Holding
    <3>2. ASSUME NEW r \in Procs, chan'[r] = r, state'[r] = "SLEEPING" \/ pc'[r] = "sleep"
          PROVE  Zombies(r)' = {}
      <4>1. chan[r] = r /\ (state[r] = "SLEEPING" \/ pc[r] = "sleep")
        BY <2>4, <3>1, <3>2, ReparentEffect
      <4>2. \A q \in Procs : state'[q] = "ZOMBIE" => state[q] = "ZOMBIE"
        BY ZenonT(30), <2>4, ReparentEffect DEF Live
      <4>3. \A q \in Procs : parent'[q] = r => parent[q] = r
        BY <2>4, <3>2, ReparentEffect
      <4> QED
        BY ZenonT(30), <4>1, <4>2, <4>3
    <3> QED
      BY ZenonT(30), <3>1, <3>2
  <2>5. CASE WakeParent(p)
    <3>1. \A r \in Procs : pc'[r] # "prepare" /\ (pc'[r] = "zombie" => r = p)
                            /\ (pc'[r] = "sleep" => pc[r] = "sleep")
      BY ZenonT(30), <2>5 DEF WakeParent, Places, Holding
    <3>2. parent' = parent /\ parent[p] \in Procs
      BY <2>5 DEF WakeParent, ParentAlive, Places
    <3>3. chan'[parent[p]] = None
      BY ZenonT(30), <2>5, <3>2, WakeParentEffect
    <3>4. \A r, q \in Procs : q \in Zombies(r)' => q \in Zombies(r)
      BY ZenonT(30), <2>5, <3>2, WakeParentEffect DEF Live
    <3>5. \A r \in Procs : chan'[r] = r /\ (state'[r] = "SLEEPING" \/ pc'[r] = "sleep") =>
                            chan[r] = r /\ (state[r] = "SLEEPING" \/ pc[r] = "sleep")
      BY <2>5, <3>1, WakeParentEffect
    <3> QED
      BY <3>1, <3>2, <3>3, <3>4, <3>5
  <2>6. CASE BecomeZombie(p)
    <3>1. chan[parent[p]] = None /\ UNCHANGED <<parent, chan>>
      BY ZenonT(30), <2>6 DEF BecomeZombie
    <3>2. \A r \in Procs : pc'[r] \notin {"prepare", "zombie"} /\ (pc'[r] = "sleep" => pc[r] = "sleep")
      BY ZenonT(30), <2>6 DEF BecomeZombie, Places, Holding
    <3>3. \A r \in Procs : state'[r] = IF r = p THEN "ZOMBIE" ELSE state[r]
      BY ZenonT(30), <2>6 DEF BecomeZombie
    <3> QED
      BY <3>1, <3>2, <3>3
  <2>7. CASE WaitLock(p)
    BY ZenonT(30), <2>7 DEF WaitLock
  <2>8. ASSUME NEW q \in Procs, Reap(p, q)
        PROVE  Waiting' /\ WaitNotLost'
    <3>1. \A r \in Procs : pc'[r] \notin {"prepare", "zombie"} /\ (pc'[r] = "sleep" => pc[r] = "sleep")
      BY ZenonT(30), <2>8 DEF Reap, freeproc, Places, Holding
    <3>2. \A r \in Procs : chan'[r] \in {chan[r], None} /\ (state'[r] = "SLEEPING" => state[r] = "SLEEPING")
      BY ZenonT(30), <2>8 DEF Reap, freeproc
    <3>3. \A r, x \in Procs : x \in Zombies(r)' => x \in Zombies(r)
      BY ZenonT(30), <2>8 DEF Reap, freeproc
    <3> QED
      BY <3>1, <3>2, <3>3
  <2>9. CASE WaitFails(p)
    BY ZenonT(30), <2>9 DEF WaitFails
  <2>10. CASE NoZombie(p)
    BY <2>10 DEF NoZombie
  <2>11. CASE Prepare(p)
    <3>1. \A r \in Procs : pc'[r] \notin {"prepare", "zombie"} /\ (pc'[r] = "sleep" => pc[r] = "sleep" \/ r = p)
      BY ZenonT(30), <2>11 DEF Prepare, Places, Holding
    <3>2. Zombies(p) = {} /\ state[p] = "RUNNABLE"
      BY ZenonT(30), <2>11 DEF Prepare
    <3> QED
      BY <2>11, <3>1, <3>2 DEF Prepare
  <2>12. CASE Sleep(p)
    BY ZenonT(30), <2>12 DEF Sleep
  <2> QED
    BY ZenonT(30), <1>1, <2>1, <2>2, <2>3, <2>4, <2>5, <2>6, <2>7, <2>8, <2>9, <2>10, <2>11, <2>12 DEF Kernel
<1>2. ASSUME NEW p \in Procs, User(p)
      PROVE  Waiting' /\ WaitNotLost'
  <2>1. CASE WaitCall(p)
    BY ZenonT(30), <2>1 DEF WaitCall, InUser
  <2>2. ASSUME NEW s \in Status \cup {-1}, ExitCall(p, s)
        PROVE  Waiting' /\ WaitNotLost'
    BY ZenonT(30), <2>2 DEF ExitCall
  <2>3. ASSUME NEW q \in Procs, ForkAlloc(p, q)
        PROVE  Waiting' /\ WaitNotLost'
    BY ZenonT(30), <2>3 DEF ForkAlloc, InUser
  <2>4. ASSUME NEW q \in Procs, ForkFails(p, q)
        PROVE  Waiting' /\ WaitNotLost'
    BY ZenonT(30), <2>4 DEF ForkFails, InUser
  <2>5. ASSUME NEW q \in Procs, Kill(p, q)
        PROVE  Waiting' /\ WaitNotLost'
    BY <2>5 DEF Kill, InUser
  <2> QED
    BY ZenonT(30), <1>2, <2>1, <2>2, <2>3, <2>4, <2>5 DEF User
<1>3. CASE UNCHANGED vars
  BY ZenonT(30), <1>3 DEF vars
<1> QED
  BY ZenonT(30), <1>1, <1>2, <1>3 DEF Next

-----------------------------------------------------------------------------
(* The theorems.                                                           *)

\* Every reachable state of the process table is well typed.
THEOREM TypeCorrect == Spec => []TypeOK
<1>1. TypeOK /\ Places /\ Forking /\ [Next]_vars => (TypeOK /\ Places /\ Forking)'
  BY ZenonT(30), NextType, NextPlaces, NextForking
<1> QED
  BY <1>1, InitInv, PTL DEF Spec

\* The supporting invariants hold throughout.
LEMMA Supports == Spec => [](TypeOK /\ Places /\ Forking /\ Exiting)
<1>1. TypeOK /\ Places /\ Forking /\ Exiting /\ [Next]_vars
        => (TypeOK /\ Places /\ Forking /\ Exiting)'
  BY ZenonT(30), NextType, NextPlaces, NextForking, NextExiting
<1> QED
  BY <1>1, InitInv, PTL DEF Spec

\* kfork(), kexit() and reparent() leave no process with a dead parent, whatever the
\* size of the table: somebody can always wait for it.
THEOREM ParentsLive == Spec => []ParentAlive
<1>1. Init => ParentAlive
  BY ZenonT(30) DEF Init, ParentAlive, initproc
<1>2. TypeOK /\ Places /\ Forking /\ Exiting /\ ParentAlive /\ [Next]_vars => ParentAlive'
  BY ZenonT(30), NextParent
<1> QED
  BY <1>1, <1>2, Supports, PTL DEF Spec

\* kwait() loses no wakeup, whatever the size of the table: nobody sleeps in it with
\* a zombie to collect.
THEOREM NoLostWakeup == Spec => []WaitNotLost
<1>1. Init => Waiting /\ WaitNotLost
  BY ZenonT(30), InitInv DEF Init, WaitNotLost, Zombies, Children
<1>2. TypeOK /\ Places /\ Forking /\ Exiting /\ ParentAlive /\ Waiting /\ WaitNotLost
        /\ [Next]_vars => Waiting' /\ WaitNotLost'
  BY ZenonT(30), NextWaiting
<1> QED
  BY <1>1, <1>2, Supports, ParentsLive, PTL DEF Spec

=============================================================================
