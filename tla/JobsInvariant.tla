--------------------------- MODULE JobsInvariant ----------------------------
(***************************************************************************)
(* The inductive invariant of Jobs, for every number of children, every    *)
(* set of pipelines and every size of the tables, and what follows from it *)
(* about the exits of the children.                                        *)
(***************************************************************************)
EXTENDS Jobs, TLAPS

-----------------------------------------------------------------------------
(* The inductive invariant.                                                *)

\* The event that tells of the state a child is in.
StatusOf(p) == CASE proc[p] = "running" -> "continued"
                 [] proc[p] = "stopped" -> "stopped"
                 [] proc[p] = "exited"  -> "exited"
                 [] OTHER               -> "none"

\* An entry of the queue.
Event == [pid : Pids, status : Events]

\* All that has happened to the child has been applied.
Settled(p) == report[p] = "none" /\ \A i \in DOMAIN pending : pending[i].pid # p

\* An entry of the job table.
JobType == [pgid : 0 .. NPIDS, pids : Seq(Pids), done : SUBSET Pids,
            state : {"JOB_RUNNING", "JOB_STOPPED"}, background : BOOLEAN]

\* The locals of a launch and of a wait.
WaitType == [stages : Seq(BOOLEAN), first : BOOLEAN, background : BOOLEAN,
             redirect : BOOLEAN, pids : Seq(Pids), pgid : 0 .. NPIDS,
             done : SUBSET Pids, stopped : BOOLEAN, job : Nat, alarm : BOOLEAN]

\* Types of the state.
Types ==
  /\ proc \in [Pids -> {"none", "unborn", "running", "stopped", "exited"}]
  /\ pgrp \in [Pids -> 0 .. NPIDS]
  /\ report \in [Pids -> Events \cup {"none"}]
  /\ out \in [Pids -> {"none", "used", "early", "whole"}]
  /\ pending \in Seq(Event)
  /\ jobs \in [DOMAIN jobs -> JobType]
  /\ next_job_number \in Nat \ {0}
  /\ \A j \in DOMAIN jobs : j \in Nat \ {0} /\ j < next_job_number
  /\ wait \in WaitType

\* Children are numbered in the order they are forked, and there is a number for
\* every stage still to come.
Forks ==
  /\ Forked \in 0 .. NPIDS /\ Started = 1 .. Forked
  /\ pc = "launch" => Forked + Len(wait.stages) <= NPIDS

\* The kernel and the queue tell of children that were started; what the kernel has
\* to report is the state the child is in.
Reports ==
  /\ \A p \in Pids : report[p] # "none" => report[p] = StatusOf(p)
  /\ \A i \in DOMAIN pending : proc[pending[i].pid] # "none"

\* An exit is the last event of its process.
ExitsLast ==
  \A i \in DOMAIN pending : pending[i].status = "exited" =>
    /\ proc[pending[i].pid] = "exited" /\ report[pending[i].pid] = "none"
    /\ \A k \in DOMAIN pending : k > i => pending[k].pid # pending[i].pid

\* A process taken for done has exited, and there will be no more events of it.
DoneSettled ==
  /\ \A p \in wait.done : p \in Range(wait.pids) /\ proc[p] = "exited" /\ Settled(p)
  /\ \A j \in Numbers : \A p \in jobs[j].done :
       p \in Members(j) /\ proc[p] = "exited" /\ Settled(p)

\* A process belongs to one job, or to the group being launched or waited for.
Membership ==
  /\ \A j \in Numbers : \A p \in Members(j) : proc[p] # "none"
  /\ \A j, n \in Numbers : j # n => Members(j) \cap Members(n) = {}
  /\ \A p \in Range(wait.pids) : proc[p] # "none"
  /\ wait.job = None => \A j \in Numbers : Members(j) \cap Range(wait.pids) = {}
  /\ wait.job # None => /\ wait.job \in Numbers
                        /\ jobs[wait.job].pids = wait.pids
                        /\ jobs[wait.job].pgid = wait.pgid

\* When the locals of a launch and of a wait are in use.
WaitShape ==
  /\ pc \notin {"launch", "wait", "suspending", "suspended"} => wait = NoWait
  /\ pc = "launch" => wait.job = None /\ wait.done = {} /\ ~wait.stopped
  /\ wait.stopped => wait.done # Range(wait.pids)

\* What holds of the shell whatever the queue drops.
JobsInv ==
  /\ Types /\ Forks /\ Reports /\ ExitsLast /\ DoneSettled /\ Membership /\ WaitShape

\* The queue has room for all that the kernel could report.
Fits == \A S \in InSomeOrder({p \in Pids : report[p] # "none"}) :
          Len(pending) + Len(S) <= PENDING_MAX

-----------------------------------------------------------------------------
(* Facts about sequences.                                                  *)

\* The members of a sequence, of the empty one, and of one that is extended.
LEMMA Elements ==
  ASSUME NEW T, NEW s \in Seq(T)
  PROVE  /\ Range(s) \subseteq T
         /\ s = <<>> => Range(s) = {}
         /\ s # <<>> => s[1] \in Range(s)
         /\ \A x \in T : Append(s, x) \in Seq(T) /\ Range(Append(s, x)) = Range(s) \cup {x}
<1>1. DOMAIN s = 1 .. Len(s) /\ Len(s) \in Nat /\ \A i \in 1 .. Len(s) : s[i] \in T
  OBVIOUS
<1>2. Range(s) \subseteq T
  BY <1>1 DEF Range
<1>3. s = <<>> => Range(s) = {}
  BY DEF Range
<1>4. s # <<>> => s[1] \in Range(s)
  BY <1>1 DEF Range
<1>5. ASSUME NEW x \in T
      PROVE  Append(s, x) \in Seq(T) /\ Range(Append(s, x)) = Range(s) \cup {x}
  <2> DEFINE a == Append(s, x)
  <2>1. /\ a \in Seq(T) /\ DOMAIN a = 1 .. Len(s) + 1
        /\ \A i \in 1 .. Len(s) : a[i] = s[i]
        /\ a[Len(s) + 1] = x
    BY <1>1
  <2> HIDE DEF a
  <2>2. ASSUME NEW y \in Range(a) PROVE y \in Range(s) \cup {x}
    <3>1. PICK i \in DOMAIN a : y = a[i]
      BY DEF Range
    <3>2. CASE i = Len(s) + 1
      BY <3>1, <3>2, <2>1
    <3>3. CASE i \in 1 .. Len(s)
      BY <3>1, <3>3, <2>1, <1>1 DEF Range
    <3> QED BY <3>2, <3>3, <2>1, <1>1
  <2>3. ASSUME NEW y \in Range(s) PROVE y \in Range(a)
    <3>1. PICK i \in 1 .. Len(s) : y = s[i]
      BY <1>1 DEF Range
    <3>2. i \in DOMAIN a /\ a[i] = y
      BY <3>1, <2>1, <1>1
    <3> QED BY <3>2 DEF Range
  <2>4. x \in Range(a)
    <3>1. Len(s) + 1 \in DOMAIN a
      BY <2>1, <1>1
    <3> QED BY <3>1, <2>1 DEF Range
  <2> QED BY <2>1, <2>2, <2>3, <2>4 DEF a
<1> QED BY <1>2, <1>3, <1>4, <1>5

\* A sequence without its head.
LEMMA Rest ==
  ASSUME NEW T, NEW s \in Seq(T), s # <<>>
  PROVE  /\ Tail(s) \in Seq(T) /\ Head(s) \in T /\ Head(s) = s[1]
         /\ 1 \in DOMAIN s /\ DOMAIN s = 1 .. Len(s) /\ DOMAIN Tail(s) = 1 .. Len(s) - 1
         /\ Len(s) \in Nat \ {0}
         /\ \A i \in DOMAIN Tail(s) : i + 1 \in DOMAIN s /\ Tail(s)[i] = s[i + 1]
         /\ \A i \in DOMAIN s : i # 1 => i - 1 \in DOMAIN Tail(s) /\ Tail(s)[i - 1] = s[i]
OBVIOUS

\* A function over 1 .. n is a sequence; two sequences together; a prefix.
LEMMA Table ==
  ASSUME NEW T, NEW n \in Nat, NEW f \in [1 .. n -> T]
  PROVE  f \in Seq(T) /\ Len(f) = n
OBVIOUS

\* Two sequences, one after the other.
LEMMA Together ==
  ASSUME NEW T, NEW s \in Seq(T), NEW t \in Seq(T)
  PROVE  /\ s \o t \in Seq(T) /\ Len(s \o t) = Len(s) + Len(t)
         /\ \A i \in 1 .. Len(s) : (s \o t)[i] = s[i]
         /\ \A i \in Len(s) + 1 .. Len(s) + Len(t) : (s \o t)[i] = t[i - Len(s)]
OBVIOUS

\* The beginning of a sequence.
LEMMA Prefix ==
  ASSUME NEW T, NEW s \in Seq(T), NEW m \in 0 .. Len(s)
  PROVE  /\ SubSeq(s, 1, m) \in Seq(T) /\ DOMAIN SubSeq(s, 1, m) = 1 .. m
         /\ \A i \in 1 .. m : SubSeq(s, 1, m)[i] = s[i]
OBVIOUS

-----------------------------------------------------------------------------
(* What the handler and the shell do to the queue.                         *)

\* The children with something to report, in some order, each of them once.
LEMMA EachOnce ==
  ASSUME NEW T, T \subseteq Pids, NEW S \in InSomeOrder(T)
  PROVE  /\ S \in Seq(Pids) /\ Len(S) \in Nat
         /\ DOMAIN S = 1 .. Len(S)
         /\ \A n \in DOMAIN S : S[n] \in T
         /\ \A n, m \in DOMAIN S : n # m => S[n] # S[m]
         /\ \A p \in T : \E n \in DOMAIN S : S[n] = p
<1>1. PICK k \in 0 .. NPIDS : S \in Bijection(1 .. k, T)
  BY Zenon DEF InSomeOrder
<1> DEFINE D == 1 .. k
<1>2. k \in Nat
  BY JobsAssumption
<1>3. S \in [D -> T] /\ \A n, m \in D : n # m => S[n] # S[m]
  BY <1>1 DEF Bijection, Injection, IsInjective
<1>4. \A p \in T : \E n \in D : S[n] = p
  BY <1>1 DEF Bijection, Surjection
<1>5. S \in Seq(Pids) /\ Len(S) = k
  BY <1>2, <1>3
<1> QED BY <1>2, <1>3, <1>4, <1>5

\* The handler appends one event for each child with something to report, as far as
\* there is room; if there is room for all, none is dropped.
LEMMA HandlerEffects ==
  ASSUME Types, SigchldHandler
  PROVE  /\ pending' \in Seq(Event) /\ report' = [p \in Pids |-> "none"]
         /\ \A i \in DOMAIN pending' :
              \/ i \in DOMAIN pending /\ pending'[i] = pending[i]
              \/ /\ \A n \in DOMAIN pending : n < i
                 /\ report[pending'[i].pid] # "none"
                 /\ pending'[i].status = report[pending'[i].pid]
                 /\ \A k \in DOMAIN pending' : k > i => pending'[k].pid # pending'[i].pid
         /\ Fits => /\ \A i \in DOMAIN pending : i \in DOMAIN pending' /\ pending'[i] = pending[i]
                    /\ \A p \in Pids : report[p] # "none" =>
                         \E i \in DOMAIN pending' : pending'[i].pid = p
                                                    /\ \A n \in DOMAIN pending : n < i
<1> DEFINE T == {p \in Pids : report[p] # "none"}
<1>1. PICK S \in InSomeOrder(T) :
        LET new == [i \in DOMAIN S |-> [pid |-> S[i], status |-> report[S[i]]]]
            all == pending \o new
        IN pending' = SubSeq(all, 1, IF Len(all) < PENDING_MAX THEN Len(all) ELSE PENDING_MAX)
  BY Zenon DEF SigchldHandler
<1>2. /\ S \in Seq(Pids) /\ Len(S) \in Nat
      /\ DOMAIN S = 1 .. Len(S)
      /\ \A n \in DOMAIN S : S[n] \in T
      /\ \A n, m \in DOMAIN S : n # m => S[n] # S[m]
      /\ \A p \in T : \E n \in DOMAIN S : S[n] = p
  <2>1. T \subseteq Pids
    OBVIOUS
  <2> HIDE DEF T
  <2> QED BY <2>1, EachOnce
<1> DEFINE c == Len(S)
           l == Len(pending)
           new == [i \in DOMAIN S |-> [pid |-> S[i], status |-> report[S[i]]]]
           all == pending \o new
           m == IF l + c < PENDING_MAX THEN l + c ELSE PENDING_MAX
<1>3. /\ report \in [Pids -> Events \cup {"none"}] /\ pending \in Seq(Event)
      /\ l \in Nat /\ DOMAIN pending = 1 .. l
  BY DEF Types
<1>4. new \in Seq(Event) /\ Len(new) = c /\ \A n \in 1 .. c : new[n] = [pid |-> S[n], status |-> report[S[n]]]
  <2>1. \A n \in 1 .. c : [pid |-> S[n], status |-> report[S[n]]] \in Event
    BY <1>2, <1>3 DEF Event
  <2>2. new \in [1 .. c -> Event]
    BY <1>2, <2>1
  <2>3. \A n \in 1 .. c : new[n] = [pid |-> S[n], status |-> report[S[n]]]
    BY <1>2
  <2>4. c \in Nat
    BY <1>2
  <2> HIDE DEF new, c
  <2> QED BY <2>2, <2>3, <2>4, Table
<1> HIDE DEF new
<1>5. /\ all \in Seq(Event) /\ Len(all) = l + c
      /\ \A i \in 1 .. l : all[i] = pending[i]
      /\ \A i \in l + 1 .. l + c : all[i] = new[i - l]
  <2>0. pending \in Seq(Event) /\ new \in Seq(Event)
    BY Zenon, <1>3, <1>4
  <2>1. /\ Len(all) = l + Len(new) /\ all \in Seq(Event)
        /\ \A i \in 1 .. l : all[i] = pending[i]
        /\ \A i \in l + 1 .. l + Len(new) : all[i] = new[i - l]
    BY <2>0, Together
  <2> HIDE DEF c, l, all
  <2> QED BY Zenon, <1>4, <2>1
<1>6. pending' = SubSeq(all, 1, m)
  BY Zenon, <1>1, <1>5 DEF new
<1> HIDE DEF all
<1>7. /\ m \in Nat /\ m <= l + c
      /\ pending' \in Seq(Event) /\ DOMAIN pending' = 1 .. m
      /\ \A i \in 1 .. m : pending'[i] = all[i]
  <2>1. m \in 0 .. Len(all) /\ m <= l + c
    BY <1>2, <1>3, <1>5, JobsAssumption
  <2> HIDE DEF m, c, l
  <2>2. all \in Seq(Event)
    BY <1>5
  <2>3. /\ SubSeq(all, 1, m) \in Seq(Event) /\ DOMAIN SubSeq(all, 1, m) = 1 .. m
        /\ \A i \in 1 .. m : SubSeq(all, 1, m)[i] = all[i]
    BY <2>1, <2>2, Prefix
  <2> QED BY <1>6, <2>1, <2>2, <2>3
<1> HIDE DEF m, c, l
<1>8. ASSUME NEW i \in DOMAIN pending', i \notin DOMAIN pending
      PROVE  /\ i - l \in 1 .. c /\ i \in l + 1 .. l + c
             /\ pending'[i] = [pid |-> S[i - l], status |-> report[S[i - l]]]
  <2>1. c \in Nat
    BY <1>2 DEF c
  <2>2. i - l \in 1 .. c /\ i \in l + 1 .. l + c
    BY SMTT(30), <1>3, <1>7, <1>8, <2>1
  <2>3. pending'[i] = new[i - l]
    BY <1>5, <1>7, <2>2
  <2> QED BY <1>4, <2>2, <2>3
<1>9. ASSUME NEW i \in DOMAIN pending', i \notin DOMAIN pending
      PROVE  /\ \A n \in DOMAIN pending : n < i
             /\ report[pending'[i].pid] # "none"
             /\ pending'[i].status = report[pending'[i].pid]
             /\ \A k \in DOMAIN pending' : k > i => pending'[k].pid # pending'[i].pid
  <2>1. \A n \in DOMAIN pending : n < i
    BY SMTT(30), <1>2, <1>3, <1>7, <1>8, <1>9 DEF c
  <2>2. S[i - l] \in T
    BY <1>2, <1>8, <1>9 DEF c
  <2>3. /\ pending'[i].pid = S[i - l] /\ report[pending'[i].pid] # "none"
        /\ pending'[i].status = report[pending'[i].pid]
    BY <1>8, <1>9, <2>2
  <2>4. ASSUME NEW k \in DOMAIN pending', k > i
        PROVE  pending'[k].pid # pending'[i].pid
    <3>1. k \notin DOMAIN pending
      BY SMTT(30), <1>2, <1>3, <1>7, <1>8, <1>9, <2>4 DEF c
    <3>2. pending'[k].pid = S[k - l] /\ k - l \in 1 .. c
      BY <1>8, <3>1
    <3>3. k - l # i - l /\ i - l \in 1 .. c
      BY SMTT(30), <1>8, <1>9, <1>2, <1>3, <1>7, <2>4 DEF c
    <3> QED BY SMTT(30), <1>2, <2>3, <3>2, <3>3 DEF c
  <2> QED BY <2>1, <2>3, <2>4
<1>10. \A i \in DOMAIN pending' : i \in DOMAIN pending => pending'[i] = pending[i]
  BY <1>3, <1>5, <1>7
<1>11. ASSUME Fits
       PROVE  /\ \A i \in DOMAIN pending : i \in DOMAIN pending' /\ pending'[i] = pending[i]
              /\ \A p \in Pids : report[p] # "none" =>
                   \E i \in DOMAIN pending' : pending'[i].pid = p
                                              /\ \A n \in DOMAIN pending : n < i
  <2>1. m = l + c
    BY <1>2, <1>3, <1>11, JobsAssumption DEF Fits, m, l, c
  <2>2. \A i \in DOMAIN pending : i \in DOMAIN pending'
    BY <1>2, <1>3, <1>7, <2>1 DEF c
  <2>3. ASSUME NEW p \in Pids, report[p] # "none"
        PROVE  \E i \in DOMAIN pending' : pending'[i].pid = p
                                          /\ \A n \in DOMAIN pending : n < i
    <3>1. PICK n \in 1 .. c : S[n] = p
      BY <1>2, <2>3 DEF c
    <3>2. l + n \in DOMAIN pending' /\ l + n \notin DOMAIN pending /\ (l + n) - l = n
      BY SMTT(30), <1>2, <1>3, <1>7, <2>1, <3>1 DEF c
    <3>3. pending'[l + n].pid = p
      BY <1>8, <3>1, <3>2
    <3> QED BY <1>9, <3>2, <3>3
  <2> QED BY <1>10, <2>2, <2>3
<1>12. report' = [p \in Pids |-> "none"]
  BY DEF SigchldHandler
<1> QED BY SMTT(30), <1>7, <1>9, <1>10, <1>11, <1>12

\* An event is taken from the queue.
LEMMA TakeEffects ==
  ASSUME Types, ExitsLast, pending # <<>>, pending' = take_pending,
         UNCHANGED <<proc, report>>, NEW e, e = Head(pending)
  PROVE  /\ pending' \in Seq(Event) /\ e \in Event
         /\ \A i \in DOMAIN pending' : i + 1 \in DOMAIN pending /\ pending'[i] = pending[i + 1]
         /\ \A i \in DOMAIN pending : i # 1 => i - 1 \in DOMAIN pending'
                                               /\ pending'[i - 1] = pending[i]
         /\ e = pending[1] /\ 1 \in DOMAIN pending
         /\ \A i \in DOMAIN pending : i \in Nat
         /\ \A i \in DOMAIN pending' : i \in Nat \ {0}
         /\ \A p \in Pids : Settled(p) => Settled(p)'
         /\ \A p \in Pids : p # e.pid => (Settled(p)' <=> Settled(p))
         /\ e.status = "exited" => /\ Settled(e.pid)'
                                               /\ proc[e.pid] = "exited"
         /\ ~Settled(e.pid)
<1>1. pending \in Seq(Event) /\ pending' = Tail(pending)
  BY DEF Types, take_pending
<1>2. /\ pending' \in Seq(Event) /\ e \in Event /\ e = pending[1]
      /\ 1 \in DOMAIN pending /\ DOMAIN pending = 1 .. Len(pending)
      /\ DOMAIN pending' = 1 .. Len(pending) - 1
      /\ Len(pending) \in Nat \ {0}
      /\ \A i \in DOMAIN pending' : i + 1 \in DOMAIN pending /\ pending'[i] = pending[i + 1]
      /\ \A i \in DOMAIN pending : i # 1 => i - 1 \in DOMAIN pending'
                                            /\ pending'[i - 1] = pending[i]
  BY <1>1, Rest
<1>3. \A p \in Pids : Settled(p) => Settled(p)'
  BY <1>2 DEF Settled
<1>4. \A p \in Pids : p # e.pid /\ Settled(p)' => Settled(p)
  BY <1>2 DEF Settled
<1>5. ASSUME e.status = "exited"
      PROVE  Settled(e.pid)' /\ proc[e.pid] = "exited"
  <2>1. /\ proc[e.pid] = "exited" /\ report[e.pid] = "none"
        /\ \A k \in DOMAIN pending : k > 1 => pending[k].pid # e.pid
    BY <1>2, <1>5 DEF ExitsLast
  <2>2. \A i \in DOMAIN pending' : i + 1 > 1
    BY <1>2
  <2>3. \A i \in DOMAIN pending' : pending'[i].pid # e.pid
    BY <1>2, <2>1, <2>2
  <2> QED BY <2>1, <2>3 DEF Settled
<1>6. ~Settled(e.pid)
  BY <1>2 DEF Settled
<1>7. (\A i \in DOMAIN pending : i \in Nat) /\ \A i \in DOMAIN pending' : i \in Nat \ {0}
  BY <1>2
<1> QED BY SMTT(30), <1>2, <1>3, <1>4, <1>5, <1>6, <1>7

-----------------------------------------------------------------------------
(* What handle_tracked_event() does to the table.                          *)

\* The table after handle_tracked_event(): unchanged, or the job of the process is
\* stopped, continued, removed or has one process more that is done.
TableStep(e) ==
  \/ UNCHANGED jobs /\ \A j \in Numbers : e.pid \notin Members(j)
  \/ \E j \in Numbers :
       /\ e.pid \in Members(j)
       /\ \/ e.status = "stopped" /\ jobs' = [jobs EXCEPT ![j].state = "JOB_STOPPED"]
          \/ e.status = "continued" /\ jobs' = [jobs EXCEPT ![j].state = "JOB_RUNNING"]
          \/ /\ e.status = "exited" /\ jobs[j].done \cup {e.pid} = Members(j)
             /\ jobs' = Without(jobs, j)
          \/ /\ e.status = "exited" /\ jobs[j].done \cup {e.pid} # Members(j)
             /\ jobs' = [jobs EXCEPT ![j].done = jobs[j].done \cup {e.pid}]

\* The registry and the table after an event.
LEMMA HandleEffects ==
  ASSUME Types, NEW e \in Event, SetShell(handle_tracked_event(Shell, e))
  PROVE  out' = outreg_finalize(out, e.pid) /\ TableStep(e)
<1> DEFINE s1 == [out |-> outreg_finalize(out, e.pid), jobs |-> jobs, notif |-> notif]
           own == {j \in DOMAIN jobs : e.pid \in Range(jobs[j].pids)}
<1>1. [Shell EXCEPT !.out = outreg_finalize(@, e.pid)] = s1
  BY DEF Shell
<1>2. jobs_find_by_pid(Shell, e.pid) = own
  BY DEF jobs_find_by_pid, Shell
<1>3. handle_tracked_event(Shell, e) = IF own = {} THEN s1 ELSE JobEvent(s1, CHOOSE j \in own : TRUE, e)
  BY <1>1, <1>2 DEF handle_tracked_event
<1>4. CASE own = {}
  <2>1. out' = outreg_finalize(out, e.pid) /\ jobs' = jobs
    BY <1>3, <1>4 DEF SetShell
  <2>2. \A j \in Numbers : e.pid \notin Members(j)
    BY <1>4 DEF Numbers, Members
  <2> QED BY <2>1, <2>2 DEF TableStep
<1>5. CASE own # {}
  <2> DEFINE j == CHOOSE j \in own : TRUE
  <2>1. j \in own
    BY <1>5
  <2> HIDE DEF j
  <2>2. j \in Numbers /\ e.pid \in Members(j) /\ j \in DOMAIN jobs
    BY <2>1 DEF Numbers, Members
  <2>3. out' = JobEvent(s1, j, e).out /\ jobs' = JobEvent(s1, j, e).jobs
    BY <1>3, <1>5 DEF SetShell, j
  <2>4. CASE e.status = "stopped"
    <3>1. JobEvent(s1, j, e) = [s1 EXCEPT !.jobs[j].state = "JOB_STOPPED"]
      BY <2>4 DEF JobEvent
    <3>2. out' = outreg_finalize(out, e.pid) /\ jobs' = [jobs EXCEPT ![j].state = "JOB_STOPPED"]
      BY Zenon, <2>3, <3>1
    <3> QED BY Zenon, <3>2, <2>2, <2>4 DEF TableStep
  <2>5. CASE e.status = "continued"
    <3>1. JobEvent(s1, j, e) = [s1 EXCEPT !.jobs[j].state = "JOB_RUNNING"]
      BY <2>5 DEF JobEvent
    <3>2. out' = outreg_finalize(out, e.pid) /\ jobs' = [jobs EXCEPT ![j].state = "JOB_RUNNING"]
      BY Zenon, <2>3, <3>1
    <3> QED BY Zenon, <3>2, <2>2, <2>5 DEF TableStep
  <2>6. CASE e.status = "exited"
    <3> DEFINE done == jobs[j].done \cup {e.pid}
    <3>1. JobEvent(s1, j, e) = ProcessDone(s1, j, e.pid)
      BY <2>6 DEF JobEvent
    <3>2. AllDone(s1.jobs[j], s1.jobs[j].done \cup {e.pid}) <=> done = Members(j)
      BY DEF AllDone, Members
    <3>3. CASE done = Members(j)
      <4>1. ProcessDone(s1, j, e.pid).jobs = Without(jobs, j)
            /\ ProcessDone(s1, j, e.pid).out = outreg_finalize(out, e.pid)
        BY <3>2, <3>3 DEF ProcessDone
      <4> QED BY Zenon, <2>2, <2>3, <2>6, <3>1, <3>3, <4>1 DEF TableStep
    <3>4. CASE done # Members(j)
      <4>1. ProcessDone(s1, j, e.pid) = [s1 EXCEPT !.jobs[j].done = done]
        BY <3>2, <3>4 DEF ProcessDone
      <4>2. jobs' = [jobs EXCEPT ![j].done = done] /\ out' = outreg_finalize(out, e.pid)
        BY Zenon, <2>3, <3>1, <4>1
      <4> QED BY Zenon, <2>2, <2>6, <3>4, <4>2 DEF TableStep
    <3> QED BY <3>3, <3>4
  <2>7. e.status \in Events
    BY DEF Event
  <2> QED BY SMTT(30), <2>4, <2>5, <2>6, <2>7 DEF Events
<1> QED BY <1>4, <1>5

\* What an event leaves of the table: the jobs of other processes as they are, and of
\* the job of the process all but its state and its done processes.
LEMMA TableEffects ==
  ASSUME Types, NEW e \in Event, TableStep(e)
  PROVE  /\ DOMAIN jobs' \subseteq DOMAIN jobs /\ jobs' \in [DOMAIN jobs' -> JobType]
         /\ \A n \in DOMAIN jobs' : /\ jobs'[n].pids = jobs[n].pids /\ jobs'[n].pgid = jobs[n].pgid
                                    /\ \/ jobs'[n].done = jobs[n].done
                                       \/ /\ e.status = "exited" /\ e.pid \in Members(n)
                                          /\ jobs'[n].done = jobs[n].done \cup {e.pid}
         /\ \A n \in DOMAIN jobs : e.pid \notin Members(n) =>
              n \in DOMAIN jobs' /\ jobs'[n] = jobs[n]
         /\ \A n \in DOMAIN jobs : n \notin DOMAIN jobs' =>
              /\ e.status = "exited" /\ e.pid \in Members(n)
              /\ jobs[n].done \cup {e.pid} = Members(n)
<1>1. jobs \in [DOMAIN jobs -> JobType]
  BY DEF Types
<1>2. CASE UNCHANGED jobs
  BY <1>1, <1>2
<1>3. ASSUME NEW j \in Numbers, e.pid \in Members(j),
             NEW st \in {"JOB_RUNNING", "JOB_STOPPED"}, jobs' = [jobs EXCEPT ![j].state = st]
      PROVE  /\ DOMAIN jobs' = DOMAIN jobs /\ jobs' \in [DOMAIN jobs' -> JobType]
             /\ \A n \in DOMAIN jobs' : /\ jobs'[n].pids = jobs[n].pids
                                        /\ jobs'[n].pgid = jobs[n].pgid
                                        /\ jobs'[n].done = jobs[n].done
             /\ \A n \in DOMAIN jobs : n # j => jobs'[n] = jobs[n]
  BY ZenonT(30), <1>1, <1>3 DEF JobType, Numbers
<1>4. ASSUME NEW j \in Numbers, e.pid \in Members(j), e.status = "exited",
             jobs[j].done \cup {e.pid} = Members(j), jobs' = Without(jobs, j)
      PROVE  /\ DOMAIN jobs' = DOMAIN jobs \ {j} /\ jobs' \in [DOMAIN jobs' -> JobType]
             /\ \A n \in DOMAIN jobs' : jobs'[n] = jobs[n]
  BY <1>1, <1>4 DEF Without, Numbers
<1>5. ASSUME NEW j \in Numbers, e.pid \in Members(j), e.status = "exited",
             jobs' = [jobs EXCEPT ![j].done = jobs[j].done \cup {e.pid}]
      PROVE  /\ DOMAIN jobs' = DOMAIN jobs /\ jobs' \in [DOMAIN jobs' -> JobType]
             /\ \A n \in DOMAIN jobs' : /\ jobs'[n].pids = jobs[n].pids
                                        /\ jobs'[n].pgid = jobs[n].pgid
             /\ jobs'[j].done = jobs[j].done \cup {e.pid}
             /\ \A n \in DOMAIN jobs : n # j => jobs'[n] = jobs[n]
  <2>1. e.pid \in Pids
    BY DEF Event
  <2> QED BY ZenonT(30), <1>1, <1>5, <2>1 DEF JobType, Numbers
<1>6. CASE \E j \in Numbers : e.pid \in Members(j) /\
             (\/ e.status = "stopped" /\ jobs' = [jobs EXCEPT ![j].state = "JOB_STOPPED"]
              \/ e.status = "continued" /\ jobs' = [jobs EXCEPT ![j].state = "JOB_RUNNING"])
  <2>1. PICK j \in Numbers : e.pid \in Members(j) /\
             (\/ e.status = "stopped" /\ jobs' = [jobs EXCEPT ![j].state = "JOB_STOPPED"]
              \/ e.status = "continued" /\ jobs' = [jobs EXCEPT ![j].state = "JOB_RUNNING"])
    BY Zenon, <1>6
  <2>2. PICK st \in {"JOB_RUNNING", "JOB_STOPPED"} : jobs' = [jobs EXCEPT ![j].state = st]
    BY Zenon, <2>1
  <2> QED BY Zenon, <1>3, <2>1, <2>2
<1>7. CASE \E j \in Numbers : /\ e.pid \in Members(j) /\ e.status = "exited"
             /\ jobs[j].done \cup {e.pid} = Members(j) /\ jobs' = Without(jobs, j)
  BY Zenon, <1>4, <1>7
<1>8. CASE \E j \in Numbers : /\ e.pid \in Members(j) /\ e.status = "exited"
             /\ jobs' = [jobs EXCEPT ![j].done = jobs[j].done \cup {e.pid}]
  BY Zenon, <1>5, <1>8
<1> QED BY Zenon, <1>2, <1>6, <1>7, <1>8 DEF TableStep

-----------------------------------------------------------------------------
(* The kernel: exits, stops and continuations.                             *)

\* A child goes on as it is, or it changes its state and has that to report.
KernelStep ==
  /\ proc' \in [Pids -> {"none", "unborn", "running", "stopped", "exited"}]
  /\ report' \in [Pids -> Events \cup {"none"}]
  /\ \A p \in Pids :
       \/ proc'[p] = proc[p] /\ report'[p] = report[p]
       \/ /\ proc[p] \in {"running", "stopped"} /\ proc'[p] # "none"
          /\ report'[p] # "none" /\ report'[p] = StatusOf(p)'

\* A step of the shell that leaves the children alone.
LEMMA NothingHappens ==
  ASSUME Types, UNCHANGED <<proc, report>>
  PROVE  KernelStep
BY DEF KernelStep, Types

\* An exit or a stop.
LEMMA ChildEffects ==
  ASSUME Types, NEW q \in Pids, ChildExits(q) \/ ChildStops(q)
  PROVE  KernelStep
<1>1. CASE ChildExits(q)
  BY <1>1 DEF ChildExits, Alive, KernelStep, Types, StatusOf, Events
<1>2. CASE ChildStops(q)
  BY <1>2 DEF ChildStops, KernelStep, Types, StatusOf, Events
<1> QED BY <1>1, <1>2

\* SIGCONT, which every stopped member of the group has to report.
LEMMA ContinueEffects ==
  ASSUME Types, NEW g, Continue(g)
  PROVE  KernelStep /\ \A p \in Pids : pgrp[p] = g /\ proc[p] = "stopped" => report'[p] = "continued"
BY DEF Continue, KernelStep, Types, StatusOf, Events

\* Nobody is forked.
LEMMA NoneForked ==
  ASSUME \A p \in Pids : proc'[p] # "none" <=> proc[p] # "none"
  PROVE  Started' = Started /\ Forked' = Forked
<1>1. Started' = Started
  BY DEF Started
<1> QED BY <1>1 DEF Forked

\* What the change of its state does to a child.
LEMMA KernelEffects ==
  ASSUME Types, KernelStep, UNCHANGED pending
  PROVE  /\ Started' = Started /\ Forked' = Forked
         /\ \A p \in Pids : Settled(p)' => Settled(p) /\ proc'[p] = proc[p]
         /\ \A p \in Pids : proc[p] = "exited" =>
              proc'[p] = "exited" /\ report'[p] = report[p] /\ (Settled(p)' <=> Settled(p))
         /\ \A p \in Pids : report'[p] # "none" /\ report'[p] # report[p] => report'[p] = StatusOf(p)'
         /\ \A p \in Pids : proc'[p] # "none" <=> proc[p] # "none"
         /\ \A p \in Pids : report'[p] = "none" => report[p] = "none" /\ proc'[p] = proc[p]
<1>1. \A p \in Pids : proc'[p] # "none" <=> proc[p] # "none"
  BY DEF KernelStep
<1>2. Started' = Started /\ Forked' = Forked
  BY Zenon, <1>1, NoneForked
<1>3. \A p \in Pids : report'[p] = "none" => report[p] = "none" /\ proc'[p] = proc[p]
  BY DEF KernelStep
<1>4. \A p \in Pids : Settled(p)' => Settled(p) /\ proc'[p] = proc[p]
  BY <1>3 DEF Settled
<1>5. \A p \in Pids : proc[p] = "exited" => proc'[p] = "exited" /\ report'[p] = report[p]
  BY DEF KernelStep
<1>6. \A p \in Pids : proc[p] = "exited" => (Settled(p)' <=> Settled(p))
  BY <1>5 DEF Settled
<1>7. \A p \in Pids : report'[p] # "none" /\ report'[p] # report[p] => report'[p] = StatusOf(p)'
  BY Zenon DEF KernelStep
<1> QED BY Zenon, <1>1, <1>2, <1>3, <1>4, <1>5, <1>6, <1>7

-----------------------------------------------------------------------------
(* The invariant is kept, group of actions by group of actions.            *)

\* Where the shell is: launching, waiting, or neither.
SamePlace == (pc' = "launch" <=> pc = "launch") /\ (Waiting' <=> Waiting)

\* The entries of the table, but for their states.
SameTable ==
  /\ DOMAIN jobs' = DOMAIN jobs /\ jobs' \in [DOMAIN jobs -> JobType]
  /\ \A n \in DOMAIN jobs : /\ jobs'[n].pids = jobs[n].pids /\ jobs'[n].pgid = jobs[n].pgid
                            /\ jobs'[n].done = jobs[n].done

\* Steps that start no process, apply no event and neither begin nor end a wait.
Calm == /\ KernelStep /\ SameTable /\ SamePlace
        /\ UNCHANGED <<pgrp, out, pending, next_job_number, wait>>

\* The actions that are such steps.
CalmActions ==
  \/ UNCHANGED vars
  \/ Child \/ Interrupt \/ AlarmHandler \/ OtherCommand \/ EndOfFile
  \/ \E j \in Numbers : PingCont(j) \/ ResumeBg(j)
  \/ Prompt \/ ProcessingDone \/ WaitNone \/ Suspend

\* A step that leaves the table alone.
LEMMA UnchangedTable == ASSUME Types, UNCHANGED jobs PROVE SameTable
BY DEF SameTable, Types

\* resume sets the state of the job and nothing else.
LEMMA StateOfJob ==
  ASSUME Types, NEW j \in Numbers, jobs' = [jobs EXCEPT ![j].state = "JOB_RUNNING"]
  PROVE  SameTable /\ (\A n \in DOMAIN jobs : n # j => jobs'[n] = jobs[n])
         /\ jobs'[j].state = "JOB_RUNNING"
BY ZenonT(30) DEF SameTable, Types, JobType, Numbers

\* What these actions have in common.
LEMMA CalmEffects == ASSUME Types, CalmActions PROVE Calm
<1> USE DEF Calm, SamePlace, Waiting, osVars, tableVars
<1>1. CASE UNCHANGED vars
  BY ZenonT(30), <1>1, NothingHappens, UnchangedTable DEF vars
<1>2. ASSUME NEW p \in Pids, ChildExits(p) \/ ChildStops(p) PROVE Calm
  <2>1. KernelStep
    BY ZenonT(30), <1>2, ChildEffects
  <2>2. UNCHANGED <<pgrp, out, pending, tableVars, pc, wait>>
    BY ZenonT(30), <1>2 DEF ChildExits, ChildStops
  <2> QED BY ZenonT(30), <2>1, <2>2, UnchangedTable
<1>3. CASE Interrupt
  BY ZenonT(30), <1>3, NothingHappens, UnchangedTable DEF Interrupt
<1>4. CASE AlarmHandler
  BY ZenonT(30), <1>4, NothingHappens, UnchangedTable DEF AlarmHandler
<1>5. CASE OtherCommand \/ EndOfFile
  BY ZenonT(30), <1>5, NothingHappens, UnchangedTable DEF OtherCommand, EndOfFile
<1>6. ASSUME NEW j \in Numbers, PingCont(j) PROVE Calm
  BY ZenonT(30), <1>6, ContinueEffects, UnchangedTable DEF PingCont, Continue
<1>7. ASSUME NEW j \in Numbers, ResumeBg(j) PROVE Calm
  BY ZenonT(30), <1>7, ContinueEffects, StateOfJob DEF ResumeBg, Continue
<1>8. CASE Prompt \/ ProcessingDone
  BY ZenonT(30), <1>8, NothingHappens, UnchangedTable DEF Prompt, ProcessingDone
<1>9. CASE WaitNone \/ Suspend
  BY ZenonT(30), <1>9, NothingHappens, UnchangedTable DEF WaitNone, Suspend
<1> QED
  BY ZenonT(30), <1>1, <1>2, <1>3, <1>4, <1>5, <1>6, <1>7, <1>8, <1>9 DEF CalmActions, Child

\* The members of the jobs are the same as long as the table is.
LEMMA SameMembers ==
  ASSUME SameTable
  PROVE  Numbers' = Numbers /\ \A n \in Numbers : Range(jobs'[n].pids) = Members(n)
BY DEF SameTable, Numbers, Members

\* The processes of jobs and of the wait are children of the shell.
LEMMA MembersArePids ==
  ASSUME Types
  PROVE  /\ \A j \in Numbers : Members(j) \subseteq Pids /\ jobs[j].pids \in Seq(Pids)
         /\ Range(wait.pids) \subseteq Pids /\ wait.pids \in Seq(Pids)
         /\ wait.done \subseteq Pids
<1>1. \A j \in Numbers : jobs[j].pids \in Seq(Pids)
  BY DEF Types, JobType, Numbers
<1>2. wait.pids \in Seq(Pids) /\ wait.done \subseteq Pids
  BY DEF Types, WaitType
<1> QED BY <1>1, <1>2, Elements DEF Members

\* The queue holds events.
LEMMA PendingEvents ==
  ASSUME Types
  PROVE  \A i \in DOMAIN pending : pending[i] \in Event /\ pending[i].pid \in Pids
                                   /\ pending[i].status \in Events
<1>1. \A i \in DOMAIN pending : pending[i] \in Event
  BY DEF Types
<1>2. \A e \in Event : e.pid \in Pids /\ e.status \in Events
  BY DEF Event
<1> QED BY <1>1, <1>2

\* A quiet step keeps the invariant.
LEMMA CalmInv == ASSUME JobsInv, Calm PROVE JobsInv'
<1>0. /\ Types /\ Forks /\ Reports /\ ExitsLast /\ DoneSettled /\ Membership /\ WaitShape
      /\ KernelStep /\ SameTable /\ SamePlace
      /\ UNCHANGED <<pgrp, out, pending, next_job_number, wait>>
  BY Zenon DEF JobsInv, Calm
<1>1. /\ Started' = Started /\ Forked' = Forked
      /\ \A p \in Pids : proc[p] = "exited" =>
           proc'[p] = "exited" /\ report'[p] = report[p] /\ (Settled(p)' <=> Settled(p))
      /\ \A p \in Pids : report'[p] # "none" /\ report'[p] # report[p] => report'[p] = StatusOf(p)'
      /\ \A p \in Pids : proc'[p] # "none" <=> proc[p] # "none"
      /\ \A p \in Pids : Settled(p)' => Settled(p) /\ proc'[p] = proc[p]
  BY Zenon, <1>0, KernelEffects
<1>2. \A i \in DOMAIN pending : pending[i] \in Event /\ pending[i].pid \in Pids
  BY Zenon, <1>0, PendingEvents
<1>3. Numbers' = Numbers /\ \A n \in Numbers : Range(jobs'[n].pids) = Members(n)
  BY Zenon, <1>0, SameMembers
<1>4. /\ \A j \in Numbers : Members(j) \subseteq Pids
      /\ Range(wait.pids) \subseteq Pids /\ wait.done \subseteq Pids
  BY Zenon, <1>0, MembersArePids
<1>5. Types'
  BY ZenonT(30), <1>0 DEF Types, KernelStep, SameTable
<1>6. Forks'
  BY Zenon, <1>0, <1>1 DEF Forks, SamePlace
<1>7. Reports'
  <2>1. \A p \in Pids : report'[p] # "none" => report'[p] = StatusOf(p)'
    BY Zenon, <1>0 DEF KernelStep, Reports, StatusOf
  <2>2. \A i \in DOMAIN pending' : proc'[pending'[i].pid] # "none"
    BY Zenon, <1>0, <1>1, <1>2 DEF Reports
  <2> QED BY Zenon, <2>1, <2>2 DEF Reports
<1>8. ExitsLast'
  <2>1. ASSUME NEW i \in DOMAIN pending', pending'[i].status = "exited"
        PROVE  /\ proc'[pending'[i].pid] = "exited" /\ report'[pending'[i].pid] = "none"
               /\ \A k \in DOMAIN pending' : k > i => pending'[k].pid # pending'[i].pid
    <3>1. pending' = pending
      BY Zenon, <1>0
    <3>2. /\ i \in DOMAIN pending /\ pending'[i] = pending[i] /\ pending[i].pid \in Pids
          /\ proc[pending[i].pid] = "exited" /\ report[pending[i].pid] = "none"
          /\ \A k \in DOMAIN pending : k > i => pending[k].pid # pending[i].pid
      BY SMTT(30), <3>1, <2>1, <1>0, <1>2 DEF ExitsLast
    <3> QED BY <3>1, <3>2, <1>1
  <2> QED BY Zenon, <2>1 DEF ExitsLast
<1>9. DoneSettled'
  <2>1. \A p \in wait'.done : p \in Range(wait'.pids) /\ proc'[p] = "exited" /\ Settled(p)'
    BY Zenon, <1>0, <1>1, <1>4 DEF DoneSettled
  <2>2. ASSUME NEW j \in Numbers', NEW p \in jobs'[j].done
        PROVE  p \in Range(jobs'[j].pids) /\ proc'[p] = "exited" /\ Settled(p)'
    <3>1. j \in Numbers /\ jobs'[j].done = jobs[j].done
      BY Zenon, <1>0, <1>3 DEF SameTable, Numbers
    <3>2. p \in Members(j) /\ proc[p] = "exited" /\ Settled(p)
      BY Zenon, <1>0, <3>1 DEF DoneSettled
    <3> QED BY Zenon, <1>1, <1>3, <1>4, <3>1, <3>2
  <2> QED BY Zenon, <2>1, <2>2 DEF DoneSettled, Members
<1>10. Membership'
  <2>1. wait.job # None => jobs'[wait.job].pids = jobs[wait.job].pids
                           /\ jobs'[wait.job].pgid = jobs[wait.job].pgid
    BY Zenon, <1>0 DEF Membership, SameTable, Numbers
  <2>2. wait' = wait
    BY Zenon, <1>0
  <2>3. \A j \in Numbers' : \A p \in Range(jobs'[j].pids) : proc'[p] # "none"
    BY ZenonT(30), <1>0, <1>1, <1>3, <1>4 DEF Membership
  <2>4. \A j, n \in Numbers' : j # n => Range(jobs'[j].pids) \cap Range(jobs'[n].pids) = {}
    BY Zenon, <1>0, <1>3 DEF Membership
  <2>5. \A p \in Range(wait'.pids) : proc'[p] # "none"
    BY Zenon, <1>0, <1>1, <1>4, <2>2 DEF Membership
  <2>6. wait'.job = None => \A j \in Numbers' : Range(jobs'[j].pids) \cap Range(wait'.pids) = {}
    BY Zenon, <1>0, <1>3, <2>2 DEF Membership
  <2>7. wait'.job # None => /\ wait'.job \in Numbers'
                            /\ jobs'[wait'.job].pids = wait'.pids
                            /\ jobs'[wait'.job].pgid = wait'.pgid
    BY Zenon, <1>0, <1>3, <2>1, <2>2 DEF Membership
  <2> QED BY Zenon, <2>3, <2>4, <2>5, <2>6, <2>7 DEF Membership, Members
<1>11. WaitShape'
  BY ZenonT(30), <1>0 DEF WaitShape, SamePlace, Waiting
<1> QED BY ZenonT(30), <1>5, <1>6, <1>7, <1>8, <1>9, <1>10, <1>11 DEF JobsInv

\* What is reported tells of the state the child is in.
LEMMA StatusTells ==
  ASSUME NEW p
  PROVE  /\ StatusOf(p) = "exited" <=> proc[p] = "exited"
         /\ StatusOf(p) = "stopped" <=> proc[p] = "stopped"
         /\ StatusOf(p) = "continued" <=> proc[p] = "running"
         /\ StatusOf(p) # "none" => proc[p] # "none"
BY DEF StatusOf

\* The handler leaves the table, the wait and the registry alone.
LEMMA HandlerPlaces ==
  ASSUME SigchldHandler
  PROVE  SamePlace /\ UNCHANGED <<proc, pgrp, stops, out, tableVars, wait>>
BY DEF SigchldHandler, SamePlace, Waiting, Unblocked

\* jobs_sigchld_handler() keeps the invariant, whether or not the queue has room.
LEMMA HandlerInv == ASSUME JobsInv, SigchldHandler PROVE JobsInv'
<1>0. /\ Types /\ Forks /\ Reports /\ ExitsLast /\ DoneSettled /\ Membership /\ WaitShape
  BY Zenon DEF JobsInv
<1>1. /\ SamePlace /\ UNCHANGED <<proc, pgrp, out, jobs, next_job_number, wait>>
  BY Zenon, HandlerPlaces DEF tableVars
<1>2. /\ pending' \in Seq(Event) /\ report' = [p \in Pids |-> "none"]
      /\ \A i \in DOMAIN pending' :
           \/ i \in DOMAIN pending /\ pending'[i] = pending[i]
           \/ /\ \A n \in DOMAIN pending : n < i
              /\ report[pending'[i].pid] # "none"
              /\ pending'[i].status = report[pending'[i].pid]
              /\ \A k \in DOMAIN pending' : k > i => pending'[k].pid # pending'[i].pid
  BY Zenon, <1>0, HandlerEffects
<1>3. \A i \in DOMAIN pending' : pending'[i].pid \in Pids
  <2>1. \A i \in DOMAIN pending' : pending'[i] \in Event
    BY <1>2
  <2> QED BY <2>1 DEF Event
<1>4. Types'
  <2>1. report' \in [Pids -> Events \cup {"none"}]
    BY <1>2
  <2> QED BY ZenonT(30), <1>0, <1>1, <1>2, <2>1 DEF Types
<1>5. \A p \in Pids : Settled(p) => Settled(p)'
  BY Zenon, <1>2 DEF Settled
<1>6. Forks'
  <2>1. Started' = Started /\ Forked' = Forked
    BY Zenon, <1>1, NoneForked
  <2> QED BY Zenon, <1>0, <1>1, <2>1 DEF Forks, SamePlace
<1>7. Reports'
  <2>1. \A p \in Pids : report'[p] = "none"
    BY Zenon, <1>2
  <2>2. ASSUME NEW i \in DOMAIN pending' PROVE proc'[pending'[i].pid] # "none"
    BY Zenon, <1>0, <1>1, <1>2, <1>3, StatusTells DEF Reports
  <2> QED BY Zenon, <2>1, <2>2 DEF Reports
<1>8. ExitsLast'
  <2>1. ASSUME NEW i \in DOMAIN pending', pending'[i].status = "exited"
        PROVE  /\ proc'[pending'[i].pid] = "exited" /\ report'[pending'[i].pid] = "none"
               /\ \A k \in DOMAIN pending' : k > i => pending'[k].pid # pending'[i].pid
    <3>0. proc' = proc /\ report'[pending'[i].pid] = "none"
      BY Zenon, <1>1, <1>2, <1>3
    <3>1. CASE i \in DOMAIN pending /\ pending'[i] = pending[i]
      <4>1. /\ proc[pending[i].pid] = "exited" /\ report[pending[i].pid] = "none"
            /\ \A k \in DOMAIN pending : k > i => pending[k].pid # pending[i].pid
        BY Zenon, <1>0, <2>1, <3>1 DEF ExitsLast
      <4>2. ASSUME NEW k \in DOMAIN pending', k > i PROVE pending'[k].pid # pending'[i].pid
        BY ZenonT(30), <1>2, <3>1, <4>1, <4>2
      <4> QED BY Zenon, <3>0, <3>1, <4>1, <4>2
    <3>2. CASE ~(i \in DOMAIN pending /\ pending'[i] = pending[i])
      <4>1. /\ report[pending'[i].pid] = "exited"
            /\ \A k \in DOMAIN pending' : k > i => pending'[k].pid # pending'[i].pid
        BY Zenon, <1>2, <2>1, <3>2
      <4>2. StatusOf(pending'[i].pid) = "exited"
        <5>1. report[pending'[i].pid] # "none"
          BY <4>1
        <5> QED BY Zenon, <1>0, <1>3, <4>1, <5>1 DEF Reports
      <4>3. proc[pending'[i].pid] = "exited"
        BY Zenon, <4>2, StatusTells
      <4> QED BY Zenon, <3>0, <4>1, <4>3
    <3> QED BY Zenon, <3>1, <3>2
  <2> QED BY Zenon, <2>1 DEF ExitsLast
<1>9. DoneSettled'
  <2>1. /\ \A j \in Numbers : Members(j) \subseteq Pids
        /\ Range(wait.pids) \subseteq Pids
    BY Zenon, <1>0, MembersArePids
  <2>2. \A p \in wait'.done : p \in Range(wait'.pids) /\ proc'[p] = "exited" /\ Settled(p)'
    BY Zenon, <1>0, <1>1, <1>5, <2>1 DEF DoneSettled
  <2>3. \A j \in Numbers' : \A p \in jobs'[j].done :
          p \in Range(jobs'[j].pids) /\ proc'[p] = "exited" /\ Settled(p)'
    BY Zenon, <1>0, <1>1, <1>5, <2>1 DEF DoneSettled, Numbers, Members
  <2> QED BY Zenon, <2>2, <2>3 DEF DoneSettled, Members
<1>10. Membership'
  BY ZenonT(30), <1>0, <1>1 DEF Membership, Members, Numbers
<1>11. WaitShape'
  BY ZenonT(30), <1>0, <1>1 DEF WaitShape, SamePlace, Waiting
<1> QED BY Zenon, <1>4, <1>6, <1>7, <1>8, <1>9, <1>10, <1>11 DEF JobsInv

-----------------------------------------------------------------------------
(* Launching.                                                              *)

\* What a step leaves alone, when it is only about the launch or the wait.
SameWorld == UNCHANGED <<proc, pgrp, report, out, pending>>

\* Events and children are as they were.
LEMMA SameWorldInv ==
  ASSUME Types, Reports, ExitsLast, SameWorld
  PROVE  /\ Reports' /\ ExitsLast' /\ Started' = Started /\ Forked' = Forked
         /\ \A p \in Pids : Settled(p)' <=> Settled(p)
<1> USE DEF SameWorld
<1>1. Reports'
  BY Zenon DEF Reports, StatusOf
<1>2. ExitsLast'
  BY ZenonT(30) DEF ExitsLast
<1>3. Started' = Started /\ Forked' = Forked
  BY Zenon, NoneForked
<1>4. \A p \in Pids : Settled(p)' <=> Settled(p)
  BY Zenon DEF Settled
<1> QED BY Zenon, <1>1, <1>2, <1>3, <1>4

\* No job and no process: the locals at rest.
LEMMA AtRest ==
  /\ NoWait \in WaitType /\ NoWait.pids = <<>> /\ NoWait.done = {} /\ NoWait.job = None
  /\ ~NoWait.stopped /\ NoWait.stages = <<>> /\ Range(NoWait.pids) = {} /\ NoWait.first
  /\ NoWait.pgid = 0
<1>1. <<>> \in Seq(BOOLEAN) /\ <<>> \in Seq(Pids) /\ Range(<<>>) = {}
  BY DEF Range
<1>2. 0 \in 0 .. NPIDS
  BY JobsAssumption
<1> QED BY <1>1, <1>2 DEF NoWait, WaitType, None

\* A launch begins.
LEMMA LaunchInv ==
  ASSUME JobsInv, NEW ok \in Pipelines, NEW background \in BOOLEAN, NEW redirect \in Redirects,
         Launch(ok, background, redirect)
  PROVE  JobsInv'
<1>0. /\ Types /\ Forks /\ Reports /\ ExitsLast /\ DoneSettled /\ Membership /\ WaitShape
  BY Zenon DEF JobsInv
<1>1. /\ pc' = "launch" /\ SameWorld /\ UNCHANGED <<jobs, next_job_number>>
      /\ Forked + Len(ok) <= NPIDS
  BY DEF Launch, SameWorld, osVars, tableVars, Started
<1>2. /\ wait' \in WaitType /\ wait'.stages = ok /\ wait'.pids = <<>> /\ wait'.done = {}
      /\ wait'.job = None /\ ~wait'.stopped /\ Range(wait'.pids) = {}
  <2>1. ok \in Seq(BOOLEAN) /\ redirect \in BOOLEAN
    BY JobsAssumption
  <2>2. wait' = [NoWait EXCEPT !.stages = ok, !.background = background, !.redirect = redirect]
    BY DEF Launch
  <2>3. wait' \in WaitType
    BY Zenon, <2>1, <2>2, AtRest DEF WaitType
  <2>4. /\ wait'.stages = ok /\ wait'.pids = NoWait.pids /\ wait'.done = NoWait.done
        /\ wait'.job = NoWait.job /\ wait'.stopped = NoWait.stopped
    BY <2>2 DEF NoWait
  <2> QED BY Zenon, <2>3, <2>4, AtRest
<1>3. /\ Reports' /\ ExitsLast' /\ Started' = Started /\ Forked' = Forked
      /\ \A p \in Pids : Settled(p)' <=> Settled(p)
  BY Zenon, <1>0, <1>1, SameWorldInv
<1>4. Types'
  BY ZenonT(30), <1>0, <1>1, <1>2 DEF Types, SameWorld
<1>5. Forks'
  BY Zenon, <1>0, <1>1, <1>2, <1>3 DEF Forks
<1>6. DoneSettled'
  <2>1. \A j \in Numbers : Members(j) \subseteq Pids
    BY Zenon, <1>0, MembersArePids
  <2>2. \A j \in Numbers' : \A p \in jobs'[j].done :
          p \in Range(jobs'[j].pids) /\ proc'[p] = "exited" /\ Settled(p)'
    BY Zenon, <1>0, <1>1, <1>3, <2>1 DEF DoneSettled, Numbers, Members, SameWorld
  <2> QED BY Zenon, <1>2, <2>2 DEF DoneSettled, Members
<1>7. Membership'
  BY ZenonT(30), <1>0, <1>1, <1>2 DEF Membership, Members, Numbers, SameWorld
<1>8. WaitShape'
  BY Zenon, <1>1, <1>2 DEF WaitShape, Waiting
<1> QED BY Zenon, <1>3, <1>4, <1>5, <1>6, <1>7, <1>8 DEF JobsInv

\* The rest of a sequence is shorter by one.
LEMMA Shorter ==
  ASSUME NEW T, NEW s \in Seq(T), s # <<>>
  PROVE  Tail(s) \in Seq(T) /\ Len(Tail(s)) = Len(s) - 1 /\ Len(s) \in Nat \ {0} /\ Len(s) \in Nat
OBVIOUS

\* The number of children started.
LEMMA StartedCount == ASSUME Forks PROVE Forked \in Nat
BY JobsAssumption DEF Forks

\* It is told by the set of the children started.
LEMMA CountIs ==
  ASSUME NEW n \in 0 .. NPIDS
  PROVE  /\ Started = 1 .. n => Forked = n
         /\ Started' = 1 .. n => Forked' = n
<1>1. ASSUME NEW m \in 0 .. NPIDS, 1 .. n = 1 .. m PROVE m = n
  <2>1. m \in Nat /\ n \in Nat
    BY JobsAssumption
  <2>2. \A k \in Nat : k \in 1 .. n <=> k \in 1 .. m
    BY Zenon, <1>1
  <2>3. m <= n /\ n <= m
    BY <2>1, <2>2
  <2> QED BY <2>1, <2>3
<1>2. ASSUME NEW S, S = 1 .. n PROVE n = CHOOSE m \in 0 .. NPIDS : S = 1 .. m
  BY Zenon, <1>1, <1>2
<1> QED BY Zenon, <1>2 DEF Forked

\* A stage that cannot be started keeps the invariant.
LEMMA StageFailsInv == ASSUME JobsInv, StageFails PROVE JobsInv'
<1>0. /\ Types /\ Forks /\ Reports /\ ExitsLast /\ DoneSettled /\ Membership /\ WaitShape
  BY Zenon DEF JobsInv
<1>1. /\ pc = "launch" /\ pc' = pc /\ SameWorld /\ UNCHANGED <<jobs, next_job_number>>
      /\ wait.stages # <<>>
      /\ wait' = [wait EXCEPT !.stages = Tail(@), !.first = FALSE]
  BY Zenon DEF StageFails, SameWorld, osVars, tableVars
<1>2. wait \in WaitType /\ wait.stages \in Seq(BOOLEAN)
  BY <1>0 DEF Types, WaitType
<1>3. Tail(wait.stages) \in Seq(BOOLEAN) /\ Len(Tail(wait.stages)) = Len(wait.stages) - 1
      /\ Len(wait.stages) \in Nat
  BY Zenon, <1>1, <1>2, Shorter
<1>4. /\ wait' \in WaitType /\ wait'.stages = Tail(wait.stages) /\ wait'.pids = wait.pids
      /\ wait'.done = wait.done /\ wait'.job = wait.job /\ wait'.stopped = wait.stopped
      /\ wait'.pgid = wait.pgid
  BY Zenon, <1>1, <1>2, <1>3 DEF WaitType
<1>5. /\ Reports' /\ ExitsLast' /\ Started' = Started /\ Forked' = Forked
      /\ \A p \in Pids : Settled(p)' <=> Settled(p)
  BY Zenon, <1>0, <1>1, SameWorldInv
<1>6. Types'
  BY ZenonT(30), <1>0, <1>1, <1>4 DEF Types, SameWorld
<1>7. Forks'
  <2>1. Started' = 1 .. Forked' /\ Forked + Len(wait.stages) <= NPIDS
    BY Zenon, <1>0, <1>1, <1>5 DEF Forks
  <2>2. Forked \in Nat
    BY Zenon, <1>0, StartedCount
  <2>3. Forked + Len(wait'.stages) <= NPIDS
    BY <1>3, <1>4, <2>1, <2>2, JobsAssumption
  <2> QED BY Zenon, <1>0, <1>5, <2>1, <2>3 DEF Forks
<1>8. DoneSettled'
  <2>1. /\ \A j \in Numbers : Members(j) \subseteq Pids
        /\ Range(wait.pids) \subseteq Pids
    BY Zenon, <1>0, MembersArePids
  <2>2. \A p \in wait'.done : p \in Range(wait'.pids) /\ proc'[p] = "exited" /\ Settled(p)'
    BY Zenon, <1>0, <1>1, <1>4, <1>5, <2>1 DEF DoneSettled, SameWorld
  <2>3. \A j \in Numbers' : \A p \in jobs'[j].done :
          p \in Range(jobs'[j].pids) /\ proc'[p] = "exited" /\ Settled(p)'
    BY Zenon, <1>0, <1>1, <1>5, <2>1 DEF DoneSettled, Numbers, Members, SameWorld
  <2> QED BY Zenon, <2>2, <2>3 DEF DoneSettled, Members
<1>9. Membership'
  BY ZenonT(30), <1>0, <1>1, <1>4 DEF Membership, Members, Numbers, SameWorld
<1>10. WaitShape'
  BY Zenon, <1>0, <1>1, <1>4 DEF WaitShape, Waiting
<1> QED BY Zenon, <1>5, <1>6, <1>7, <1>8, <1>9, <1>10 DEF JobsInv

\* A stage is forked, whether or not fork() succeeds.
Born == {"running", "unborn"}
Forking == \E born \in Born : StageForks(born)

\* What the fork of a stage does: a new child, in a group, and nothing is known of it.
LEMMA StageEffects ==
  ASSUME Types, Forks, Reports, Forking
  PROVE  \E p \in Pids, born \in Born :
           /\ proc[p] = "none" /\ report[p] = "none" /\ Settled(p)
           /\ p = Forked + 1
           /\ proc' = [proc EXCEPT ![p] = born]
           /\ pgrp' = [pgrp EXCEPT ![p] = setpgid(p, IF wait.first THEN p ELSE wait.pgid)]
           /\ setpgid(p, IF wait.first THEN p ELSE wait.pgid) \in 0 .. NPIDS
           /\ out' = [out EXCEPT ![p] = IF wait.redirect THEN "used" ELSE "none"]
           /\ wait' \in WaitType /\ wait'.stages = Tail(wait.stages) /\ ~wait'.first
           /\ wait'.pgid = (IF wait.first THEN p ELSE wait.pgid)
           /\ wait'.pids = Append(wait.pids, p) /\ wait'.done = wait.done
           /\ wait'.job = wait.job /\ wait'.stopped = wait.stopped
           /\ Range(wait'.pids) = Range(wait.pids) \cup {p}
           /\ Len(wait'.stages) = Len(wait.stages) - 1 /\ Len(wait.stages) \in Nat
           /\ Started' = Started \cup {p} /\ Forked' = Forked + 1
<1> DEFINE p == Forked + 1
           g == IF wait.first THEN p ELSE wait.pgid
<1>0. PICK born \in Born : StageForks(born)
  BY Zenon DEF Forking
<1>1. /\ pc = "launch" /\ wait.stages # <<>>
      /\ proc' = [proc EXCEPT ![p] = born]
      /\ pgrp' = [pgrp EXCEPT ![p] = setpgid(p, g)]
      /\ out' = [out EXCEPT ![p] = IF wait.redirect THEN "used" ELSE "none"]
      /\ wait' = [wait EXCEPT !.stages = Tail(@), !.first = FALSE, !.pgid = g,
                              !.pids = Append(@, p)]
      /\ UNCHANGED <<report, pending>>
  BY Zenon, <1>0 DEF StageForks
<1>2. Forked \in Nat
  BY StartedCount
<1>3. wait \in WaitType /\ wait.stages \in Seq(BOOLEAN) /\ wait.pids \in Seq(Pids)
      /\ wait.pgid \in 0 .. NPIDS /\ wait.first \in BOOLEAN
  BY DEF Types, WaitType
<1>4. Tail(wait.stages) \in Seq(BOOLEAN) /\ Len(Tail(wait.stages)) = Len(wait.stages) - 1
      /\ Len(wait.stages) \in Nat \ {0}
  BY Zenon, <1>1, <1>3, Shorter
<1>5. p \in Pids
  <2>1. Forked + Len(wait.stages) <= NPIDS
    BY Zenon, <1>1 DEF Forks
  <2> QED BY SMTT(30), <1>2, <1>4, <2>1, JobsAssumption DEF Pids
<1>6. p \notin Started
  <2>1. Started = 1 .. Forked
    BY Zenon DEF Forks
  <2>2. p \notin 1 .. Forked
    BY <1>2
  <2> QED BY Zenon, <2>1, <2>2
<1>7. proc[p] = "none"
  BY Zenon, <1>5, <1>6 DEF Started
<1> HIDE DEF p
<1>8. report[p] = "none"
  BY Zenon, <1>5, <1>7, StatusTells DEF Reports
<1>9. Settled(p)
  BY Zenon, <1>7, <1>8 DEF Settled, Reports
<1>10. g \in 0 .. NPIDS /\ p \in 0 .. NPIDS /\ setpgid(p, g) \in 0 .. NPIDS
  <2>1. p \in 0 .. NPIDS /\ 0 \in 0 .. NPIDS
    BY <1>5, JobsAssumption DEF Pids
  <2>2. g \in 0 .. NPIDS
    BY Zenon, <1>3, <2>1
  <2> HIDE DEF g
  <2> QED BY Zenon, <2>1, <2>2 DEF setpgid, ShellGroup
<1> HIDE DEF g
<1>11. Append(wait.pids, p) \in Seq(Pids) /\ Range(Append(wait.pids, p)) = Range(wait.pids) \cup {p}
  BY Zenon, <1>3, <1>5, Elements
<1>12. /\ wait' \in WaitType /\ wait'.stages = Tail(wait.stages) /\ wait'.first = FALSE
       /\ wait'.pgid = g /\ wait'.pids = Append(wait.pids, p) /\ wait'.done = wait.done
       /\ wait'.job = wait.job /\ wait'.stopped = wait.stopped
  BY Zenon, <1>1, <1>3, <1>4, <1>10, <1>11 DEF WaitType
<1>13. Started' = Started \cup {p}
  <2>1. proc \in [Pids -> {"none", "unborn", "running", "stopped", "exited"}]
    BY Zenon DEF Types
  <2>2. \A q \in Pids : proc'[q] # "none" <=> (proc[q] # "none" \/ q = p)
    BY <1>0, <1>1, <1>5, <2>1 DEF Born
  <2> QED BY Zenon, <2>2, <1>5 DEF Started
<1>14. Forked' = Forked + 1
  <2>1. Started' = (1 .. Forked) \cup {Forked + 1}
    BY Zenon, <1>13 DEF Forks, p
  <2>2. Started' = 1 .. Forked + 1
    <3>1. 1 .. Forked + 1 = (1 .. Forked) \cup {Forked + 1}
      BY <1>2
    <3> QED BY Zenon, <2>1, <3>1
  <2>3. Forked + 1 \in 0 .. NPIDS
    BY <1>2, <1>5 DEF p, Pids
  <2> QED BY Zenon, <2>2, <2>3, CountIs
<1>15. p = Forked + 1 /\ g = IF wait.first THEN p ELSE wait.pgid
  BY Zenon DEF p, g
<1>16. Len(wait'.stages) = Len(wait.stages) - 1 /\ Len(wait.stages) \in Nat
  BY <1>4, <1>12
<1>17. Range(wait'.pids) = Range(wait.pids) \cup {p}
  BY Zenon, <1>11, <1>12
<1> USE <1>0, <1>5
<1> WITNESS p \in Pids, born \in Born
<1> QED
  BY ZenonT(30), <1>1, <1>7, <1>8, <1>9, <1>10, <1>12, <1>13, <1>14, <1>15, <1>16, <1>17

\* A stage that is forked keeps the invariant.
LEMMA ForkingInv == ASSUME JobsInv, Forking PROVE JobsInv'
<1>0. /\ Types /\ Forks /\ Reports /\ ExitsLast /\ DoneSettled /\ Membership /\ WaitShape
  BY Zenon DEF JobsInv
<1>1. PICK p \in Pids, born \in Born :
           /\ proc[p] = "none" /\ report[p] = "none" /\ Settled(p)
           /\ p = Forked + 1
           /\ proc' = [proc EXCEPT ![p] = born]
           /\ pgrp' = [pgrp EXCEPT ![p] = setpgid(p, IF wait.first THEN p ELSE wait.pgid)]
           /\ setpgid(p, IF wait.first THEN p ELSE wait.pgid) \in 0 .. NPIDS
           /\ out' = [out EXCEPT ![p] = IF wait.redirect THEN "used" ELSE "none"]
           /\ wait' \in WaitType /\ wait'.stages = Tail(wait.stages) /\ ~wait'.first
           /\ wait'.pgid = (IF wait.first THEN p ELSE wait.pgid)
           /\ wait'.pids = Append(wait.pids, p) /\ wait'.done = wait.done
           /\ wait'.job = wait.job /\ wait'.stopped = wait.stopped
           /\ Range(wait'.pids) = Range(wait.pids) \cup {p}
           /\ Len(wait'.stages) = Len(wait.stages) - 1 /\ Len(wait.stages) \in Nat
           /\ Started' = Started \cup {p} /\ Forked' = Forked + 1
  BY Zenon, <1>0, StageEffects
<1>2. /\ pc = "launch" /\ pc' = pc /\ UNCHANGED <<report, pending, jobs, next_job_number>>
  BY Zenon DEF Forking, StageForks, tableVars
<1>3. /\ proc \in [Pids -> {"none", "unborn", "running", "stopped", "exited"}]
      /\ out \in [Pids -> {"none", "used", "early", "whole"}] /\ pgrp \in [Pids -> 0 .. NPIDS]
  BY Zenon, <1>0 DEF Types
<1>4. /\ \A q \in Pids : q # p => proc'[q] = proc[q]
      /\ proc'[p] \in {"running", "unborn"}
      /\ \A q \in Pids : proc[q] # "none" => proc'[q] = proc[q]
      /\ proc' \in [Pids -> {"none", "unborn", "running", "stopped", "exited"}]
  BY <1>1, <1>3 DEF Born
<1>5. Types'
  <2>1. out' \in [Pids -> {"none", "used", "early", "whole"}]
    BY <1>1, <1>3
  <2>2. pgrp' \in [Pids -> 0 .. NPIDS]
    <3> DEFINE g == setpgid(p, IF wait.first THEN p ELSE wait.pgid)
    <3>1. g \in 0 .. NPIDS /\ pgrp' = [pgrp EXCEPT ![p] = g]
      BY Zenon, <1>1
    <3> HIDE DEF g
    <3> QED BY <3>1, <1>3
  <2>3. wait' \in WaitType
    BY Zenon, <1>1
  <2> QED BY ZenonT(30), <1>0, <1>2, <1>4, <2>1, <2>2, <2>3 DEF Types
<1>6. Forks'
  <2>1. Forked \in Nat
    BY Zenon, <1>0, StartedCount
  <2>2. Started = 1 .. Forked /\ Forked + Len(wait.stages) <= NPIDS
    BY Zenon, <1>0, <1>2 DEF Forks
  <2>3. Started' = 1 .. Forked + 1
    <3>1. 1 .. Forked + 1 = (1 .. Forked) \cup {Forked + 1}
      BY <2>1
    <3> QED BY Zenon, <1>1, <2>2, <3>1
  <2>4. Forked' + Len(wait'.stages) <= NPIDS
    <3>1. Forked' = Forked + 1 /\ Len(wait'.stages) = Len(wait.stages) - 1 /\ Len(wait.stages) \in Nat
      BY Zenon, <1>1
    <3>2. Forked + Len(wait.stages) <= NPIDS
      BY Zenon, <2>2
    <3>3. (Forked + 1) + (Len(wait.stages) - 1) <= NPIDS
      <4>1. \A a, b \in Nat : a + b <= NPIDS => (a + 1) + (b - 1) <= NPIDS
        BY JobsAssumption
      <4> QED BY Zenon, <2>1, <3>1, <3>2, <4>1
    <3> QED BY Zenon, <3>1, <3>3
  <2>5. Forked + 1 \in 0 .. NPIDS
    <3>1. Forked + 1 \in Pids
      BY Zenon, <1>1
    <3> QED BY <2>1, <3>1 DEF Pids
  <2> QED BY Zenon, <1>1, <2>3, <2>4, <2>5 DEF Forks
<1>7. \A i \in DOMAIN pending : pending[i].pid \in Pids /\ pending[i].pid # p
  BY Zenon, <1>0, <1>1, PendingEvents DEF Settled
<1>8. Reports'
  <2>1. \A q \in Pids : report'[q] # "none" => report'[q] = StatusOf(q)'
    <3>1. ASSUME NEW q \in Pids, report'[q] # "none" PROVE report'[q] = StatusOf(q)'
      <4>1. report'[q] = report[q] /\ report[q] # "none" /\ q # p
        BY Zenon, <3>1, <1>1, <1>2
      <4>2. proc'[q] = proc[q] /\ report[q] = StatusOf(q)
        BY Zenon, <4>1, <1>0, <1>4 DEF Reports
      <4>3. StatusOf(q)' = StatusOf(q)
        BY Zenon, <4>2 DEF StatusOf
      <4> QED BY Zenon, <4>1, <4>2, <4>3
    <3> QED BY Zenon, <3>1
  <2>2. \A i \in DOMAIN pending' : proc'[pending'[i].pid] # "none"
    BY Zenon, <1>0, <1>2, <1>4, <1>7 DEF Reports
  <2> QED BY Zenon, <2>1, <2>2 DEF Reports
<1>9. ExitsLast'
  BY ZenonT(30), <1>0, <1>2, <1>4, <1>7 DEF ExitsLast
<1>10. \A q \in Pids : Settled(q)' <=> Settled(q)
  BY Zenon, <1>2 DEF Settled
<1>11. DoneSettled'
  <2>1. /\ \A j \in Numbers : Members(j) \subseteq Pids
        /\ Range(wait.pids) \subseteq Pids
    BY Zenon, <1>0, MembersArePids
  <2>2. wait'.done = {}
    BY ZenonT(30), <1>0, <1>1, <1>2 DEF WaitShape
  <2>3. \A q \in Pids : proc[q] = "exited" => proc'[q] = "exited"
    BY <1>1, <1>4
  <2>4. \A j \in Numbers' : \A q \in jobs'[j].done :
          q \in Range(jobs'[j].pids) /\ proc'[q] = "exited" /\ Settled(q)'
    BY ZenonT(30), <1>0, <1>2, <1>10, <2>1, <2>3 DEF DoneSettled, Numbers, Members
  <2> QED BY Zenon, <2>2, <2>4 DEF DoneSettled, Members
<1>12. Membership'
  <2>1. /\ \A j \in Numbers : Members(j) \subseteq Pids
        /\ Range(wait.pids) \subseteq Pids
    BY Zenon, <1>0, MembersArePids
  <2>2. \A q \in Pids : proc[q] # "none" => proc'[q] # "none"
    BY Zenon, <1>4
  <2>3. wait.job = None /\ wait'.job = None
    BY Zenon, <1>0, <1>1, <1>2 DEF WaitShape
  <2>4. Numbers' = Numbers /\ \A j \in Numbers : Range(jobs'[j].pids) = Members(j)
    BY Zenon, <1>2 DEF Numbers, Members
  <2>5. \A j \in Numbers : p \notin Members(j)
    BY Zenon, <1>0, <1>1 DEF Membership
  <2>6. \A j \in Numbers' : \A q \in Range(jobs'[j].pids) : proc'[q] # "none"
    BY ZenonT(30), <1>0, <2>1, <2>2, <2>4 DEF Membership
  <2>7. \A j, n \in Numbers' : j # n => Range(jobs'[j].pids) \cap Range(jobs'[n].pids) = {}
    BY Zenon, <1>0, <2>4 DEF Membership
  <2>8. \A q \in Range(wait'.pids) : proc'[q] # "none"
    <3>1. proc'[p] # "none"
      BY <1>4
    <3> QED BY ZenonT(30), <1>0, <1>1, <2>1, <2>2, <3>1 DEF Membership
  <2>9. \A j \in Numbers' : Range(jobs'[j].pids) \cap Range(wait'.pids) = {}
    BY ZenonT(30), <1>0, <1>1, <2>3, <2>4, <2>5 DEF Membership
  <2> QED BY ZenonT(30), <2>3, <2>6, <2>7, <2>8, <2>9 DEF Membership, Members
<1>13. WaitShape'
  BY Zenon, <1>0, <1>1, <1>2 DEF WaitShape, Waiting
<1> QED BY ZenonT(30), <1>5, <1>6, <1>8, <1>9, <1>11, <1>12, <1>13 DEF JobsInv

\* The end of a launch or of a wait: the processes become a job, or belong to one
\* already, or are forgotten.
Leaving ==
  /\ wait' = NoWait /\ pc' \in {"top", "over"}
  /\ UNCHANGED <<proc, pgrp, report, pending>>
  /\ out' \in [Pids -> {"none", "used", "early", "whole"}]
  /\ next_job_number' \in {next_job_number, next_job_number + 1}
  /\ jobs' \in [DOMAIN jobs' -> JobType]
  /\ \A n \in DOMAIN jobs' :
       \/ /\ n \in DOMAIN jobs /\ jobs'[n].pids = jobs[n].pids
          /\ jobs'[n].pgid = jobs[n].pgid /\ jobs'[n].done = jobs[n].done
       \/ /\ n = next_job_number /\ next_job_number' = next_job_number + 1
          /\ wait.job = None /\ jobs'[n].pids = wait.pids /\ jobs'[n].pgid = wait.pgid
          /\ jobs'[n].done = {}

\* The end of a launch or of a wait keeps the invariant.
LEMMA LeavingInv == ASSUME JobsInv, Leaving PROVE JobsInv'
<1>0. /\ Types /\ Forks /\ Reports /\ ExitsLast /\ DoneSettled /\ Membership /\ WaitShape
  BY Zenon DEF JobsInv
<1>1. UNCHANGED <<proc, pgrp, report, pending>>
  BY Zenon DEF Leaving
<1>2. Reports'
  BY Zenon, <1>0, <1>1 DEF Reports, StatusOf
<1>3. ExitsLast'
  BY ZenonT(30), <1>0, <1>1 DEF ExitsLast
<1>4. Started' = Started /\ Forked' = Forked /\ \A p \in Pids : Settled(p)' <=> Settled(p)
  BY Zenon, <1>1, NoneForked DEF Settled
<1>5. wait' = NoWait /\ pc' # "launch" /\ ~Waiting'
  BY DEF Leaving, Waiting
<1>6. Forks'
  BY Zenon, <1>0, <1>4, <1>5 DEF Forks
<1>7. WaitShape'
  BY Zenon, <1>5, AtRest DEF WaitShape
<1>8. ASSUME NEW n \in DOMAIN jobs'
      PROVE  \/ /\ n \in Numbers /\ Range(jobs'[n].pids) = Members(n)
                /\ jobs'[n].done = jobs[n].done
             \/ /\ n = next_job_number /\ n \notin Numbers /\ next_job_number' = next_job_number + 1
                /\ wait.job = None /\ Range(jobs'[n].pids) = Range(wait.pids)
                /\ jobs'[n].done = {}
  <2>1. next_job_number \notin Numbers
    BY <1>0 DEF Types, Numbers
  <2> QED BY Zenon, <2>1 DEF Leaving, Members, Numbers
<1>9. Types'
  <2>1. next_job_number \in Nat \ {0} /\ \A j \in DOMAIN jobs : j \in Nat \ {0} /\ j < next_job_number
    BY Zenon, <1>0 DEF Types
  <2>2. next_job_number' \in Nat \ {0} /\ next_job_number <= next_job_number'
    BY <2>1 DEF Leaving
  <2>3. ASSUME NEW n \in DOMAIN jobs' PROVE n \in Nat \ {0} /\ n < next_job_number'
    <3>1. CASE n \in DOMAIN jobs
      BY <2>1, <2>2, <3>1
    <3>2. CASE n = next_job_number /\ next_job_number' = next_job_number + 1
      BY <2>1, <3>2
    <3> QED BY Zenon, <3>1, <3>2, <1>8 DEF Numbers
  <2> QED BY ZenonT(30), <1>0, <1>1, <1>5, <2>2, <2>3, AtRest DEF Types, Leaving
<1>10. DoneSettled'
  <2>1. \A j \in Numbers : Members(j) \subseteq Pids
    BY Zenon, <1>0, MembersArePids
  <2>2. ASSUME NEW n \in DOMAIN jobs', NEW p \in jobs'[n].done
        PROVE  p \in Range(jobs'[n].pids) /\ proc'[p] = "exited" /\ Settled(p)'
    <3>1. n \in Numbers /\ Range(jobs'[n].pids) = Members(n) /\ p \in jobs[n].done
      BY Zenon, <1>8
    <3> QED BY Zenon, <1>0, <1>1, <1>4, <2>1, <3>1 DEF DoneSettled
  <2> QED BY Zenon, <1>5, <2>2, AtRest DEF DoneSettled, Members, Numbers
<1>11. Membership'
  <2>1. ASSUME NEW n \in DOMAIN jobs', NEW p \in Range(jobs'[n].pids)
        PROVE  proc'[p] # "none"
    <3>1. CASE n \in Numbers /\ Range(jobs'[n].pids) = Members(n)
      BY ZenonT(30), <1>0, <1>1, <2>1, <3>1 DEF Membership
    <3>2. CASE Range(jobs'[n].pids) = Range(wait.pids)
      BY ZenonT(30), <1>0, <1>1, <2>1, <3>2 DEF Membership
    <3> QED BY Zenon, <1>8, <3>1, <3>2
  <2>2. ASSUME NEW j \in DOMAIN jobs', NEW n \in DOMAIN jobs', j # n
        PROVE  Range(jobs'[j].pids) \cap Range(jobs'[n].pids) = {}
    <3>0. /\ \A i, k \in Numbers : i # k => Members(i) \cap Members(k) = {}
          /\ wait.job = None => \A i \in Numbers : Members(i) \cap Range(wait.pids) = {}
      BY Zenon, <1>0 DEF Membership
    <3>1. CASE j \in Numbers /\ n \in Numbers
      BY Zenon, <1>8, <2>2, <3>0, <3>1
    <3>2. CASE j \in Numbers /\ n \notin Numbers
      <4>1. /\ Range(jobs'[j].pids) = Members(j) /\ Range(jobs'[n].pids) = Range(wait.pids)
            /\ wait.job = None
        BY Zenon, <1>8, <3>2
      <4> QED BY Zenon, <3>0, <3>2, <4>1
    <3>3. CASE j \notin Numbers /\ n \in Numbers
      <4>1. /\ Range(jobs'[n].pids) = Members(n) /\ Range(jobs'[j].pids) = Range(wait.pids)
            /\ wait.job = None
        BY Zenon, <1>8, <3>3
      <4>2. Members(n) \cap Range(wait.pids) = {}
        BY Zenon, <3>0, <3>3, <4>1
      <4> QED BY <4>1, <4>2
    <3>4. CASE j \notin Numbers /\ n \notin Numbers
      BY Zenon, <1>8, <2>2, <3>4
    <3> QED BY Zenon, <3>1, <3>2, <3>3, <3>4
  <2> QED BY Zenon, <1>5, <2>1, <2>2, AtRest DEF Membership, Members, Numbers
<1> QED BY ZenonT(30), <1>2, <1>3, <1>6, <1>7, <1>9, <1>10, <1>11 DEF JobsInv

\* jobs_register() keeps the entries there are, and the new one is of the processes
\* that were launched.
LEMMA Registered ==
  ASSUME Types, NEW background \in BOOLEAN, NEW st \in {"JOB_RUNNING", "JOB_STOPPED"},
         jobs_register(wait.pgid, wait.pids, background, st)
  PROVE  /\ next_job_number' \in {next_job_number, next_job_number + 1}
         /\ jobs' \in [DOMAIN jobs' -> JobType] /\ DOMAIN jobs \subseteq DOMAIN jobs'
         /\ \A n \in DOMAIN jobs' :
              \/ n \in DOMAIN jobs /\ jobs'[n] = jobs[n]
              \/ /\ n = next_job_number /\ next_job_number' = next_job_number + 1
                 /\ jobs'[n].pids = wait.pids /\ jobs'[n].pgid = wait.pgid
                 /\ jobs'[n].done = {} /\ jobs'[n].state = st
<1>1. /\ wait.pids \in Seq(Pids) /\ wait.pgid \in 0 .. NPIDS
      /\ jobs \in [DOMAIN jobs -> JobType] /\ next_job_number \notin DOMAIN jobs
  BY DEF Types, WaitType
<1>2. CASE UNCHANGED <<jobs, next_job_number>>
  BY Zenon, <1>1, <1>2
<1>3. CASE /\ jobs' = [n \in Numbers \cup {next_job_number} |->
                          IF n \in Numbers THEN jobs[n]
                          ELSE NewJob(wait.pgid, wait.pids, background, st)]
           /\ next_job_number' = next_job_number + 1
  <2> DEFINE new == NewJob(wait.pgid, wait.pids, background, st)
  <2>1. /\ new \in JobType /\ new.pids = wait.pids /\ new.pgid = wait.pgid /\ new.done = {}
        /\ new.state = st
    BY <1>1 DEF NewJob, JobType
  <2> HIDE DEF new
  <2>2. jobs' = [n \in DOMAIN jobs \cup {next_job_number} |-> IF n \in DOMAIN jobs THEN jobs[n] ELSE new]
    BY Zenon, <1>3 DEF new, Numbers
  <2>3. DOMAIN jobs' = DOMAIN jobs \cup {next_job_number}
    BY Zenon, <2>2
  <2>4. \A n \in DOMAIN jobs : jobs'[n] = jobs[n] /\ jobs[n] \in JobType
    BY <1>1, <2>2
  <2>5. jobs'[next_job_number] = new
    BY <1>1, <2>2
  <2>6. \A n \in DOMAIN jobs' : jobs'[n] \in JobType
    BY Zenon, <2>1, <2>3, <2>4, <2>5
  <2>7. jobs' = [n \in DOMAIN jobs' |-> jobs'[n]]
    BY <2>2
  <2>8. jobs' \in [DOMAIN jobs' -> JobType]
    BY <2>6, <2>7
  <2> QED BY ZenonT(30), <1>3, <2>1, <2>3, <2>4, <2>5, <2>8
<1> QED BY Zenon, <1>2, <1>3 DEF jobs_register

\* outreg_finalize() of one process and of several: an entry in use is finalized.
LEMMA Finalizes ==
  ASSUME Types
  PROVE  /\ \A ps : /\ FinalizeAll(out, ps) \in [Pids -> {"none", "used", "early", "whole"}]
                    /\ \A p \in Pids : FinalizeAll(out, ps)[p] = "used" => out[p] = "used"
         /\ \A q \in Pids : /\ outreg_finalize(out, q) \in [Pids -> {"none", "used", "early", "whole"}]
                            /\ outreg_finalize(out, q)[q] # "used"
                            /\ \A p \in Pids : outreg_finalize(out, q)[p] = "used" => out[p] = "used"
<1>1. out \in [Pids -> {"none", "used", "early", "whole"}]
  BY Zenon DEF Types
<1>2. \A q \in Pids : /\ outreg_finalize(out, q) \in [Pids -> {"none", "used", "early", "whole"}]
                      /\ outreg_finalize(out, q)[q] # "used"
                      /\ \A p \in Pids : outreg_finalize(out, q)[p] = "used" => out[p] = "used"
  BY <1>1 DEF outreg_finalize
<1>3. ASSUME NEW ps
      PROVE  /\ FinalizeAll(out, ps) \in [Pids -> {"none", "used", "early", "whole"}]
             /\ \A p \in Pids : FinalizeAll(out, ps)[p] = "used" => out[p] = "used"
  <2>1. \A p \in Pids : outreg_finalize(out, p)[p] \in {"none", "used", "early", "whole"}
    BY <1>2
  <2>2. \A p \in Pids : outreg_finalize(out, p)[p] # "used"
    BY Zenon, <1>2
  <2> QED BY SMTT(30), <1>1, <2>1, <2>2 DEF FinalizeAll
<1> QED BY Zenon, <1>2, <1>3

\* The table when the launch is over and nothing is waited for.
LaunchLeaves ==
  \/ wait.pids = <<>> /\ UNCHANGED <<jobs, next_job_number>>
  \/ wait.pids # <<>> /\ jobs_register(wait.pgid, wait.pids, TRUE, "JOB_RUNNING")

\* When all stages have been tried, the launch ends or the wait begins.
LEMMA LaunchedEffects ==
  ASSUME Launched
  PROVE  /\ pc = "launch" /\ SameWorld /\ wait.stages = <<>>
         /\ \/ pc' = "top" /\ wait' = NoWait /\ LaunchLeaves
            \/ pc' = "wait" /\ UNCHANGED <<wait, jobs, next_job_number>> /\ wait.pids # <<>>
BY ZenonT(30) DEF Launched, LaunchLeaves, SameWorld, osVars

\* The table and the registry when a wait is over.
LEMMA ReturnEffects ==
  ASSUME Types, WaitReturns
  PROVE  /\ Waiting /\ wait' = NoWait /\ pc' \in {"top", "over"}
         /\ UNCHANGED <<proc, pgrp, report, pending>>
         /\ WaitOver \/ timed_out
         /\ out' \in [Pids -> {"none", "used", "early", "whole"}]
         /\ \A p \in Pids : out'[p] = "used" => out[p] = "used"
         /\ \/ /\ wait.job = None /\ wait.stopped
               /\ jobs_register(wait.pgid, wait.pids, FALSE, "JOB_STOPPED")
            \/ wait.job = None /\ UNCHANGED <<jobs, next_job_number>>
            \/ /\ wait.job # None /\ wait.stopped /\ UNCHANGED next_job_number
               /\ jobs' = IF wait.job \in Numbers
                          THEN [jobs EXCEPT ![wait.job].state = "JOB_STOPPED"] ELSE jobs
            \/ /\ wait.job # None /\ ~wait.stopped /\ UNCHANGED next_job_number
               /\ jobs' = Without(jobs, wait.job)
<1>1. /\ UNCHANGED <<proc, pgrp, report, pending>> /\ wait' = NoWait /\ pc = "wait"
      /\ WaitOver \/ timed_out
  BY Zenon DEF WaitReturns, osVars, Aborted
<1>2. out \in [Pids -> {"none", "used", "early", "whole"}]
  BY Zenon DEF Types
<1>3. /\ pc' \in {"top", "over"}
      /\ out' = out \/ out' = FinalizeAll(out, wait.pids)
  <2>1. CASE AfterLaunch
    BY Zenon, <2>1 DEF AfterLaunch
  <2>2. CASE AfterResume
    BY <2>2 DEF AfterResume
  <2> QED BY Zenon, <2>1, <2>2 DEF WaitReturns
<1>4. \/ /\ wait.job = None /\ wait.stopped
         /\ jobs_register(wait.pgid, wait.pids, FALSE, "JOB_STOPPED")
      \/ wait.job = None /\ UNCHANGED <<jobs, next_job_number>>
      \/ /\ wait.job # None /\ wait.stopped /\ UNCHANGED next_job_number
         /\ jobs' = IF wait.job \in Numbers
                    THEN [jobs EXCEPT ![wait.job].state = "JOB_STOPPED"] ELSE jobs
      \/ /\ wait.job # None /\ ~wait.stopped /\ UNCHANGED next_job_number
         /\ jobs' = Without(jobs, wait.job)
  <2>1. CASE AfterLaunch
    BY Zenon, <2>1 DEF AfterLaunch
  <2>2. CASE AfterResume
    <3>1. CASE wait.stopped
      BY Zenon, <2>2, <3>1 DEF AfterResume
    <3>2. CASE ~wait.stopped
      BY Zenon, <2>2, <3>2 DEF AfterResume
    <3> QED BY Zenon, <3>1, <3>2
  <2> QED BY Zenon, <2>1, <2>2 DEF WaitReturns
<1>5. Waiting
  BY <1>1 DEF Waiting
<1>6. /\ out' \in [Pids -> {"none", "used", "early", "whole"}]
      /\ \A p \in Pids : out'[p] = "used" => out[p] = "used"
  <2>1. CASE out' = out
    BY Zenon, <1>2, <2>1
  <2>2. CASE out' = FinalizeAll(out, wait.pids)
    BY Zenon, <2>2, Finalizes
  <2> QED BY Zenon, <1>3, <2>1, <2>2
<1> QED BY ZenonT(30), <1>1, <1>3, <1>4, <1>5, <1>6

\* A launch that is not waited for ends.
LEMMA LaunchLeaving ==
  ASSUME Types, WaitShape, Launched, pc' # "wait"
  PROVE  Leaving
<1>1. pc = "launch" /\ SameWorld /\ pc' = "top" /\ wait' = NoWait /\ LaunchLeaves
  BY ZenonT(30), LaunchedEffects
<1>2. wait.job = None
  BY Zenon, <1>1 DEF WaitShape
<1>3. out' \in [Pids -> {"none", "used", "early", "whole"}] /\ pc' \in {"top", "over"}
  BY Zenon, <1>1 DEF SameWorld, Types
<1>4. CASE UNCHANGED <<jobs, next_job_number>>
  BY ZenonT(30), <1>1, <1>3, <1>4 DEF Leaving, SameWorld, Types
<1>5. CASE jobs_register(wait.pgid, wait.pids, TRUE, "JOB_RUNNING")
  <2>1. /\ next_job_number' \in {next_job_number, next_job_number + 1}
        /\ jobs' \in [DOMAIN jobs' -> JobType]
        /\ \A n \in DOMAIN jobs' :
             \/ n \in DOMAIN jobs /\ jobs'[n] = jobs[n]
             \/ /\ n = next_job_number /\ next_job_number' = next_job_number + 1
                /\ jobs'[n].pids = wait.pids /\ jobs'[n].pgid = wait.pgid
                /\ jobs'[n].done = {}
    BY Zenon, <1>5, Registered
  <2> QED BY ZenonT(30), <1>1, <1>2, <1>3, <2>1 DEF Leaving, SameWorld
<1> QED BY Zenon, <1>1, <1>4, <1>5 DEF LaunchLeaves

\* A wait ends.
LEMMA ReturnLeaving ==
  ASSUME Types, WaitReturns
  PROVE  Leaving
<1>1. /\ wait' = NoWait /\ pc' \in {"top", "over"}
      /\ UNCHANGED <<proc, pgrp, report, pending>>
      /\ out' \in [Pids -> {"none", "used", "early", "whole"}]
  BY Zenon, ReturnEffects
<1>2. jobs \in [DOMAIN jobs -> JobType]
  BY Zenon DEF Types
<1>3. CASE wait.job = None /\ wait.stopped /\ jobs_register(wait.pgid, wait.pids, FALSE, "JOB_STOPPED")
  <2>1. /\ next_job_number' \in {next_job_number, next_job_number + 1}
        /\ jobs' \in [DOMAIN jobs' -> JobType]
        /\ \A n \in DOMAIN jobs' :
             \/ n \in DOMAIN jobs /\ jobs'[n] = jobs[n]
             \/ /\ n = next_job_number /\ next_job_number' = next_job_number + 1
                /\ jobs'[n].pids = wait.pids /\ jobs'[n].pgid = wait.pgid
                /\ jobs'[n].done = {}
    BY Zenon, <1>3, Registered
  <2> QED BY ZenonT(30), <1>1, <1>3, <2>1 DEF Leaving
<1>4. CASE UNCHANGED <<jobs, next_job_number>>
  BY ZenonT(30), <1>1, <1>2, <1>4 DEF Leaving
<1>5. CASE wait.job \in Numbers /\ UNCHANGED next_job_number
           /\ jobs' = [jobs EXCEPT ![wait.job].state = "JOB_STOPPED"]
  <2>1. /\ jobs' \in [DOMAIN jobs' -> JobType]
        /\ \A n \in DOMAIN jobs' :
             /\ n \in DOMAIN jobs /\ jobs'[n].pids = jobs[n].pids
             /\ jobs'[n].pgid = jobs[n].pgid /\ jobs'[n].done = jobs[n].done
    BY ZenonT(30), <1>2, <1>5 DEF JobType, Numbers
  <2> QED BY ZenonT(30), <1>1, <1>5, <2>1 DEF Leaving
<1>6. CASE UNCHANGED next_job_number /\ jobs' = Without(jobs, wait.job)
  <2>1. /\ jobs' \in [DOMAIN jobs' -> JobType]
        /\ \A n \in DOMAIN jobs' : n \in DOMAIN jobs /\ jobs'[n] = jobs[n]
    BY <1>2, <1>6 DEF Without
  <2> QED BY ZenonT(30), <1>1, <1>6, <2>1 DEF Leaving
<1> QED BY ZenonT(30), <1>3, <1>4, <1>5, <1>6, ReturnEffects

\* The last step of launch_group() before the wait keeps the invariant.
LEMMA LaunchedInv == ASSUME JobsInv, Launched PROVE JobsInv'
<1>0. /\ Types /\ Forks /\ Reports /\ ExitsLast /\ DoneSettled /\ Membership /\ WaitShape
  BY Zenon DEF JobsInv
<1>1. CASE pc' # "wait"
  BY Zenon, <1>0, <1>1, LaunchLeaving, LeavingInv
<1>2. CASE pc' = "wait"
  <2>1. pc = "launch" /\ SameWorld /\ UNCHANGED <<wait, jobs, next_job_number>>
    <3>1. pc' # "top"
      BY <1>2
    <3> QED BY Zenon, <3>1, LaunchedEffects
  <2>2. /\ Reports' /\ ExitsLast' /\ Started' = Started /\ Forked' = Forked
        /\ \A p \in Pids : Settled(p)' <=> Settled(p)
    BY Zenon, <1>0, <2>1, SameWorldInv
  <2>3. Types'
    BY ZenonT(30), <1>0, <2>1 DEF Types, SameWorld
  <2>4. Forks'
    <3>1. pc' # "launch"
      BY <1>2
    <3> QED BY Zenon, <1>0, <2>2, <3>1 DEF Forks
  <2>5. DoneSettled'
    <3>1. /\ \A j \in Numbers : Members(j) \subseteq Pids
          /\ Range(wait.pids) \subseteq Pids
      BY Zenon, <1>0, MembersArePids
    <3>2. proc' = proc
      BY Zenon, <2>1 DEF SameWorld
    <3> QED BY ZenonT(30), <1>0, <2>1, <2>2, <3>1, <3>2 DEF DoneSettled, Members, Numbers
  <2>6. Membership'
    <3>1. proc' = proc
      BY Zenon, <2>1 DEF SameWorld
    <3> QED BY ZenonT(30), <1>0, <2>1, <3>1 DEF Membership, Members, Numbers
  <2>7. WaitShape'
    BY <1>0, <1>2, <2>1 DEF WaitShape
  <2> QED BY Zenon, <2>2, <2>3, <2>4, <2>5, <2>6, <2>7 DEF JobsInv
<1> QED BY Zenon, <1>1, <1>2

\* What run_resume() does before it waits.
LEMMA ResumeEffects ==
  ASSUME JobsInv, NEW j \in Numbers, NEW timeout \in Timeouts, ResumeFg(j, timeout)
  PROVE  /\ KernelStep /\ SameTable /\ pc = "idle" /\ pc' = "wait"
         /\ \A p \in Pids : pgrp[p] = jobs[j].pgid /\ proc[p] = "stopped" => report'[p] = "continued"
         /\ UNCHANGED <<pgrp, out, pending, next_job_number>>
         /\ \A n \in DOMAIN jobs : n # j => jobs'[n] = jobs[n]
         /\ wait = NoWait /\ wait' \in WaitType /\ wait'.pids = jobs[j].pids
         /\ wait'.pgid = jobs[j].pgid /\ wait'.job = j /\ wait'.done = {} /\ ~wait'.stopped
         /\ j # None
<1>0. /\ Types /\ WaitShape
  BY Zenon DEF JobsInv
<1>1. /\ pc = "idle" /\ pc' = "wait" /\ Continue(jobs[j].pgid)
      /\ jobs' = [jobs EXCEPT ![j].state = "JOB_RUNNING"]
      /\ UNCHANGED <<out, pending, next_job_number>>
      /\ wait' = [NoWait EXCEPT !.pids = jobs[j].pids, !.pgid = jobs[j].pgid, !.job = j,
                                !.alarm = timeout]
  BY Zenon DEF ResumeFg
<1>2. /\ KernelStep
      /\ \A p \in Pids : pgrp[p] = jobs[j].pgid /\ proc[p] = "stopped" => report'[p] = "continued"
  BY Zenon, <1>0, <1>1, ContinueEffects
<1>3. pgrp' = pgrp
  BY Zenon, <1>1 DEF Continue
<1>4. SameTable /\ \A n \in DOMAIN jobs : n # j => jobs'[n] = jobs[n]
  BY Zenon, <1>0, <1>1, StateOfJob
<1>5. wait = NoWait
  BY <1>0, <1>1 DEF WaitShape
<1>6. /\ jobs[j].pids \in Seq(Pids) /\ jobs[j].pgid \in 0 .. NPIDS /\ j \in Nat /\ j # None
      /\ timeout \in BOOLEAN
  <2>1. jobs[j] \in JobType /\ j \in Nat \ {0}
    BY <1>0 DEF Types, Numbers
  <2> QED BY <2>1, JobsAssumption DEF JobType, None
<1>7. /\ wait' \in WaitType /\ wait'.pids = jobs[j].pids
      /\ wait'.pgid = jobs[j].pgid /\ wait'.job = j /\ wait'.done = {} /\ ~wait'.stopped
  <2> DEFINE pp == jobs[j].pids
             gg == jobs[j].pgid
  <2>1. pp \in Seq(Pids) /\ gg \in 0 .. NPIDS
    BY Zenon, <1>6
  <2>2. wait' = [stages |-> <<>>, first |-> TRUE, background |-> FALSE, redirect |-> FALSE,
                 pids |-> pp, pgid |-> gg, done |-> {}, stopped |-> FALSE,
                 job |-> j, alarm |-> timeout]
    BY Zenon, <1>1 DEF NoWait
  <2> HIDE DEF pp, gg
  <2>3. /\ wait' \in WaitType /\ wait'.pids = pp
        /\ wait'.pgid = gg /\ wait'.job = j /\ wait'.done = {} /\ ~wait'.stopped
    BY <1>6, <2>1, <2>2 DEF WaitType
  <2> QED BY Zenon, <2>3 DEF pp, gg
<1> QED BY ZenonT(30), <1>1, <1>2, <1>3, <1>4, <1>5, <1>6, <1>7

\* run_resume() in the foreground keeps the invariant.
LEMMA ResumeFgInv ==
  ASSUME JobsInv, NEW j \in Numbers, NEW timeout \in Timeouts, ResumeFg(j, timeout)
  PROVE  JobsInv'
<1>0. /\ Types /\ Forks /\ Reports /\ ExitsLast /\ DoneSettled /\ Membership /\ WaitShape
  BY Zenon DEF JobsInv
<1>1. /\ KernelStep /\ SameTable /\ pc = "idle" /\ pc' = "wait"
      /\ UNCHANGED <<pgrp, out, pending, next_job_number>>
      /\ wait = NoWait /\ wait' \in WaitType /\ wait'.pids = jobs[j].pids
      /\ wait'.pgid = jobs[j].pgid /\ wait'.job = j /\ wait'.done = {} /\ ~wait'.stopped
      /\ j # None
  BY Zenon, ResumeEffects
<1>2. /\ Started' = Started /\ Forked' = Forked
      /\ \A p \in Pids : proc[p] = "exited" =>
           proc'[p] = "exited" /\ report'[p] = report[p] /\ (Settled(p)' <=> Settled(p))
      /\ \A p \in Pids : report'[p] # "none" /\ report'[p] # report[p] => report'[p] = StatusOf(p)'
      /\ \A p \in Pids : proc'[p] # "none" <=> proc[p] # "none"
      /\ \A p \in Pids : report'[p] = "none" => report[p] = "none" /\ proc'[p] = proc[p]
  BY Zenon, <1>0, <1>1, KernelEffects
<1>3. \A i \in DOMAIN pending : pending[i].pid \in Pids
  BY Zenon, <1>0, PendingEvents
<1>4. Types'
  <2>1. jobs' \in [DOMAIN jobs' -> JobType] /\ DOMAIN jobs' = DOMAIN jobs
    BY Zenon, <1>1 DEF SameTable
  <2> QED BY ZenonT(30), <1>0, <1>1, <2>1 DEF Types, KernelStep
<1>5. Forks'
  <2>1. pc' # "launch"
    BY <1>1
  <2> QED BY Zenon, <1>0, <1>2, <2>1 DEF Forks
<1>6. Reports'
  <2>1. ASSUME NEW p \in Pids, report'[p] # "none" PROVE report'[p] = StatusOf(p)'
    <3>1. CASE proc'[p] = proc[p] /\ report'[p] = report[p]
      BY Zenon, <1>0, <2>1, <3>1 DEF Reports, StatusOf
    <3>2. CASE report'[p] = StatusOf(p)'
      BY Zenon, <3>2
    <3> QED BY Zenon, <1>1, <3>1, <3>2 DEF KernelStep
  <2>2. \A i \in DOMAIN pending' : proc'[pending'[i].pid] # "none"
    BY ZenonT(30), <1>0, <1>1, <1>2, <1>3 DEF Reports
  <2> QED BY Zenon, <2>1, <2>2 DEF Reports
<1>7. ExitsLast'
  <2>1. ASSUME NEW i \in DOMAIN pending, pending[i].status = "exited"
        PROVE  /\ proc'[pending[i].pid] = "exited" /\ report'[pending[i].pid] = "none"
               /\ \A k \in DOMAIN pending : k > i => pending[k].pid # pending[i].pid
    BY ZenonT(30), <1>0, <1>2, <1>3, <2>1 DEF ExitsLast
  <2> QED BY Zenon, <1>1, <2>1 DEF ExitsLast
<1>8. /\ \A n \in Numbers : Members(n) \subseteq Pids
      /\ Numbers' = Numbers /\ \A n \in Numbers : Range(jobs'[n].pids) = Members(n)
  BY ZenonT(30), <1>0, <1>1, MembersArePids, SameMembers
<1>9. DoneSettled'
  <2>1. ASSUME NEW n \in Numbers, NEW p \in jobs'[n].done
        PROVE  p \in Range(jobs'[n].pids) /\ proc'[p] = "exited" /\ Settled(p)'
    <3>1. p \in jobs[n].done
      BY Zenon, <1>1, <2>1 DEF SameTable, Numbers
    <3> QED BY ZenonT(30), <1>0, <1>2, <1>8, <3>1 DEF DoneSettled
  <2> QED BY Zenon, <1>1, <1>8, <2>1 DEF DoneSettled, Members
<1>10. Membership'
  <2>1. /\ \A n \in Numbers' : \A p \in Range(jobs'[n].pids) : proc'[p] # "none"
        /\ \A m, n \in Numbers' : m # n => Range(jobs'[m].pids) \cap Range(jobs'[n].pids) = {}
    <3>1. /\ \A n \in Numbers : \A p \in Members(n) : proc[p] # "none"
          /\ \A m, n \in Numbers : m # n => Members(m) \cap Members(n) = {}
      BY Zenon, <1>0 DEF Membership
    <3>2. \A n \in Numbers' : \A p \in Range(jobs'[n].pids) : proc'[p] # "none"
      BY Zenon, <1>2, <1>8, <3>1
    <3>3. \A m, n \in Numbers' : m # n => Range(jobs'[m].pids) \cap Range(jobs'[n].pids) = {}
      BY Zenon, <1>8, <3>1
    <3> QED BY Zenon, <3>2, <3>3
  <2>2. \A p \in Range(wait'.pids) : proc'[p] # "none"
    BY ZenonT(30), <1>0, <1>1, <1>2, <1>8 DEF Membership, Members
  <2>3. j \in Numbers' /\ jobs'[j].pids = wait'.pids /\ jobs'[j].pgid = wait'.pgid
    BY Zenon, <1>1, <1>8 DEF SameTable, Numbers
  <2> QED BY ZenonT(30), <1>1, <2>1, <2>2, <2>3 DEF Membership, Members
<1>11. WaitShape'
  BY <1>1 DEF WaitShape
<1> QED BY Zenon, <1>4, <1>5, <1>6, <1>7, <1>9, <1>10, <1>11 DEF JobsInv

-----------------------------------------------------------------------------
(* The shell takes an event e from the queue.                              *)

\* The first event leaves the queue.
Take(e) == /\ pending # <<>> /\ e = Head(pending) /\ pending' = take_pending
           /\ UNCHANGED <<proc, pgrp, report, next_job_number, pc>>

\* The queue and the children when an event is taken.
LEMMA TakeInv ==
  ASSUME JobsInv, NEW e, Take(e)
  PROVE  /\ Reports' /\ ExitsLast' /\ Started' = Started /\ Forked' = Forked
         /\ pending' \in Seq(Event) /\ e \in Event /\ e.pid \in Pids /\ e.status \in Events
         /\ \A p \in Pids : Settled(p) => Settled(p)'
         /\ \A p \in Pids : p # e.pid => (Settled(p)' <=> Settled(p))
         /\ e.status = "exited" => Settled(e.pid)' /\ proc[e.pid] = "exited"
         /\ ~Settled(e.pid)
<1>0. /\ Types /\ Reports /\ ExitsLast
  BY Zenon DEF JobsInv
<1>1. /\ pending # <<>> /\ e = Head(pending) /\ pending' = take_pending
      /\ UNCHANGED <<proc, report>>
  BY Zenon DEF Take
<1>2. /\ pending' \in Seq(Event) /\ e \in Event
      /\ \A i \in DOMAIN pending' : i + 1 \in DOMAIN pending /\ pending'[i] = pending[i + 1]
      /\ \A i \in DOMAIN pending' : i \in Nat \ {0}
      /\ \A p \in Pids : Settled(p) => Settled(p)'
      /\ \A p \in Pids : p # e.pid => (Settled(p)' <=> Settled(p))
      /\ e.status = "exited" => Settled(e.pid)' /\ proc[e.pid] = "exited"
      /\ ~Settled(e.pid)
  BY ZenonT(30), <1>0, <1>1, TakeEffects
<1>3. e.pid \in Pids /\ e.status \in Events
  BY <1>2 DEF Event
<1>4. Started' = Started /\ Forked' = Forked
  BY Zenon, <1>1, NoneForked
<1>5. Reports'
  <2>1. \A p \in Pids : report'[p] # "none" => report'[p] = StatusOf(p)'
    BY Zenon, <1>0, <1>1 DEF Reports, StatusOf
  <2>2. \A i \in DOMAIN pending' : proc'[pending'[i].pid] # "none"
    BY Zenon, <1>0, <1>1, <1>2 DEF Reports
  <2> QED BY Zenon, <2>1, <2>2 DEF Reports
<1>6. ExitsLast'
  <2>1. \A i, k \in DOMAIN pending' : k > i => k + 1 > i + 1
    BY <1>2
  <2>2. ASSUME NEW i \in DOMAIN pending', pending'[i].status = "exited"
        PROVE  /\ proc[pending'[i].pid] = "exited" /\ report[pending'[i].pid] = "none"
               /\ \A k \in DOMAIN pending' : k > i => pending'[k].pid # pending'[i].pid
    <3>1. i + 1 \in DOMAIN pending /\ pending'[i] = pending[i + 1]
      BY Zenon, <1>2
    <3>2. /\ proc[pending'[i].pid] = "exited" /\ report[pending'[i].pid] = "none"
          /\ \A k \in DOMAIN pending : k > i + 1 => pending[k].pid # pending'[i].pid
      BY ZenonT(30), <1>0, <2>2, <3>1 DEF ExitsLast
    <3>3. ASSUME NEW k \in DOMAIN pending', k > i PROVE pending'[k].pid # pending'[i].pid
      BY Zenon, <1>2, <2>1, <3>2, <3>3
    <3> QED BY Zenon, <3>2, <3>3
  <2> QED BY Zenon, <1>1, <2>2 DEF ExitsLast
<1> QED BY Zenon, <1>2, <1>3, <1>4, <1>5, <1>6

\* handle_tracked_event() of an event that is not of a process waited for.
Tracked(e) == /\ Take(e) /\ pc # "launch"
              /\ e.pid \notin Range(wait.pids) \ wait.done
              /\ SetShell(handle_tracked_event(Shell, e)) /\ UNCHANGED wait

\* The event is of none of the processes waited for, done or not.
LEMMA TrackedEffects ==
  ASSUME JobsInv, NEW e, Tracked(e)
  PROVE  /\ e.pid \notin Range(wait.pids) /\ TableStep(e) /\ out' = outreg_finalize(out, e.pid)
         /\ wait.job # None => /\ wait.job \in Numbers /\ wait.job \in Numbers'
                               /\ jobs'[wait.job] = jobs[wait.job]
<1>0. Types /\ DoneSettled /\ Membership
  BY Zenon DEF JobsInv
<1>1. /\ Take(e) /\ e.pid \notin Range(wait.pids) \ wait.done
      /\ SetShell(handle_tracked_event(Shell, e)) /\ UNCHANGED wait
  BY Zenon DEF Tracked
<1>2. e \in Event /\ ~Settled(e.pid)
  BY Zenon, <1>1, TakeInv
<1>3. e.pid \notin Range(wait.pids)
  BY Zenon, <1>0, <1>1, <1>2 DEF DoneSettled
<1>4. out' = outreg_finalize(out, e.pid) /\ TableStep(e)
  BY Zenon, <1>0, <1>1, <1>2, HandleEffects
<1>5. \A n \in DOMAIN jobs : e.pid \notin Members(n) => n \in DOMAIN jobs' /\ jobs'[n] = jobs[n]
  BY Zenon, <1>0, <1>2, <1>4, TableEffects
<1>6. ASSUME wait.job # None
      PROVE  wait.job \in Numbers /\ wait.job \in Numbers' /\ jobs'[wait.job] = jobs[wait.job]
  <2>1. wait.job \in Numbers /\ jobs[wait.job].pids = wait.pids
    BY Zenon, <1>0, <1>6 DEF Membership
  <2>2. e.pid \notin Members(wait.job)
    BY Zenon, <1>3, <2>1 DEF Members
  <2> QED BY Zenon, <1>5, <2>1, <2>2 DEF Numbers
<1> QED BY Zenon, <1>3, <1>4, <1>6

\* handle_tracked_event() keeps the invariant.
LEMMA TrackedInv == ASSUME JobsInv, NEW e, Tracked(e) PROVE JobsInv'
<1>0. /\ Types /\ Forks /\ Reports /\ ExitsLast /\ DoneSettled /\ Membership /\ WaitShape
  BY Zenon DEF JobsInv
<1>1. Take(e) /\ UNCHANGED wait /\ UNCHANGED <<proc, pgrp, report, next_job_number, pc>>
  BY Zenon DEF Tracked, Take
<1>2. /\ Reports' /\ ExitsLast' /\ Started' = Started /\ Forked' = Forked
      /\ pending' \in Seq(Event) /\ e \in Event /\ e.pid \in Pids
      /\ \A p \in Pids : Settled(p) => Settled(p)'
      /\ e.status = "exited" => Settled(e.pid)' /\ proc[e.pid] = "exited"
  BY Zenon, <1>1, TakeInv
<1>3. /\ e.pid \notin Range(wait.pids) /\ TableStep(e) /\ out' = outreg_finalize(out, e.pid)
      /\ wait.job # None => /\ wait.job \in Numbers /\ wait.job \in Numbers'
                            /\ jobs'[wait.job] = jobs[wait.job]
  BY Zenon, TrackedEffects
<1>4. /\ DOMAIN jobs' \subseteq DOMAIN jobs /\ jobs' \in [DOMAIN jobs' -> JobType]
      /\ \A n \in DOMAIN jobs' : /\ jobs'[n].pids = jobs[n].pids
                                 /\ \/ jobs'[n].done = jobs[n].done
                                    \/ /\ e.status = "exited" /\ e.pid \in Members(n)
                                       /\ jobs'[n].done = jobs[n].done \cup {e.pid}
  BY Zenon, <1>0, <1>2, <1>3, TableEffects
<1>5. Types'
  <2>1. out' \in [Pids -> {"none", "used", "early", "whole"}]
    BY Zenon, <1>0, <1>2, <1>3, Finalizes
  <2>2. \A n \in DOMAIN jobs' : n \in Nat \ {0} /\ n < next_job_number
    BY Zenon, <1>0, <1>4 DEF Types
  <2> QED BY ZenonT(30), <1>0, <1>1, <1>2, <1>4, <2>1, <2>2 DEF Types
<1>6. Forks'
  BY Zenon, <1>0, <1>1, <1>2 DEF Forks
<1>7. /\ \A n \in Numbers : Members(n) \subseteq Pids
      /\ Range(wait.pids) \subseteq Pids
  BY Zenon, <1>0, MembersArePids
<1>8. \A n \in Numbers' : n \in Numbers /\ Range(jobs'[n].pids) = Members(n)
  BY Zenon, <1>4 DEF Numbers, Members
<1>9. DoneSettled'
  <2>1. ASSUME NEW n \in Numbers', NEW p \in jobs'[n].done
        PROVE  p \in Range(jobs'[n].pids) /\ proc'[p] = "exited" /\ Settled(p)'
    <3>1. n \in Numbers /\ Range(jobs'[n].pids) = Members(n) /\ proc' = proc
      BY Zenon, <1>1, <1>8
    <3>2. CASE p \in jobs[n].done
      BY Zenon, <1>0, <1>2, <1>7, <3>1, <3>2 DEF DoneSettled
    <3>3. CASE e.status = "exited" /\ e.pid \in Members(n) /\ p = e.pid
      BY Zenon, <1>2, <3>1, <3>3
    <3> QED BY Zenon, <1>4, <3>2, <3>3 DEF Numbers
  <2>2. \A p \in wait'.done : p \in Range(wait'.pids) /\ proc'[p] = "exited" /\ Settled(p)'
    BY Zenon, <1>0, <1>1, <1>2, <1>7 DEF DoneSettled
  <2> QED BY Zenon, <2>1, <2>2 DEF DoneSettled, Members
<1>10. Membership'
  <2>0. /\ \A j \in Numbers : \A p \in Members(j) : proc[p] # "none"
        /\ \A j, n \in Numbers : j # n => Members(j) \cap Members(n) = {}
        /\ \A p \in Range(wait.pids) : proc[p] # "none"
        /\ wait.job = None => \A j \in Numbers : Members(j) \cap Range(wait.pids) = {}
        /\ wait.job # None => jobs[wait.job].pids = wait.pids /\ jobs[wait.job].pgid = wait.pgid
    BY Zenon, <1>0 DEF Membership
  <2>1. \A n \in Numbers' : \A p \in Range(jobs'[n].pids) : proc'[p] # "none"
    BY Zenon, <1>1, <1>8, <2>0
  <2>2. \A j, n \in Numbers' : j # n => Range(jobs'[j].pids) \cap Range(jobs'[n].pids) = {}
    BY Zenon, <1>8, <2>0
  <2>3. wait'.job = None => \A j \in Numbers' : Range(jobs'[j].pids) \cap Range(wait'.pids) = {}
    BY Zenon, <1>1, <1>8, <2>0
  <2>4. wait'.job # None => /\ wait'.job \in Numbers' /\ jobs'[wait'.job].pids = wait'.pids
                            /\ jobs'[wait'.job].pgid = wait'.pgid
    BY Zenon, <1>1, <1>3, <2>0
  <2>5. \A p \in Range(wait'.pids) : proc'[p] # "none"
    BY Zenon, <1>1, <2>0
  <2> QED BY ZenonT(30), <2>1, <2>2, <2>3, <2>4, <2>5 DEF Membership, Members
<1>11. WaitShape'
  BY Zenon, <1>0, <1>1 DEF WaitShape
<1> QED BY ZenonT(30), <1>2, <1>5, <1>6, <1>9, <1>10, <1>11 DEF JobsInv

\* An event of a process waited for.
Counted(e) == /\ Take(e) /\ pc = "wait"
              /\ e.pid \in Range(wait.pids) \ wait.done
              /\ ~wait.stopped /\ OwnEvent(e) /\ UNCHANGED jobs

\* The locals of the wait and the registry after an event of its own.
LEMMA CountedEffects ==
  ASSUME Types, NEW e, e.status \in Events, e.pid \in Pids, OwnEvent(e)
  PROVE  /\ wait' \in WaitType /\ wait'.pids = wait.pids /\ wait'.pgid = wait.pgid
         /\ wait'.job = wait.job /\ wait'.stages = wait.stages /\ wait'.first = wait.first
         /\ out' \in [Pids -> {"none", "used", "early", "whole"}]
         /\ \A p \in Pids : out'[p] = "used" => out[p] = "used"
         /\ \/ /\ e.status = "stopped" /\ wait'.stopped /\ wait'.done = wait.done
            \/ /\ e.status = "continued" /\ wait'.stopped = wait.stopped
               /\ wait'.done = wait.done
            \/ /\ e.status = "exited" /\ wait'.stopped = wait.stopped
               /\ wait'.done = wait.done \cup {e.pid}
               /\ out' = outreg_finalize(out, e.pid)
<1>1. wait \in WaitType /\ out \in [Pids -> {"none", "used", "early", "whole"}]
  BY Zenon DEF Types
<1>2. CASE e.status = "stopped"
  <2>1. wait' = [wait EXCEPT !.stopped = TRUE] /\ out' = out
    BY <1>2 DEF OwnEvent
  <2> QED BY Zenon, <1>1, <1>2, <2>1 DEF WaitType
<1>3. CASE e.status = "continued"
  <2>1. wait' = wait /\ out' = out
    BY <1>3 DEF OwnEvent
  <2> QED BY <1>1, <1>3, <2>1
<1>4. CASE e.status = "exited"
  <2>1. wait' = [wait EXCEPT !.done = @ \cup {e.pid}] /\ out' = outreg_finalize(out, e.pid)
    BY <1>4 DEF OwnEvent
  <2>2. /\ wait' \in WaitType /\ wait'.pids = wait.pids /\ wait'.pgid = wait.pgid
        /\ wait'.job = wait.job /\ wait'.stages = wait.stages /\ wait'.first = wait.first
        /\ wait'.stopped = wait.stopped /\ wait'.done = wait.done \cup {e.pid}
    BY <1>1, <2>1 DEF WaitType
  <2>3. /\ out' \in [Pids -> {"none", "used", "early", "whole"}]
        /\ \A p \in Pids : out'[p] = "used" => out[p] = "used"
    BY Zenon, <2>1, Finalizes
  <2> QED BY Zenon, <1>4, <2>1, <2>2, <2>3
<1> QED BY SMTT(30), <1>2, <1>3, <1>4 DEF Events

\* An event of the wait's own keeps the invariant.
LEMMA CountedInv == ASSUME JobsInv, NEW e, Counted(e) PROVE JobsInv'
<1>0. /\ Types /\ Forks /\ Reports /\ ExitsLast /\ DoneSettled /\ Membership /\ WaitShape
  BY Zenon DEF JobsInv
<1>1. /\ Take(e) /\ e.pid \in Range(wait.pids) /\ e.pid \notin wait.done /\ ~wait.stopped
      /\ OwnEvent(e) /\ UNCHANGED jobs
      /\ UNCHANGED <<proc, pgrp, report, next_job_number, pc>>
  BY Zenon DEF Counted, Take
<1>2. /\ Reports' /\ ExitsLast' /\ Started' = Started /\ Forked' = Forked
      /\ pending' \in Seq(Event) /\ e \in Event /\ e.pid \in Pids /\ e.status \in Events
      /\ \A p \in Pids : Settled(p) => Settled(p)'
      /\ e.status = "exited" => Settled(e.pid)' /\ proc[e.pid] = "exited"
  BY Zenon, <1>1, TakeInv
<1>3. /\ wait' \in WaitType /\ wait'.pids = wait.pids /\ wait'.pgid = wait.pgid
      /\ wait'.job = wait.job /\ wait'.stages = wait.stages /\ wait'.first = wait.first
      /\ out' \in [Pids -> {"none", "used", "early", "whole"}]
      /\ \/ /\ e.status = "stopped" /\ wait'.stopped /\ wait'.done = wait.done
         \/ /\ e.status = "continued" /\ wait'.stopped = wait.stopped
            /\ wait'.done = wait.done
         \/ /\ e.status = "exited" /\ wait'.stopped = wait.stopped
            /\ wait'.done = wait.done \cup {e.pid}
  BY ZenonT(30), <1>0, <1>1, <1>2, CountedEffects
<1>4. Types'
  BY ZenonT(30), <1>0, <1>1, <1>2, <1>3 DEF Types
<1>5. Forks'
  BY ZenonT(30), <1>0, <1>1, <1>2, <1>3 DEF Forks
<1>6. /\ \A n \in Numbers : Members(n) \subseteq Pids
      /\ Range(wait.pids) \subseteq Pids
  BY Zenon, <1>0, MembersArePids
<1>7. DoneSettled'
  <2>1. ASSUME NEW p \in wait'.done
        PROVE  p \in Range(wait'.pids) /\ proc'[p] = "exited" /\ Settled(p)'
    <3>1. CASE p \in wait.done
      BY ZenonT(30), <1>0, <1>1, <1>2, <1>3, <1>6, <3>1 DEF DoneSettled
    <3>2. CASE p = e.pid /\ e.status = "exited"
      BY ZenonT(30), <1>1, <1>2, <1>3, <3>2
    <3> QED BY Zenon, <1>3, <3>1, <3>2
  <2>2. ASSUME NEW n \in Numbers', NEW p \in jobs'[n].done
        PROVE  p \in Range(jobs'[n].pids) /\ proc'[p] = "exited" /\ Settled(p)'
    <3>1. n \in Numbers /\ Range(jobs'[n].pids) = Members(n) /\ p \in jobs[n].done
      BY Zenon, <1>1, <2>2 DEF Numbers, Members
    <3> QED BY ZenonT(30), <1>0, <1>1, <1>2, <1>6, <3>1 DEF DoneSettled
  <2> QED BY Zenon, <2>1, <2>2 DEF DoneSettled, Members
<1>8. Membership'
  BY ZenonT(30), <1>0, <1>1, <1>3 DEF Membership, Members, Numbers
<1>9. WaitShape'
  <2>1. pc = "wait" /\ pc' = pc
    BY Zenon, <1>1 DEF Counted
  <2>2. wait'.stopped => wait'.done # Range(wait'.pids)
    BY Zenon, <1>1, <1>3
  <2> QED BY <2>1, <2>2 DEF WaitShape
<1> QED BY ZenonT(30), <1>2, <1>4, <1>5, <1>7, <1>8, <1>9 DEF JobsInv

-----------------------------------------------------------------------------
(* The steps of the shell, by what they do.                                *)

\* Every step is one of these.
Steps ==
  \/ CalmActions \/ SigchldHandler \/ StageFails \/ Forking \/ Launched \/ WaitReturns
  \/ \E ok \in Pipelines, background \in BOOLEAN, redirect \in Redirects :
       Launch(ok, background, redirect)
  \/ \E j \in Numbers : \E timeout \in Timeouts : ResumeFg(j, timeout)
  \/ \E e : Tracked(e) \/ Counted(e)

\* The two places that take an event from the queue.
LEMMA EventSteps ==
  ASSUME WaitShape, ProcessEvent \/ WaitEvent
  PROVE  \E e : Tracked(e) \/ Counted(e)
<1> DEFINE e == Head(pending)
<1>1. CASE ProcessEvent
  <2>1. Take(e) /\ pc # "launch"
    <3>1. Take(e) /\ pc = "eintr"
      BY Zenon, <1>1 DEF ProcessEvent, Take, osVars
    <3> QED BY <3>1
  <2>2. wait = NoWait
    BY SMTT(30), <1>1 DEF ProcessEvent, WaitShape
  <2>3. e.pid \notin Range(wait.pids) \ wait.done
    BY Zenon, <2>2, AtRest
  <2>4. SetShell(handle_tracked_event(Shell, e)) /\ UNCHANGED wait
    BY Zenon, <1>1 DEF ProcessEvent
  <2> QED BY Zenon, <2>1, <2>3, <2>4 DEF Tracked
<1>2. CASE WaitEvent
  <2>1. Take(e) /\ pc = "wait" /\ ~wait.stopped
    BY Zenon, <1>2 DEF WaitEvent, Take, osVars, WaitOver
  <2>2. CASE e.pid \in Range(wait.pids) \ wait.done
    <3>1. OwnEvent(e) /\ UNCHANGED jobs
      BY ZenonT(30), <1>2, <2>2 DEF WaitEvent
    <3> QED BY Zenon, <2>1, <2>2, <3>1 DEF Counted
  <2>3. CASE e.pid \notin Range(wait.pids) \ wait.done
    <3>1. OtherEvent(e)
      BY Zenon, <1>2, <2>3 DEF WaitEvent
    <3>2. pc # "launch"
      BY <2>1
    <3> QED BY ZenonT(30), <2>1, <2>3, <3>1, <3>2 DEF Tracked, OtherEvent
  <2> QED BY Zenon, <2>2, <2>3
<1> QED BY Zenon, <1>1, <1>2

\* Every step of Next is one of Steps.
LEMMA StepCases == ASSUME WaitShape, [Next]_vars PROVE Steps
<1>1. CASE UNCHANGED vars
  BY Zenon, <1>1 DEF Steps, CalmActions
<1>2. CASE Child \/ Interrupt \/ AlarmHandler \/ SigchldHandler
  BY Zenon, <1>2 DEF Steps, CalmActions
<1>3. CASE Command
  BY Zenon, <1>3 DEF Steps, CalmActions, Command
<1>4. CASE ShellStep
  <2>1. CASE ProcessEvent \/ WaitEvent
    BY ZenonT(30), <2>1, EventSteps DEF Steps
  <2>2. CASE StageStarts \/ ForkFails
    <3>1. "running" \in Born /\ "unborn" \in Born
      BY DEF Born
    <3> QED BY Zenon, <2>2, <3>1 DEF Steps, Forking, StageStarts, ForkFails
  <2>3. CASE ~(ProcessEvent \/ WaitEvent \/ StageStarts \/ ForkFails)
    BY ZenonT(30), <1>4, <2>3 DEF Steps, CalmActions, ShellStep
  <2> QED BY Zenon, <2>1, <2>2, <2>3
<1> QED BY ZenonT(30), <1>1, <1>2, <1>3, <1>4 DEF Next

\* The invariant holds at the start.
LEMMA InitInv == ASSUME Init PROVE JobsInv
<1>1. /\ proc = [p \in Pids |-> "none"] /\ pgrp = [p \in Pids |-> 0]
      /\ report = [p \in Pids |-> "none"] /\ out = [p \in Pids |-> "none"]
      /\ pending = <<>> /\ jobs = <<>> /\ next_job_number = 1 /\ pc = "top" /\ wait = NoWait
  BY Zenon DEF Init, ShellGroup
<1>2. DOMAIN jobs = {} /\ Numbers = {} /\ DOMAIN pending = {} /\ jobs \in [DOMAIN jobs -> JobType]
  BY SMTT(30), <1>1 DEF Numbers
<1>3. /\ proc \in [Pids -> {"none", "unborn", "running", "stopped", "exited"}]
      /\ pgrp \in [Pids -> 0 .. NPIDS]
      /\ report \in [Pids -> Events \cup {"none"}]
      /\ out \in [Pids -> {"none", "used", "early", "whole"}]
      /\ pending \in Seq(Event) /\ next_job_number \in Nat \ {0}
  BY <1>1, JobsAssumption
<1>4. Types
  BY ZenonT(30), <1>1, <1>2, <1>3, AtRest DEF Types
<1>5. Started = {} /\ Forked = 0
  <2>1. Started = {}
    BY <1>1 DEF Started
  <2>2. 0 \in 0 .. NPIDS /\ 1 .. 0 = {}
    BY JobsAssumption
  <2> QED BY Zenon, <2>1, <2>2, CountIs
<1>6. Forks
  <2>1. 1 .. 0 = {} /\ 0 \in 0 .. NPIDS /\ pc # "launch"
    BY <1>1, JobsAssumption
  <2> QED BY Zenon, <1>5, <2>1 DEF Forks
<1>7. Reports /\ ExitsLast
  BY Zenon, <1>1, <1>2 DEF Reports, ExitsLast
<1>8. DoneSettled /\ Membership
  BY ZenonT(30), <1>1, <1>2, AtRest DEF DoneSettled, Membership
<1>9. WaitShape
  BY Zenon, <1>1, AtRest DEF WaitShape
<1> QED BY ZenonT(30), <1>4, <1>6, <1>7, <1>8, <1>9 DEF JobsInv

\* Every step keeps the invariant.
LEMMA StepInv == ASSUME JobsInv, [Next]_vars PROVE JobsInv'
<1>1. Types /\ WaitShape
  BY Zenon DEF JobsInv
<1>2. CASE CalmActions
  BY ZenonT(30), <1>1, <1>2, CalmEffects, CalmInv
<1>3. CASE SigchldHandler
  BY Zenon, <1>3, HandlerInv
<1>4. CASE StageFails
  BY Zenon, <1>4, StageFailsInv
<1>5. CASE Forking
  BY Zenon, <1>5, ForkingInv
<1>6. CASE Launched
  BY Zenon, <1>6, LaunchedInv
<1>7. CASE WaitReturns
  BY Zenon, <1>1, <1>7, ReturnLeaving, LeavingInv
<1>8. CASE \E ok \in Pipelines, background \in BOOLEAN, redirect \in Redirects :
             Launch(ok, background, redirect)
  BY Zenon, <1>8, LaunchInv
<1>9. CASE \E j \in Numbers : \E timeout \in Timeouts : ResumeFg(j, timeout)
  BY Zenon, <1>9, ResumeFgInv
<1>10. CASE \E e : Tracked(e) \/ Counted(e)
  BY Zenon, <1>10, TrackedInv, CountedInv
<1>11. Steps
  BY Zenon, <1>1, StepCases
<1> QED BY ZenonT(30), <1>2, <1>3, <1>4, <1>5, <1>6, <1>7, <1>8, <1>9, <1>10, <1>11 DEF Steps

\* Whatever the children do and in whatever order their events are collected and applied,
\* the job table, the wait, the queue and the kernel agree on which processes are done.
THEOREM JobsSafe == Spec => []JobsInv
<1>1. Init => JobsInv
  BY Zenon, InitInv
<1>2. JobsInv /\ [Next]_vars => JobsInv'
  BY Zenon, StepInv
<1> QED BY <1>1, <1>2, PTL DEF Spec

\* The handler collects an exit once, as the last event of its process, and neither the
\* job table nor the foreground wait has applied it yet.
THEOREM ExitCollectedOnce == Spec => []ExitIsLast
<1>1. JobsInv => ExitIsLast
  <2> SUFFICES ASSUME JobsInv, NEW i \in DOMAIN pending, pending[i].status = "exited"
               PROVE  /\ proc[pending[i].pid] = "exited" /\ report[pending[i].pid] = "none"
                      /\ \A k \in DOMAIN pending : k > i => pending[k].pid # pending[i].pid
                      /\ pending[i].pid \notin wait.done
                      /\ \A j \in Numbers : pending[i].pid \notin jobs[j].done
    BY Zenon DEF ExitIsLast
  <2>1. ~Settled(pending[i].pid)
    BY Zenon DEF Settled
  <2>2. DoneSettled /\ ExitsLast
    BY Zenon DEF JobsInv
  <2> QED BY Zenon, <2>1, <2>2 DEF DoneSettled, ExitsLast
<1> QED BY <1>1, JobsSafe, PTL

\* A process is taken for done, by the job table or by the foreground wait, only when it
\* has exited.
THEOREM DoneOnlyWhenExited == Spec => []DoneHasExited
<1>1. JobsInv => DoneHasExited
  BY Zenon DEF JobsInv, DoneSettled, DoneHasExited
<1> QED BY <1>1, JobsSafe, PTL

=============================================================================
