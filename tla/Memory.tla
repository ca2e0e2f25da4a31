------------------------------- MODULE Memory -------------------------------
(***************************************************************************)
(* The memory of processes: kernel/exec.c, and what fork, exit, wait,      *)
(* sbrk, page faults and the copying of system calls do with page tables   *)
(* (kernel/proc.c, kernel/sysproc.c, kernel/sysfile.c, kernel/syscall.c,   *)
(* kernel/trap.c).  A page table is used by one process at a time, and     *)
(* what others do in the middle of a call can only leave more or fewer     *)
(* free pages; a call is therefore one step, and pipes, which take a page  *)
(* each, make the free pages more or fewer.                                *)
(***************************************************************************)
EXTENDS PageTables

CONSTANTS
  NPROC,
  USERSTACK, MAXARG,
  WORD,              (* 2^64, in which the end of a segment may wrap *)
  Programs,          (* the executable files                         *)
  Growth,            (* bound: the arguments of sbrk,                *)
  Addresses,         (*   the addresses that processes use,          *)
  ArgLists,          (*   the address and the lengths of the strings *)
                     (*   given to exec                              *)
  MAX_CALLS, MAX_PIPES

Proc == 1 .. NPROC
init == 1
NoProc == [tf |-> 0, pt |-> 0, sz |-> 0]

\* The contents that a store, a system call, and the arguments of a program put in a
\* page.
Stored == 1
Read == 2
Args == 3

VARIABLES
  free, tab, data,   \* the machine of PageTables
  proc,              \* p->trapframe, p->pagetable, p->sz
  state, parent,     \* of a process
  pipes,             \* the pages of pipes
  calls, panicked

vars == <<free, tab, data, proc, state, parent, pipes, calls, panicked>>

\* A machine, with the processes.
Machine ==
  [free |-> free, tab |-> tab, data |-> data, proc |-> proc, ret |-> 0, panic |-> panicked]

\* All pages are free.
kinit ==
  [free |-> [pa \in Page |-> 1], tab |-> [pa \in Page |-> JunkTable],
   data |-> [pa \in Page |-> Junk], proc |-> [p \in Proc |-> NoProc], ret |-> 0, panic |-> "no"]

-----------------------------------------------------------------------------
\* The mapping of the trapframe has succeeded, or not.
TrapframeMapped(m, t) ==
  IF m.ret = -1 THEN Return(uvmfree(uvmunmap(m, t, TRAMPOLINE, 1, FALSE), t, 0), 0)
  ELSE Return(m, t)

TrampolineMapped(m, p, t) ==
  IF m.ret = -1 THEN Return(uvmfree(m, t, 0), 0)
  ELSE TrapframeMapped(mappages(m, t, TRAPFRAME, m.proc[p].tf, {R, W}), t)

NewPagetable(m, p) ==
  IF m.ret = 0 THEN m
  ELSE TrampolineMapped(mappages(m, m.ret, TRAMPOLINE, trampoline, {R, X}), p, m.ret)

proc_pagetable(m, p) == NewPagetable(uvmcreate(m), p)

proc_freepagetable(m, t, sz) ==
  uvmfree(uvmunmap(uvmunmap(m, t, TRAMPOLINE, 1, FALSE), t, TRAPFRAME, 1, FALSE), t, sz)

WithoutTrapframe(m, p) == IF m.proc[p].tf = 0 THEN m ELSE kfree(m, m.proc[p].tf)

freeproc(m, p) ==
  LET f == WithoutTrapframe(m, p)
  IN [IF m.proc[p].pt = 0 THEN f ELSE proc_freepagetable(f, m.proc[p].pt, m.proc[p].sz)
      EXCEPT !.proc[p] = NoProc]

TableMade(m, p) ==
  IF m.ret = 0 THEN Return(freeproc(m, p), 0) ELSE [m EXCEPT !.proc[p].pt = m.ret]

TrapframeMade(m, p) ==
  IF m.ret = 0 THEN Return(freeproc(m, p), 0)
  ELSE TableMade(proc_pagetable([m EXCEPT !.proc[p].tf = m.ret], p), p)

\* Returns 0 when there is no memory.
allocproc(m, p) == TrapframeMade(kalloc(m), p)

\* kfork(), after its uvmcopy().
ForkCopied(m, p, q) ==
  IF m.ret = -1 THEN Return(freeproc(m, q), -1)
  ELSE [m EXCEPT !.proc[q].sz = m.proc[p].sz, !.ret = q]

ForkAllocated(m, p, q) ==
  IF m.ret = 0 THEN Return(m, -1)
  ELSE ForkCopied(uvmcopy(m, m.proc[p].pt, m.proc[q].pt, m.proc[p].sz), p, q)

kfork(m, p, q) == ForkAllocated(allocproc(m, q), p, q)

Grown(m, p) == IF m.ret = 0 THEN Return(m, -1) ELSE [m EXCEPT !.proc[p].sz = m.ret, !.ret = 0]

\* A size is unsigned: what is below 0 is larger than any size.
growproc(m, p, n) ==
  LET sz == m.proc[p].sz
  IN IF n > 0
     THEN IF sz + n > TRAPFRAME * PGSIZE THEN Return(m, -1)
          ELSE Grown(uvmalloc(m, m.proc[p].pt, sz, sz + n, {W}), p)
     ELSE IF n < 0 /\ sz + n >= 0
     THEN [uvmdealloc(m, m.proc[p].pt, sz, sz + n) EXCEPT !.proc[p].sz = sz + n, !.ret = 0]
     ELSE Return(m, 0)

sys_sbrk(m, p, n, lazy) ==
  IF ~lazy \/ n < 0 THEN growproc(m, p, n)
  ELSE IF m.proc[p].sz + n > TRAPFRAME * PGSIZE THEN Return(m, -1)
  ELSE [m EXCEPT !.proc[p].sz = @ + n, !.ret = 0]

-----------------------------------------------------------------------------
\* exec.c.  While a program is loaded, the machine comes with the size so far and
\* whether kexec() is at `bad'.

Bad(s) == [s EXCEPT !.bad = TRUE]

loadseg(m, t, g) ==
  FoldLeft(LAMBDA s, a : IF walkaddr(s, t, a) = 0 THEN panic(s, "loadseg")
                         ELSE [s EXCEPT !.data[walkaddr(s, t, a)] = g.contents],
           Return(m, IF g.short THEN -1 ELSE 0), Span(g.vaddr, g.filesz))

Loaded(s, t, g) ==
  IF s.m.ret = 0 THEN Bad(s)
  ELSE LET l == loadseg(s.m, t, g) IN [m |-> l, sz |-> s.m.ret, bad |-> l.ret = -1]

\* One program header.
Segment(s, t, g) ==
  LET end == (g.vaddr + g.memsz) % WORD
  IN IF s.bad \/ ~g.load THEN s
     ELSE IF g.memsz < g.filesz \/ end < g.vaddr \/ g.vaddr % PGSIZE # 0 THEN Bad(s)
     ELSE Loaded([s EXCEPT !.m = uvmalloc(s.m, t, s.sz, end, g.perm)], t, g)

\* Room for n bytes below sp, filled with arguments.
Push(s, t, n) ==
  IF s.bad \/ s.sp - n < s.sz - USERSTACK * PGSIZE THEN Bad(s)
  ELSE LET c == copyout(s.m, t, s.sz, s.sp - n, n, Args)
       IN [s EXCEPT !.m = c, !.sp = s.sp - n, !.bad = c.ret = -1]

\* The strings, and then their addresses.
Arguments(s, t, args) ==
  FoldLeft(LAMBDA r, n : Push(r, t, n), s, Append(args, Len(args) + 1))

\* The stack has been allocated, or not.
StackMade(m, sz, t, args) ==
  IF m.ret = 0 THEN [m |-> m, sz |-> sz, sp |-> 0, bad |-> TRUE]
  ELSE Arguments([m |-> uvmclear(m, t, Down(m.ret) - (USERSTACK + 1)), sz |-> m.ret, sp |-> m.ret,
                  bad |-> FALSE], t, args)

Stack(s, t, args) ==
  IF s.bad THEN s
  ELSE StackMade(uvmalloc(s.m, t, Up(s.sz) * PGSIZE, (Up(s.sz) + USERSTACK + 1) * PGSIZE, {W}),
                 Up(s.sz) * PGSIZE, t, args)

\* Faulty variant: the pages of a program that cannot be started are forgotten.
Commit_Leak(s, p, t, argc) ==
  IF s.bad THEN Return(s.m, -1)
  ELSE Return(proc_freepagetable([s.m EXCEPT !.proc[p].pt = t, !.proc[p].sz = s.sz],
                                 s.m.proc[p].pt, s.m.proc[p].sz), argc)

\* The program takes the place of the old one, or its memory is given back.
Commit(s, p, t, argc) ==
  IF s.bad THEN Return(proc_freepagetable(s.m, t, s.sz), -1)
  ELSE Return(proc_freepagetable([s.m EXCEPT !.proc[p].pt = t, !.proc[p].sz = s.sz],
                                 s.m.proc[p].pt, s.m.proc[p].sz), argc)

Load(m, t, p, prog, args) ==
  IF t = 0 THEN Return(m, -1)
  ELSE Commit(Stack(FoldLeft(LAMBDA s, g : Segment(s, t, g), [m |-> m, sz |-> 0, bad |-> FALSE],
                             prog.segs), t, args), p, t, Len(args))

kexec(m, p, prog, args) ==
  IF ~prog.elf THEN Return(m, -1)
  ELSE LET n == proc_pagetable(m, p) IN Load(n, n.ret, p, prog, args)

-----------------------------------------------------------------------------
\* syscall.c, of a word of one byte.
fetchaddr(m, p, addr) ==
  IF addr + 1 > m.proc[p].sz THEN Return(m, -1)
  ELSE copyin(m, m.proc[p].pt, m.proc[p].sz, addr, 1)

fetchstr(m, p, addr, len, max) == copyinstr(m, m.proc[p].pt, m.proc[p].sz, addr, len, max)

\* The page of a string, from kalloc().
ArgPage(s, p, addr, len) ==
  IF s.m.ret = 0 THEN Bad(s)
  ELSE LET f == fetchstr(s.m, p, addr, len, PGSIZE)
       IN [m |-> f, argv |-> Append(s.argv, s.m.ret), bad |-> f.ret = -1]

\* The address of a string is fetched, and a page for the string is allocated.
FetchArg(s, p, addr, len) ==
  LET f == fetchaddr(s.m, p, addr)
  IN IF s.bad \/ Len(s.argv) >= MAXARG THEN Bad(s)
     ELSE IF f.ret = -1 THEN Bad([s EXCEPT !.m = f])
     ELSE ArgPage([s EXCEPT !.m = kalloc(f)], p, addr, len)

\* The null that ends the array.
FetchNull(s, p, addr) ==
  LET f == fetchaddr(s.m, p, addr)
  IN IF s.bad \/ Len(s.argv) >= MAXARG THEN Bad(s) ELSE [s EXCEPT !.m = f, !.bad = f.ret = -1]

ArgsFetched(s, p, prog, args) ==
  LET r == IF s.bad THEN Return(s.m, -1) ELSE kexec(s.m, p, prog, args)
  IN Return(FoldLeft(kfree, r, s.argv), r.ret)

\* The path, the array and the strings are at one address.
sys_exec(m, p, prog, addr, args) ==
  LET f == fetchstr(m, p, addr, 1, PGSIZE)
      a == FoldLeft(LAMBDA s, len : FetchArg(s, p, addr, len), [m |-> f, argv |-> <<>>, bad |-> FALSE], args)
  IN IF f.ret = -1 THEN f ELSE ArgsFetched(FetchNull(a, p, addr), p, prog, args)

-----------------------------------------------------------------------------
\* The calls of a process, and what it does with its memory.

Becomes(m) ==
  free' = m.free /\ tab' = m.tab /\ data' = m.data /\ proc' = m.proc /\ panicked' = m.panic

Running(p) == state[p] = "run" /\ panicked = "no" /\ calls < MAX_CALLS
Called == calls' = calls + 1

\* userinit(), and the kexec() in forkret().
Init ==
  LET m == kexec(allocproc(kinit, init), init,
                 CHOOSE g \in Programs : g.init, <<1>>)
  IN /\ free = m.free /\ tab = m.tab /\ data = m.data /\ proc = m.proc
     /\ panicked = IF m.ret = -1 THEN "exec" ELSE m.panic
     /\ state = [p \in Proc |-> IF p = init THEN "run" ELSE "unused"]
     /\ parent = [p \in Proc |-> 0]
     /\ pipes = {} /\ calls = 0

Fork(p) ==
  LET F == {q \in Proc : state[q] = "unused"}
      q == Min(F)
      m == kfork(Machine, p, q)
  IN /\ Running(p) /\ F # {} /\ Called
     /\ Becomes(m)
     /\ state' = [state EXCEPT ![q] = IF m.ret = -1 THEN @ ELSE "run"]
     /\ parent' = [parent EXCEPT ![q] = IF m.ret = -1 THEN @ ELSE p]
     /\ UNCHANGED pipes

Sbrk(p) ==
  /\ Running(p) /\ Called
  /\ \E n \in Growth, lazy \in BOOLEAN : Becomes(sys_sbrk(Machine, p, n, lazy))
  /\ UNCHANGED <<state, parent, pipes>>

Exec(p) ==
  /\ Running(p) /\ Called
  /\ \E g \in Programs, a \in ArgLists : Becomes(sys_exec(Machine, p, g, a.addr, a.lens))
  /\ UNCHANGED <<state, parent, pipes>>

\* kexit(): its children go to init, and its memory waits for its parent.
Dies(p) ==
  /\ state' = [state EXCEPT ![p] = "zombie"]
  /\ parent' = [q \in Proc |-> IF parent[q] = p THEN init ELSE parent[q]]

Exit(p) ==
  /\ Running(p) /\ p # init /\ Called
  /\ Dies(p)
  /\ UNCHANGED <<free, tab, data, proc, pipes, panicked>>

\* kwait() finds the zombie q, and writes its status at addr, unless that is 0.
Wait(p, q) ==
  /\ Running(p) /\ state[q] = "zombie" /\ parent[q] = p /\ Called
  /\ \E addr \in Addresses \cup {0} :
       LET c == IF addr = 0 THEN Machine
                ELSE copyout(Machine, proc[p].pt, proc[p].sz, addr, 1, Read)
       IN IF c.ret = -1
          THEN Becomes(c) /\ UNCHANGED <<state, parent>>
          ELSE /\ Becomes(freeproc(c, q))
               /\ state' = [state EXCEPT ![q] = "unused"]
               /\ parent' = [parent EXCEPT ![q] = 0]
  /\ UNCHANGED pipes

\* either_copyout() and either_copyin() in read() and write(), of two bytes.
ReadCall(p) ==
  /\ Running(p) /\ Called
  /\ \E addr \in Addresses :
       Becomes(copyout(Machine, proc[p].pt, proc[p].sz, addr, 2, Read))
  /\ UNCHANGED <<state, parent, pipes>>

WriteCall(p) ==
  /\ Running(p) /\ Called
  /\ \E addr \in Addresses : Becomes(copyin(Machine, proc[p].pt, proc[p].sz, addr, 2))
  /\ UNCHANGED <<state, parent, pipes>>

\* The hardware allows a load or a store at addr.
Allows(p, addr, write) ==
  LET t == walk(Machine, proc[p].pt, Down(addr), FALSE).ret
  IN /\ walkaddr(Machine, proc[p].pt, Down(addr)) # 0
     /\ write => W \in Pte(Machine, t, Down(addr)).flags

\* The instruction is carried out, with the page pa.
Done(m, pa, write) == Becomes(IF write THEN [m EXCEPT !.data[pa] = Stored] ELSE m)

\* A load or a store; if it faults, usertrap() asks vmfault() for the page, or kills
\* the process.
Access(p) ==
  \E addr \in Addresses, write \in BOOLEAN :
    LET f == vmfault(Machine, proc[p].pt, proc[p].sz, addr)
    IN /\ Running(p) /\ Called
       /\ \/ /\ Allows(p, addr, write)
             /\ Done(Machine, walkaddr(Machine, proc[p].pt, Down(addr)), write)
             /\ UNCHANGED <<state, parent>>
          \/ /\ ~Allows(p, addr, write) /\ f.ret # 0
             /\ Done(f, f.ret, write)
             /\ UNCHANGED <<state, parent>>
          \/ /\ ~Allows(p, addr, write) /\ f.ret = 0 /\ p # init
             /\ Becomes(f) /\ Dies(p)
       /\ UNCHANGED pipes

PipeAlloc ==
  LET m == kalloc(Machine)
  IN /\ panicked = "no" /\ Cardinality(pipes) < MAX_PIPES
     /\ Becomes(m)
     /\ pipes' = IF m.ret = 0 THEN pipes ELSE pipes \cup {m.ret}
     /\ UNCHANGED <<state, parent, calls>>

PipeFree ==
  \E pa \in pipes :
    /\ panicked = "no"
    /\ Becomes(kfree(Machine, pa))
    /\ pipes' = pipes \ {pa}
    /\ UNCHANGED <<state, parent, calls>>

Call(p) ==
  \/ Fork(p) \/ Sbrk(p) \/ Exec(p) \/ Exit(p) \/ ReadCall(p) \/ WriteCall(p) \/ Access(p)
  \/ \E q \in Proc : Wait(p, q)

Next == (\E p \in Proc : Call(p)) \/ PipeAlloc \/ PipeFree

Spec == Init /\ [][Next]_vars

-----------------------------------------------------------------------------
Flags == {V, R, W, X, U}

TypeOK ==
  /\ free \in [Page -> Nat]
  /\ \A pa \in Page, i \in 0 .. NPTE - 1 :
       tab[pa][i].pa \in 0 .. trampoline /\ tab[pa][i].flags \subseteq Flags
  /\ data \in [Page -> 0 .. Junk]
  /\ proc \in [Proc -> [tf : Page \cup {0}, pt : Page \cup {0}, sz : 0 .. TRAPFRAME * PGSIZE]]
  /\ state \in [Proc -> {"unused", "run", "zombie"}]
  /\ parent \in [Proc -> 0 .. NPROC]
  /\ pipes \subseteq Page /\ calls \in 0 .. MAX_CALLS

\* No call panics, whatever has failed for want of memory before.
NoPanic == panicked = "no"

Live == {p \in Proc : state[p] # "unused"}

\* The entries of page-table page t that are in use, and the pages below t.
Entries(t) == {i \in 0 .. NPTE - 1 : Valid(tab[t][i])}
Below(T) == {tab[t][i].pa : <<t, i>> \in {x \in T \X (0 .. NPTE - 1) : Valid(tab[x[1]][x[2]])}}
Tables(p) == LET T == {proc[p].pt} IN T \cup Below(T) \cup Below(Below(T))
Leaves(p) == Below(Below({proc[p].pt}))

\* How often a page is used: as trapframe, as a page-table page, for user memory, or
\* in a pipe.
Uses(pa) ==
  Cardinality({p \in Live : proc[p].tf = pa}) + Cardinality({p \in Live : pa \in Tables(p)})
  + Cardinality({p \in Live : \E t \in Leaves(p) : \E i \in Entries(t) :
                   tab[t][i].pa = pa /\ proc[p].tf # pa})
  + Cardinality(pipes \cap {pa})

\* Between two calls every page is either free, once, or used, once: no failure of
\* fork, exec, sbrk or a page fault half way leaks a page, frees it twice, leaves it in
\* two places, or leaves behind what a later call panics over.
PagesAccounted == NoPanic /\ \A pa \in Page : free[pa] + Uses(pa) = 1

\* The entry that the hardware finds in table t, at some level, and at the end.
NoEntry == [pa |-> 0, flags |-> {}]
At(e, level, a) == IF Valid(e) THEN tab[e.pa][PX(level, a)] ELSE NoEntry
Entry(p, a) == At(At(tab[proc[p].pt][PX(2, a)], 1, a), 0, a)

\* A process has its own trapframe and the trampoline at their addresses, out of its
\* own reach, and nothing at or above its size: what uvmfree() must not leave behind.
OwnTables ==
  \A p \in Live :
    /\ \A a \in Up(proc[p].sz) .. TRAPFRAME - 1 : ~Valid(Entry(p, a))
    /\ Entry(p, TRAPFRAME) = [pa |-> proc[p].tf, flags |-> {V, R, W}]
    /\ Entry(p, TRAMPOLINE) = [pa |-> trampoline, flags |-> {V, R, X}]

-----------------------------------------------------------------------------
\* A page of user memory as its process sees it: a page that is not there yet is one
\* of zeroes.
Seen(e) ==
  IF Valid(e) THEN [contents |-> data[e.pa], perm |-> e.flags \cap {W, X, U}]
  ELSE [contents |-> 0, perm |-> {W, U}]

Space ==
  [p \in Proc |-> IF state[p] = "unused" THEN [sz |-> 0, page |-> <<>>]
                  ELSE [sz |-> proc[p].sz, page |-> [i \in 1 .. Up(proc[p].sz) |-> Seen(Entry(p, i - 1))]]]

\* Processes have separate memories that only their own stores and calls change: fork
\* gives a copy, growth gives zeroes, exec the image of its program, a call that fails
\* for want of memory changes nothing, and whether a page has been allocated yet
\* cannot be seen.
Spaces == INSTANCE AddressSpaces WITH space <- Space
IsAddressSpaces == Spaces!Spec
=============================================================================
