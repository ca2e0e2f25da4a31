--------------------------- MODULE AddressSpaces ---------------------------
(***************************************************************************)
(* What the kernel promises to processes about their memory: each has a    *)
(* sequence of pages of its own.                                           *)
(***************************************************************************)
EXTENDS Integers, Sequences, FiniteSets, FiniteSetsExt, SequencesExt

CONSTANTS NPROC, PGSIZE, USERSTACK, Programs, Growth, ArgLists

VARIABLE space  \* of every process, its size in bytes and its pages

Proc == 1 .. NPROC
init == 1
Nothing == [sz |-> 0, page |-> <<>>]
Zeroes == [contents |-> 0, perm |-> {"W", "U"}]

Pages(sz) == (sz + PGSIZE - 1) \div PGSIZE

\* The end of the first n segments of a program.
End(segs, n) == Max({0} \cup {segs[j].vaddr + segs[j].memsz : j \in 1 .. n})

\* Page i of a program: its permissions are those of the segment that first reached
\* it, its contents those of the last one that has it in its file.
ImagePage(segs, i) ==
  LET first == Min({n \in 1 .. Len(segs) : i <= Pages(End(segs, n))})
      file == {n \in 1 .. Len(segs) : /\ segs[n].filesz > 0
                                      /\ segs[n].vaddr \div PGSIZE < i
                                      /\ i <= Pages(segs[n].vaddr + segs[n].filesz)}
  IN [contents |-> IF file = {} THEN 0 ELSE segs[Max(file)].contents,
      perm |-> segs[first].perm \cup {"U"}]

\* A program, a page out of reach, and a stack with the arguments at its end.
Image(prog, args) ==
  LET segs == SelectSeq(prog.segs, LAMBDA g : g.load)
      n == Pages(End(segs, Len(segs)))
      top == n + 1 + USERSTACK
      sp == top * PGSIZE - FoldLeft(+, Len(args) + 1, args)
  IN [sz |-> top * PGSIZE,
      page |-> [i \in 1 .. top |->
                  IF i <= n THEN ImagePage(segs, i)
                  ELSE IF i = n + 1 THEN [contents |-> 0, perm |-> {"W"}]
                  ELSE [contents |-> IF i > sp \div PGSIZE THEN 3 ELSE 0, perm |-> {"W", "U"}]]]

Init ==
  space = [p \in Proc |->
             IF p = init THEN Image(CHOOSE g \in Programs : g.init, <<1>>) ELSE Nothing]

-----------------------------------------------------------------------------
\* The steps, from spaces s to spaces t.

Fork(s, t, p, q) == s[q] = Nothing /\ t = [s EXCEPT ![q] = s[p]]

Resized(old, sz) ==
  [sz |-> sz,
   page |-> [i \in 1 .. Pages(sz) |-> IF i <= Len(old.page) THEN old.page[i] ELSE Zeroes]]

Resize(s, t, p, n) ==
  s[p].sz + n >= 0 /\ t = [s EXCEPT ![p] = Resized(@, s[p].sz + n)]

Exec(s, t, p, prog, args) == t = [s EXCEPT ![p] = Image(prog, args)]

\* Pages i to j of a space are writable; they are written.
Writable(old, i, j) ==
  \A k \in i .. j : k \in DOMAIN old.page /\ {"W", "U"} \subseteq old.page[k].perm

Written(old, i, j, d) ==
  [old EXCEPT !.page =
     [k \in DOMAIN @ |-> IF k \in i .. j THEN [@[k] EXCEPT !.contents = d] ELSE @[k]]]

Store(s, t, p, i, j, d) ==
  Writable(s[p], i, j) /\ t = [s EXCEPT ![p] = Written(@, i, j, d)]

\* q is gone, and p may have its status.
Wait(s, t, p, q) ==
  \/ t = [s EXCEPT ![q] = Nothing]
  \/ \E i \in DOMAIN s[p].page :
       Writable(s[p], i, i) /\ t = [s EXCEPT ![p] = Written(@, i, i, 2), ![q] = Nothing]

Step(s, t) ==
  \E p \in {q \in Proc : s[q] # t[q]} :
    \/ \E q \in Proc \ {p} : Fork(s, t, q, p) \/ Wait(s, t, q, p)
    \/ \E n \in Growth : Resize(s, t, p, n)
    \/ \E i \in DOMAIN s[p].page, d \in {1, 2} :
         Store(s, t, p, i, i, d) \/ Store(s, t, p, i, i + 1, d)
    \/ \E g \in {x \in Programs : x.elf}, a \in ArgLists : Exec(s, t, p, g, a.lens)

Next == \E s \in {space}, t \in {space'} : Step(s, t)

Spec == Init /\ [][Next]_space
=============================================================================
