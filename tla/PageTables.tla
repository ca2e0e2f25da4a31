----------------------------- MODULE PageTables -----------------------------
(***************************************************************************)
(* kernel/kalloc.c, and the part of kernel/vm.c that handles the page      *)
(* tables of processes, as operators on a machine: a record with the pages *)
(* that are free, what is in every page (seen as a page table and as the   *)
(* contents of user memory), what the last call returned, and a panic.     *)
(* Addresses in a page table count pages; sizes count bytes.               *)
(***************************************************************************)
EXTENDS Integers, Sequences, FiniteSets, FiniteSetsExt, SequencesExt

CONSTANTS
  NPAGES,  (* from the end of the kernel to PHYSTOP *)
  NPTE,    (* entries of a page-table page: 512     *)
  MAXVA,   (* in pages, at most NPTE^3              *)
  PGSIZE

Page  == 1 .. NPAGES
TRAMPOLINE == MAXVA - 1
TRAPFRAME  == MAXVA - 2

\* The page of the trampoline is in the text of the kernel, not in Page.
trampoline == NPAGES + 1

\* PTE_V, PTE_R, ...
V == "V"
R == "R"
W == "W"
X == "X"
U == "U"

\* What kalloc() and kfree() fill a page with: as a page table, valid entries.
Junk == 99
JunkTable == [i \in 0 .. NPTE - 1 |-> [pa |-> 0, flags |-> {V}]]
ZeroTable == [i \in 0 .. NPTE - 1 |-> [pa |-> 0, flags |-> {}]]

Return(m, r) == [m EXCEPT !.ret = r]
panic(m, why) == [m EXCEPT !.panic = IF @ = "no" THEN why ELSE @]
memset0(m, pa) == [m EXCEPT !.data[pa] = 0, !.tab[pa] = ZeroTable]

\* The pages a, a+1, ..., b-1.
Upto(a, b) == [i \in 1 .. b - a |-> a + i - 1]

\* PGROUNDUP and PGROUNDDOWN, in pages.
Up(sz) == (sz + PGSIZE - 1) \div PGSIZE
Down(va) == va \div PGSIZE

-----------------------------------------------------------------------------
\* The free list as a bag: which of its pages is first is of no account, and the
\* model takes the one with the lowest address.
kalloc(m) ==
  LET F == {pa \in Page : m.free[pa] > 0}
  IN IF F = {} THEN Return(m, 0)
     ELSE [m EXCEPT !.free[Min(F)] = @ - 1, !.ret = Min(F)]

kfree(m, pa) ==
  IF pa \notin Page THEN panic(m, "kfree")
  ELSE [m EXCEPT !.free[pa] = @ + 1, !.data[pa] = Junk, !.tab[pa] = JunkTable]

-----------------------------------------------------------------------------
PX(level, va) == (va \div (IF level = 2 THEN NPTE * NPTE ELSE IF level = 1 THEN NPTE ELSE 1))
                   % NPTE
Pte(m, t, va) == m.tab[t][PX(0, va)]
Valid(pte) == V \in pte.flags

\* A new page-table page is entered in t.
NewTable(m, t, i) ==
  IF m.ret = 0 THEN m
  ELSE [memset0(m, m.ret) EXCEPT !.tab[t][i] = [pa |-> m.ret, flags |-> {V}]]

\* One round of the loop of walk(), if the rounds before it have found a page.
Level(m, i, alloc) ==
  IF m.ret = 0 THEN m
  ELSE IF Valid(m.tab[m.ret][i]) THEN Return(m, m.tab[m.ret][i].pa)
  ELSE IF alloc THEN NewTable(kalloc(m), m.ret, i)
  ELSE Return(m, 0)

\* Returns the page-table page that has the entry of va.
walk(m, t, va, alloc) ==
  IF va >= MAXVA THEN panic(Return(m, 0), "walk")
  ELSE Level(Level(Return(m, t), PX(2, va), alloc), PX(1, va), alloc)

SetPte(m, va, pa, flags) ==
  IF m.ret = 0 THEN Return(m, -1)
  ELSE IF Valid(Pte(m, m.ret, va)) THEN panic(m, "mappages: remap")
  ELSE [m EXCEPT !.tab[m.ret][PX(0, va)] = [pa |-> pa, flags |-> flags \cup {V}], !.ret = 0]

\* Of one page.
mappages(m, t, va, pa, flags) == SetPte(walk(m, t, va, TRUE), va, pa, flags)

\* The entry that walk() returned is the one of a page.
Mapped(m, va) == m.ret # 0 /\ Valid(Pte(m, m.ret, va))

ismapped(m, t, va) == Mapped(walk(m, t, va, FALSE), va)

\* The page that a user address leads to, or 0.
UserPage(m, va) == IF Mapped(m, va) /\ U \in Pte(m, m.ret, va).flags THEN Pte(m, m.ret, va).pa ELSE 0

walkaddr(m, t, va) == IF va >= MAXVA THEN 0 ELSE UserPage(walk(m, t, va, FALSE), va)

Cleared(m, t, va) == [m EXCEPT !.tab[t][PX(0, va)] = [pa |-> 0, flags |-> {}]]

Unmapped(m, va, do_free) ==
  IF ~Mapped(m, va) THEN m
  ELSE Cleared(IF do_free THEN kfree(m, Pte(m, m.ret, va).pa) ELSE m, m.ret, va)

uvmunmap(m, t, va, npages, do_free) ==
  FoldLeft(LAMBDA s, a : Unmapped(walk(s, t, a, FALSE), a, do_free), m, Upto(va, va + npages))

uvmcreate(m) ==
  LET k == kalloc(m) IN IF k.ret = 0 THEN k ELSE memset0(k, k.ret)

\* Returns the new size.
uvmdealloc(m, t, oldsz, newsz) ==
  IF newsz >= oldsz THEN Return(m, oldsz)
  ELSE Return(uvmunmap(m, t, Up(newsz), Up(oldsz) - Up(newsz), TRUE), newsz)

\* No page for address a: those from `first' on are taken back.
GrowFails(m, t, a, first) == Return(uvmdealloc(m, t, a * PGSIZE, first * PGSIZE), 0)

\* mappages() has mapped the page pa, or not.
Placed(m, t, a, first, pa) ==
  IF m.ret = -1 THEN GrowFails(kfree(m, pa), t, a, first) ELSE Return(m, pa)

\* One round of uvmalloc(), after its kalloc().
GrowPage(m, t, a, first, xperm) ==
  IF m.ret = 0 THEN GrowFails(m, t, a, first)
  ELSE Placed(mappages(memset0(m, m.ret), t, a, m.ret, {R, U} \cup xperm), t, a, first, m.ret)

\* Returns the new size, or 0.
uvmalloc(m, t, oldsz, newsz, xperm) ==
  LET g == FoldLeft(LAMBDA s, a : IF s.ret = 0 THEN s
                                  ELSE GrowPage(kalloc(s), t, a, Up(oldsz), xperm),
                    Return(m, 1), Upto(Up(oldsz), Up(newsz)))
  IN IF newsz < oldsz THEN Return(m, oldsz)
     ELSE IF g.ret = 0 THEN g ELSE Return(g, newsz)

\* freewalk() of a page at the last level, which has no mapping any more, and of the
\* pages above it.
FreeLeaf(m, t) ==
  kfree(IF \E i \in 0 .. NPTE - 1 : Valid(m.tab[t][i]) THEN panic(m, "freewalk: leaf") ELSE m, t)

FreeMiddle(m, t) ==
  kfree(FoldLeft(LAMBDA s, i : IF Valid(s.tab[t][i]) THEN FreeLeaf(s, s.tab[t][i].pa) ELSE s,
                 m, Upto(0, NPTE)), t)

freewalk(m, t) ==
  kfree(FoldLeft(LAMBDA s, i : IF Valid(s.tab[t][i]) THEN FreeMiddle(s, s.tab[t][i].pa) ELSE s,
                 m, Upto(0, NPTE)), t)

uvmfree(m, t, sz) == freewalk(uvmunmap(m, t, 0, Up(sz), TRUE), t)

\* mappages() has mapped the copy pa, or not.
Copied(m, pa) == IF m.ret = -1 THEN Return(kfree(m, pa), -1) ELSE m

\* Faulty variant: the page is not filled.
CopyPage_Empty(m, new, i, pte) ==
  IF m.ret = 0 THEN Return(m, -1)
  ELSE Copied(mappages(m, new, i, m.ret, pte.flags \ {V}), m.ret)

\* One round of uvmcopy(), after its kalloc(), for an entry of the parent.
CopyPage(m, new, i, pte) ==
  IF m.ret = 0 THEN Return(m, -1)
  ELSE Copied(mappages([m EXCEPT !.data[m.ret] = m.data[pte.pa]], new, i, m.ret,
                       pte.flags \ {V}), m.ret)

\* One round of uvmcopy(), after its walk() of the parent's table.
CopyEntry(m, new, i) ==
  IF ~Mapped(m, i) THEN Return(m, 0) ELSE CopyPage(kalloc(m), new, i, Pte(m, m.ret, i))

\* The end of uvmcopy(): the pages copied before a failure are freed.  None has been
\* mapped after it.
Uncopied(m, new, sz) ==
  IF m.ret = -1 THEN Return(uvmunmap(m, new, 0, Up(sz), TRUE), -1) ELSE m

uvmcopy(m, old, new, sz) ==
  Uncopied(FoldLeft(LAMBDA s, i : IF s.ret = -1 THEN s ELSE CopyEntry(walk(s, old, i, FALSE), new, i),
                    Return(m, 0), Upto(0, Up(sz))), new, sz)

Guarded(m, va) ==
  IF m.ret = 0 THEN panic(m, "uvmclear")
  ELSE [m EXCEPT !.tab[m.ret][PX(0, va)].flags = @ \ {U}]

uvmclear(m, t, va) == Guarded(walk(m, t, va, FALSE), va)

-----------------------------------------------------------------------------
Faulted(m, pa) == IF m.ret = -1 THEN Return(kfree(m, pa), 0) ELSE Return(m, pa)

\* vmfault(), after its kalloc().
FaultPage(m, t, va) ==
  IF m.ret = 0 THEN m
  ELSE Faulted(mappages(memset0(m, m.ret), t, va, m.ret, {W, U, R}), m.ret)

\* At a byte address; returns the page, or 0.
vmfault(m, t, psz, va) ==
  IF va >= psz \/ ismapped(m, t, Down(va)) THEN Return(m, 0)
  ELSE FaultPage(kalloc(m), t, Down(va))

\* A page of user memory, present or lazy; returns it, or 0.
Touch(m, t, psz, a) ==
  IF walkaddr(m, t, a) # 0 THEN Return(m, walkaddr(m, t, a)) ELSE vmfault(m, t, psz, a * PGSIZE)

\* One round of copyout(), which writes d.
OutPage(m, t, a, d) ==
  IF m.ret = 0 \/ W \notin Pte(m, walk(m, t, a, FALSE).ret, a).flags THEN Return(m, -1)
  ELSE [m EXCEPT !.data[m.ret] = d, !.ret = 0]

\* The pages that len bytes from va on are in.
Span(va, len) == Upto(Down(va), Up(va + len))

copyout(m, t, psz, va, len, d) ==
  FoldLeft(LAMBDA s, a : IF s.ret = -1 THEN s
                         ELSE IF a >= MAXVA THEN Return(s, -1)
                         ELSE OutPage(Touch(s, t, psz, a), t, a, d),
           Return(m, 0), Span(va, len))

copyin(m, t, psz, va, len) ==
  FoldLeft(LAMBDA s, a : IF s.ret = -1 THEN s
                         ELSE Return(Touch(s, t, psz, a), IF Touch(s, t, psz, a).ret = 0 THEN -1 ELSE 0),
           Return(m, 0), Span(va, len))

\* The string has len bytes, with its end.
copyinstr(m, t, psz, va, len, max) ==
  LET c == copyin(m, t, psz, va, Min({len, max}))
  IN IF len > max THEN Return(c, -1) ELSE c
=============================================================================
