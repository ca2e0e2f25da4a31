------------------------------ MODULE MCMemory ------------------------------
(* An instance of Memory for TLC.                                          *)
EXTENDS Memory

Seg(vaddr, memsz, filesz, perm, contents, short) ==
  [load |-> TRUE, vaddr |-> vaddr, memsz |-> memsz, filesz |-> filesz, perm |-> perm,
   contents |-> contents, short |-> short]
Note == [Seg(0, 0, 0, {}, 0, FALSE) EXCEPT !.load = FALSE]

\* A program with its text only; one with text, and data that are partly in the file;
\* one that is cut off; one whose second segment has no end below WORD; and a file that
\* is no program.
MCPrograms ==
  {[init |-> TRUE,  elf |-> TRUE,  segs |-> <<Seg(0, 4, 4, {X}, 4, FALSE)>>],
   [init |-> FALSE, elf |-> TRUE,  segs |-> <<Note, Seg(0, 3, 3, {X}, 5, FALSE), Seg(4, 5, 1, {W}, 6, FALSE)>>],
   [init |-> FALSE, elf |-> TRUE,  segs |-> <<Seg(0, 4, 4, {X}, 5, FALSE), Seg(4, 4, 4, {W}, 6, TRUE)>>],
   [init |-> FALSE, elf |-> TRUE,  segs |-> <<Seg(0, 4, 4, {X}, 5, FALSE), Seg(8, WORD - 4, 4, {W}, 6, FALSE)>>],
   [init |-> FALSE, elf |-> FALSE, segs |-> <<>>]}

MCGrowth == {-14, -5, 5}
MCAddresses == {3, 11, 13}
\* The last three are too much for the stack, for sys_exec(), and for a page.
Strings(addr, lens) == [addr |-> addr, lens |-> lens]
MCArgLists ==
  {Strings(11, <<>>), Strings(13, <<1>>),
   Strings(11, <<1, 2>>), Strings(11, <<1, 1, 1>>), Strings(11, <<5>>)}
=============================================================================
