------------------------------- MODULE Inodes -------------------------------
(***************************************************************************)
(* kernel/fs.c and mkfs/mkfs.c as operators on the state of a file system: *)
(* a record of the inodes, the bitmap and the blocks of the disk, as they  *)
(* are seen through the buffer cache, and of the inode table.  A block has *)
(* room for BSIZE units: a unit is a directory entry or a piece of a file. *)
(* An operator that can fail gives a record with the state and a result.   *)
(***************************************************************************)
EXTENDS Naturals, FiniteSets, FiniteSetsExt, SequencesExt, TLC

CONSTANTS
  NINODES, NBLOCKS,      \* inodes and data blocks of the disk
  NINODE,                \* entries of the inode table
  BSIZE, NDIRECT, NINDIRECT, NLINK_MAX,
  None                   \* no process

ROOTINO == 1
Inum == 1 .. NINODES
Addr == 1 .. NBLOCKS
Slot == 1 .. NINODE
MAXFILE == NDIRECT + NINDIRECT

\* What a unit of a block can be; a block of zeroes; and a block of an inode's
\* addresses in the place of units.
NoEntry == [inum |-> 0, name |-> ""]
Zeroes == [unit |-> [i \in 0 .. BSIZE - 1 |-> NoEntry], ptr |-> [i \in 0 .. NINDIRECT - 1 |-> 0]]

NoAddrs == [i \in 0 .. NDIRECT |-> 0]
FreeInode == [type |-> "none", nlink |-> 0, size |-> 0, addrs |-> NoAddrs]

\* An entry of the inode table that is not in use.
NoInode == [inum |-> 0, ref |-> 0, lock |-> None, valid |-> FALSE, d |-> FreeInode]

Panic(f, why) == [f EXCEPT !.panic = IF @ = "no" THEN why ELSE @]

-----------------------------------------------------------------------------
\* Blocks.

balloc(f) ==
  LET free == Addr \ f.used
      a == Min(free)
  IN IF free = {} THEN [fs |-> f, addr |-> 0]
     ELSE [fs |-> [f EXCEPT !.used = @ \cup {a}, !.blk[a] = Zeroes], addr |-> a]

\* bfree() of every block of A.
bfree(f, A) ==
  IF A \subseteq f.used THEN [f EXCEPT !.used = @ \ A] ELSE Panic(f, "freeing free block")

-----------------------------------------------------------------------------
\* The inode table.

Entries(f, i) == {s \in Slot : f.tab[s].ref > 0 /\ f.tab[s].inum = i}
EmptySlots(f) == {s \in Slot : f.tab[s].ref = 0}

iget(f, i) ==
  IF Entries(f, i) # {}
  THEN LET s == Min(Entries(f, i)) IN [fs |-> [f EXCEPT !.tab[s].ref = @ + 1], slot |-> s]
  ELSE IF EmptySlots(f) = {} THEN [fs |-> Panic(f, "iget: no inodes"), slot |-> 0]
  ELSE LET s == Min(EmptySlots(f))
       IN [fs |-> [f EXCEPT !.tab[s] = [NoInode EXCEPT !.inum = i, !.ref = 1]], slot |-> s]

idup(f, s) == [f EXCEPT !.tab[s].ref = @ + 1]

\* Writes the inode of the entry s to the disk.
iupdate(f, s) == [f EXCEPT !.ino[f.tab[s].inum] = f.tab[s].d]

\* What ilock() does once it has the lock: reads the inode if that is necessary.
ilock(f, s) ==
  LET d == f.ino[f.tab[s].inum]
  IN IF f.tab[s].valid THEN f
     ELSE IF d.type = "none" THEN Panic(f, "ilock: no type")
     ELSE [f EXCEPT !.tab[s].d = d, !.tab[s].valid = TRUE]

\* A change of the number of links, with iupdate().
AddLink(f, s) == iupdate([f EXCEPT !.tab[s].d.nlink = @ + 1], s)
DropLink(f, s) == iupdate([f EXCEPT !.tab[s].d.nlink = @ - 1], s)

\* The first free inode gets its type, and an entry in the table.
ialloc(f, type) ==
  LET free == {i \in Inum : f.ino[i].type = "none"}
      i == Min(free)
  IN IF free = {} THEN [fs |-> f, slot |-> 0]
     ELSE iget([f EXCEPT !.ino[i] = [FreeInode EXCEPT !.type = type]], i)

ifree(f, i) == [f EXCEPT !.ino[i].type = "none"]

-----------------------------------------------------------------------------
\* Contents.

\* The address number n in the inode itself, of a block that is allocated if need be.
Direct(f, s, n) ==
  LET r == balloc(f)
  IN IF f.tab[s].d.addrs[n] # 0 THEN [fs |-> f, addr |-> f.tab[s].d.addrs[n]]
     ELSE [fs |-> [r.fs EXCEPT !.tab[s].d.addrs[n] = r.addr], addr |-> r.addr]

\* The address number k in the indirect block that ind has found.
SetPtr(new, at, k) == [fs |-> [new.fs EXCEPT !.blk[at].ptr[k] = new.addr], addr |-> new.addr]

Indirect(ind, k) ==
  CASE ind.addr = 0 -> ind
    [] ind.addr # 0 /\ ind.fs.blk[ind.addr].ptr[k] # 0 ->
         [fs |-> ind.fs, addr |-> ind.fs.blk[ind.addr].ptr[k]]
    [] OTHER -> SetPtr(balloc(ind.fs), ind.addr, k)

\* The address of the block bn of the entry s; 0 if there is no block left.
bmap(f, s, bn) ==
  CASE bn < NDIRECT -> Direct(f, s, bn)
    [] bn \in NDIRECT .. MAXFILE - 1 -> Indirect(Direct(f, s, NDIRECT), bn - NDIRECT)
    [] OTHER -> [fs |-> Panic(f, "bmap: out of range"), addr |-> 0]

\* The blocks of an inode d.
BlocksOf(f, d) ==
  LET ind == d.addrs[NDIRECT]
  IN (Range(d.addrs) \cup (IF ind = 0 THEN {} ELSE Range(f.blk[ind].ptr))) \ {0}

itrunc(f, s) ==
  LET d == f.tab[s].d
  IN iupdate([bfree(f, BlocksOf(f, d)) EXCEPT !.tab[s].d.addrs = NoAddrs, !.tab[s].d.size = 0], s)

\* The unit at off of an inode d, where the file has a block.
Unit(f, d, off) ==
  LET bn == off \div BSIZE
      a == IF bn < NDIRECT THEN d.addrs[bn] ELSE f.blk[d.addrs[NDIRECT]].ptr[bn - NDIRECT]
  IN f.blk[a].unit[off % BSIZE]

\* writei() of one unit.  The copy from a user's memory may fail; the block stays.
Written(b, s, off, u, copied) ==
  IF b.addr = 0 \/ ~copied THEN [fs |-> iupdate(b.fs, s), n |-> 0]
  ELSE [fs |-> iupdate([b.fs EXCEPT !.blk[b.addr].unit[off % BSIZE] = u,
                                    !.tab[s].d.size = IF off + 1 > @ THEN off + 1 ELSE @], s),
        n |-> 1]

writei(f, s, off, u, copied) ==
  IF off > f.tab[s].d.size \/ off + 1 > MAXFILE * BSIZE THEN [fs |-> f, n |-> 0]
  ELSE Written(bmap(f, s, off \div BSIZE), s, off, u, copied)

-----------------------------------------------------------------------------
\* Directories.

\* The offsets of the entries of the directory d, and of those with a name.
Offsets(f, d) == {off \in 0 .. d.size - 1 : Unit(f, d, off).inum # 0}
Named(f, d, name) == {off \in Offsets(f, d) : Unit(f, d, off).name = name}

\* The number that dirlookup() finds, 0 if there is none.
dirlookup(f, d, name) ==
  IF Named(f, d, name) = {} THEN 0 ELSE Unit(f, d, Min(Named(f, d, name))).inum

\* A new entry, in the first place that is free or at the end.  dirlookup() needs
\* an entry of the inode table for what it finds, until iput().
Refused(f, found) ==
  [fs |-> IF Entries(f, found) \cup EmptySlots(f) = {} THEN Panic(f, "iget: no inodes") ELSE f,
   n |-> 0]

dirlink(f, s, name, inum) ==
  LET d == f.tab[s].d
      off == Min(0 .. d.size \ Offsets(f, d))
  IN IF Named(f, d, name) # {} THEN Refused(f, dirlookup(f, d, name))
     ELSE writei(f, s, off, [inum |-> inum, name |-> name], TRUE)

\* Faulty variant: one entry too many is taken for granted.
isdirempty_Three(f, d) == \A off \in Offsets(f, d) : off < 3

isdirempty(f, d) == \A off \in Offsets(f, d) : off < 2

-----------------------------------------------------------------------------
\* mkfs: a directory with files.  The disk it makes has no log.

\* ialloc() and iappend() of mkfs.c, on a record of the disk with the next free block.
MkInode(m, i, type) == [m EXCEPT !.ino[i] = [FreeInode EXCEPT !.type = type, !.nlink = 1]]

MkDirect(m, i, n) == IF m.ino[i].addrs[n] # 0 THEN m
                     ELSE [m EXCEPT !.ino[i].addrs[n] = m.free, !.free = @ + 1]

MkIndirect(m, at, k) == IF m.blk[at].ptr[k] # 0 THEN m
                        ELSE [m EXCEPT !.blk[at].ptr[k] = m.free, !.free = @ + 1]

MkBlock(m, i, bn) ==
  IF bn < NDIRECT THEN MkDirect(m, i, bn)
  ELSE MkIndirect(MkDirect(m, i, NDIRECT), MkDirect(m, i, NDIRECT).ino[i].addrs[NDIRECT],
                  bn - NDIRECT)

MkUnit(m, i, off, u) ==
  LET bn == off \div BSIZE
      a == IF bn < NDIRECT THEN m.ino[i].addrs[bn]
           ELSE m.blk[m.ino[i].addrs[NDIRECT]].ptr[bn - NDIRECT]
  IN [m EXCEPT !.blk[a].unit[off % BSIZE] = u, !.ino[i].size = off + 1]

iappend(m, i, u) == MkUnit(MkBlock(m, i, m.ino[i].size \div BSIZE), i, m.ino[i].size, u)

\* main() of mkfs.c, for a list of file names.  The size of the root is rounded up.
mkfs(names) ==
  LET empty == [ino |-> [i \in Inum |-> FreeInode], blk |-> [a \in Addr |-> Zeroes], free |-> 1]
      entry(i, name) == [inum |-> i, name |-> name]
      root == iappend(iappend(MkInode(empty, ROOTINO, "dir"), ROOTINO, entry(ROOTINO, ".")),
                      ROOTINO, entry(ROOTINO, ".."))
      add(m, k) ==
        iappend(iappend(MkInode(m, k + 1, "file"), ROOTINO, entry(k + 1, names[k])),
                k + 1, [inum |-> 0, name |-> "data"])
      all == FoldLeft(add, root, [k \in 1 .. Len(names) |-> k])
      size == (all.ino[ROOTINO].size \div BSIZE + 1) * BSIZE
  IN [ino |-> [all.ino EXCEPT ![ROOTINO].size = size], blk |-> all.blk,
      used |-> 1 .. all.free - 1]
=============================================================================
