------------------------------ MODULE FileSys -------------------------------
(***************************************************************************)
(* The file system's calls, kernel/sysfile.c and kernel/file.c, over       *)
(* kernel/fs.c, by processes that interleave, with crashes.  What a        *)
(* process does to an inode while it has its lock is one step, except      *)
(* where it waits for another lock; iput() is a step for each section      *)
(* under itable.lock or the inode's lock.  The log is what log.c promises  *)
(* (FsStore): the disk becomes durable when the last operation ends.       *)
(***************************************************************************)
EXTENDS Inodes

CONSTANTS
  Proc, init,            \* the processes, and the first one
  NFILE, NOFILE,         \* open files, and descriptors of a process
  Calls,                 \* the calls that each process makes
  FILES,                 \* the files that mkfs gets
  MAX_CALLS,             \* how many of them, before a crash
  MAX_CRASH

ASSUME FileSysAssumption == init \in Proc /\ None \notin Proc

File == 1 .. NFILE
Fd == 1 .. NOFILE
NoFile == [type |-> "none", ref |-> 0, ip |-> 0, off |-> 0, readable |-> FALSE, writable |-> FALSE]
NoCall == [op |-> "none"]

VARIABLES
  fs,         \* the disk as the buffer cache has it, the inode table, and panic()
  committed,  \* the disk as recovery would give it
  ftable, ofile, cwd,
  proc,       \* where a process is, and its local variables
  boot,       \* the inode that ireclaim() comes to, NINODES + 1 when the system is up
  ncalls, crashes

vars == <<fs, committed, ftable, ofile, cwd, proc, boot, ncalls, crashes>>

\* The local variables: the entry of the inode table that namex() is at or has found,
\* another one that is kept, the one that iput() drops, and what is left to write.
\* `ret' and `then' say where namex() and iput() return to; `op' that end_op() is to come.
NoProc == [pc |-> "none", call |-> NoCall, ip |-> 0, dp |-> 0, put |-> 0, inum |-> 0, left |-> 0,
           path |-> <<>>, parent |-> FALSE, name |-> "", ret |-> "", then |-> "", op |-> FALSE]
Idle == [NoProc EXCEPT !.pc = "idle"]

Disk(f) == [ino |-> f.ino, used |-> f.used, blk |-> f.blk]

\* userinit() has put the first process into the root directory of a disk whose log has been
\* recovered: the process is in forkret(), before it goes to ireclaim().
PowerOn(disk) ==
  [ino |-> disk.ino, used |-> disk.used, blk |-> disk.blk, panic |-> "no",
   tab |-> [s \in Slot |-> IF s = 1 THEN [NoInode EXCEPT !.inum = ROOTINO, !.ref = 1] ELSE NoInode]]

NoFiles == [x \in File |-> NoFile]
NoFds == [p \in Proc |-> [fd \in Fd |-> 0]]
InRoot == [p \in Proc |-> IF p = init THEN 1 ELSE 0]
Booting == [p \in Proc |-> IF p = init THEN [NoProc EXCEPT !.pc = "boot"] ELSE NoProc]

Init ==
  /\ fs = PowerOn(mkfs(FILES)) /\ committed = mkfs(FILES)
  /\ ftable = NoFiles /\ ofile = NoFds /\ cwd = InRoot /\ proc = Booting
  /\ boot = 1 /\ ncalls = [p \in Proc |-> 0] /\ crashes = 0

Crash ==
  /\ crashes < MAX_CRASH
  /\ crashes' = crashes + 1
  /\ fs' = PowerOn(committed)
  /\ ftable' = NoFiles /\ ofile' = NoFds /\ cwd' = InRoot /\ proc' = Booting
  /\ boot' = 1 /\ ncalls' = MAX_CALLS
  /\ UNCHANGED committed

\* What ireclaim() frees.  Faulty variant: directories are left.
IsOrphan_File(d) == d.type = "file" /\ d.nlink = 0

IsOrphan(d) == d.type # "none" /\ d.nlink = 0

\* One round of ireclaim(): an inode without links is freed, in an operation of its own.
\* iget(), ilock(), iunlock() and iput() find nobody else at work.
ireclaim ==
  LET got == iget(fs, boot)
      f == itrunc(ilock(got.fs, got.slot), got.slot)
      freed == ifree([f EXCEPT !.tab[got.slot] = NoInode], boot)
  IN /\ boot \in Inum
     /\ fs' = IF IsOrphan(fs.ino[boot]) THEN freed ELSE fs
     /\ committed' = Disk(fs')
     /\ boot' = boot + 1
     /\ proc' = IF boot = NINODES THEN [proc EXCEPT ![init] = Idle] ELSE proc
     /\ UNCHANGED <<ftable, ofile, cwd, ncalls, crashes>>

-----------------------------------------------------------------------------
Panicked == fs.panic # "no"

\* A process at `pc' goes on with new values of some local variables.
At(p, where) == proc[p].pc = where /\ ~Panicked
Go(p, r) == proc' = [proc EXCEPT ![p] = r @@ @]

\* The same, but first iput() of the entry s.
PutThen(p, s, where, r) == Go(p, [pc |-> "iput", put |-> s, then |-> where] @@ r)

Rest == <<committed, ftable, ofile, cwd, boot, ncalls, crashes>>

\* The lock of s is free for p, which takes and releases it in one step, or keeps it.
Unlocked(s) == fs.tab[s].lock = None
Lock(f, s, p) == [f EXCEPT !.tab[s].lock = p]
Unlock(f, s) == [f EXCEPT !.tab[s].lock = None]

-----------------------------------------------------------------------------
\* iput()

\* The reference is dropped; an entry without references may be used again.
Dropped(f, s) == [f EXCEPT !.tab[s] = IF @.ref = 1 THEN NoInode ELSE [@ EXCEPT !.ref = @ - 1]]

LastRef(s) == fs.tab[s].ref = 1 /\ fs.tab[s].valid /\ fs.tab[s].d.nlink = 0

iput(p) ==
  LET s == proc[p].put
  IN /\ At(p, "iput")
     /\ IF ~LastRef(s)
        THEN fs' = Dropped(fs, s) /\ Go(p, [pc |-> proc[p].then, put |-> 0])
        ELSE /\ fs' = IF Unlocked(s) THEN Lock(fs, s, p) ELSE Panic(fs, "sched locks")
             /\ Go(p, [pc |-> "itrunc", inum |-> fs.tab[s].inum])
     /\ UNCHANGED Rest

iput_trunc(p) ==
  LET s == proc[p].put
  IN /\ At(p, "itrunc")
     /\ fs' = Unlock([itrunc(fs, s) EXCEPT !.tab[s].valid = FALSE], s)
     /\ Go(p, [pc |-> "drop"])
     /\ UNCHANGED Rest

iput_drop(p) ==
  /\ At(p, "drop")
  /\ fs' = Dropped(fs, proc[p].put)
  /\ Go(p, [pc |-> "ifree", put |-> 0])
  /\ UNCHANGED Rest

iput_free(p) ==
  /\ At(p, "ifree")
  /\ fs' = ifree(fs, proc[p].inum)
  /\ Go(p, [pc |-> proc[p].then, inum |-> 0])
  /\ UNCHANGED Rest

-----------------------------------------------------------------------------
\* namex()

\* Starts a walk along a path, from the root or from the current directory.
Start(p, f, path, parent, ret, r) ==
  LET got == IF path.abs THEN iget(f, ROOTINO) ELSE [fs |-> idup(f, cwd[p]), slot |-> cwd[p]]
  IN /\ fs' = got.fs
     /\ Go(p, [pc |-> "namex", ip |-> got.slot, path |-> path.names, parent |-> parent,
               ret |-> ret] @@ r)

\* The first name of a path, and the rest.
skipelem(path) == [elem |-> Head(path), rest |-> Tail(path)]

\* One round of the loop of namex().
namex(p) ==
  LET me == proc[p]
      s == me.ip
      f == ilock(fs, s)
      d == f.tab[s].d
      last == me.parent /\ Len(me.path) = 1
      next == skipelem(me.path)
      found == IF d.type = "dir" THEN dirlookup(f, d, next.elem) ELSE 0
      got == iget(f, found)
  IN /\ At(p, "namex") /\ me.path # <<>> /\ Unlocked(s)
     /\ IF d.type # "dir" \/ d.nlink = 0 \/ (~last /\ found = 0)
        THEN fs' = f /\ PutThen(p, s, me.ret, [ip |-> 0])
        ELSE IF last
        THEN fs' = f /\ Go(p, [pc |-> me.ret, name |-> next.elem])
        ELSE fs' = got.fs /\ PutThen(p, s, "namex", [ip |-> got.slot, path |-> next.rest])
     /\ UNCHANGED Rest

\* The end of the path: nameiparent() has no name to give.
namex_end(p) ==
  LET me == proc[p]
  IN /\ At(p, "namex") /\ me.path = <<>>
     /\ IF me.parent THEN PutThen(p, me.ip, me.ret, [ip |-> 0]) ELSE Go(p, [pc |-> me.ret])
     /\ UNCHANGED <<fs, Rest>>
-----------------------------------------------------------------------------
\* create(), for open(), mkdir() and mknod().  It returns with the inode locked.

CreateType(p) == CASE proc[p].call.op = "open" -> "file" [] proc[p].call.op = "mkdir" -> "dir"
                   [] proc[p].call.op = "mknod" -> proc[p].call.type

\* What is left to do after a step that gave the result r: nothing, if that has failed.
Dots(r, s, parent) ==
  IF r.n = 0 THEN r ELSE dirlink(r.fs, s, "..", parent)

Entry(r, dp, name, i) == IF r.n = 0 THEN r ELSE dirlink(r.fs, dp, name, i)

Finished(r, p, s, dp, type) ==
  IF r.n = 0 THEN [fs |-> DropLink(r.fs, s), slot |-> s, ok |-> FALSE]
  ELSE [fs |-> Lock(IF type = "dir" THEN AddLink(r.fs, dp) ELSE r.fs, s, p), slot |-> s, ok |-> TRUE]

\* The new inode of ialloc(), its own entries if it is a directory, and its entry in dp.
NewInode(got, p, dp, type) ==
  LET s == got.slot
      i == got.fs.tab[s].inum
      made == AddLink(ilock(got.fs, s), s)
      own == IF type # "dir" THEN [fs |-> made, n |-> 1]
             ELSE Dots(dirlink(made, s, ".", i), s, got.fs.tab[dp].inum)
  IN IF s = 0 THEN [fs |-> got.fs, slot |-> 0, ok |-> FALSE]
     ELSE Finished(Entry(own, dp, proc[p].name, i), p, s, dp, type)

\* A directory that has been removed while its name was looked up gets no new entries.
\* Faulty variant: it does.
Removed_Never(d) == FALSE

Removed(d) == d.nlink = 0

create(p) ==
  LET dp == proc[p].ip
      f == ilock(fs, dp)
      d == f.tab[dp].d
      type == CreateType(p)
      found == dirlookup(f, d, proc[p].name)
      got == iget(f, found)
      new == NewInode(ialloc(f, type), p, dp, type)
  IN /\ At(p, "create") /\ dp # 0 /\ Unlocked(dp)
     /\ CASE Removed(d) \/ (type = "dir" /\ d.nlink >= NLINK_MAX) ->
               fs' = f /\ PutThen(p, dp, "end", [ip |-> 0])
          [] OTHER ->
               IF found # 0
               THEN fs' = got.fs /\ PutThen(p, dp, "exists", [ip |-> got.slot])
               ELSE IF new.slot = 0
               THEN fs' = new.fs /\ PutThen(p, dp, "end", [ip |-> 0])
               ELSE IF new.ok
               THEN fs' = new.fs /\ PutThen(p, dp, "have", [ip |-> new.slot])
               ELSE /\ fs' = Lock(new.fs, dp, p)
                    /\ PutThen(p, new.slot, "create_fail", [ip |-> 0, dp |-> dp])
     /\ UNCHANGED Rest

\* Faulty variant: the inode is not put.
create_exists_Kept(p) ==
  LET s == proc[p].ip
      f == ilock(fs, s)
  IN /\ At(p, "exists") /\ Unlocked(s)
     /\ IF CreateType(p) = "file" /\ f.tab[s].d.type # "dir"
        THEN fs' = Lock(f, s, p) /\ Go(p, [pc |-> "have"])
        ELSE fs' = f /\ Go(p, [pc |-> "end", ip |-> 0])
     /\ UNCHANGED Rest

create_exists(p) ==
  LET s == proc[p].ip
      f == ilock(fs, s)
  IN /\ At(p, "exists") /\ Unlocked(s)
     /\ IF CreateType(p) = "file" /\ f.tab[s].d.type # "dir"
        THEN fs' = Lock(f, s, p) /\ Go(p, [pc |-> "have"])
        ELSE fs' = f /\ PutThen(p, s, "end", [ip |-> 0])
     /\ UNCHANGED Rest

create_fail(p) ==
  /\ At(p, "create_fail")
  /\ fs' = Unlock(fs, proc[p].dp)
  /\ PutThen(p, proc[p].dp, "end", [dp |-> 0])
  /\ UNCHANGED Rest

\* sys_mkdir() and sys_mknod() let go of what they have created.
created(p) ==
  /\ At(p, "have") /\ proc[p].call.op # "open"
  /\ fs' = Unlock(fs, proc[p].ip)
  /\ PutThen(p, proc[p].ip, "end", [ip |-> 0])
  /\ UNCHANGED Rest

\* namei() or nameiparent() has failed.
NotFound(p) ==
  /\ \E where \in {"create", "open", "link", "unlink", "chdir"} : At(p, where)
  /\ proc[p].ip = 0
  /\ Go(p, [pc |-> "end"])
  /\ UNCHANGED <<fs, Rest>>

-----------------------------------------------------------------------------
\* sys_open()

open(p) ==
  LET s == proc[p].ip
      f == ilock(fs, s)
  IN /\ At(p, "open") /\ s # 0 /\ Unlocked(s)
     /\ IF f.tab[s].d.type = "dir" /\ (proc[p].call.write \/ proc[p].call.trunc)
        THEN fs' = f /\ PutThen(p, s, "end", [ip |-> 0])
        ELSE fs' = Lock(f, s, p) /\ Go(p, [pc |-> "have"])
     /\ UNCHANGED Rest

FreeFiles == {x \in File : ftable[x].ref = 0}
FreeFds(p) == {fd \in Fd : ofile[p][fd] = 0}

\* filealloc(), fdalloc() and what follows.
open_file(p) ==
  LET s == proc[p].ip
      c == proc[p].call
      type == fs.tab[s].d.type
      x == Min(FreeFiles)
  IN /\ At(p, "have") /\ c.op = "open"
     /\ IF type = "nodev" \/ FreeFiles = {} \/ FreeFds(p) = {}
        THEN /\ fs' = Unlock(fs, s) /\ PutThen(p, s, "end", [ip |-> 0])
             /\ UNCHANGED <<ftable, ofile>>
        ELSE /\ ftable' = [ftable EXCEPT ![x] =
                  [type |-> IF type = "dev" THEN "device" ELSE "inode", ref |-> 1, ip |-> s,
                   off |-> 0, readable |-> ~c.write, writable |-> c.write]]
             /\ ofile' = [ofile EXCEPT ![p][Min(FreeFds(p))] = x]
             /\ fs' = Unlock(IF c.trunc /\ type = "file" THEN itrunc(fs, s) ELSE fs, s)
             /\ Go(p, [pc |-> "end", ip |-> 0])
     /\ UNCHANGED <<committed, cwd, boot, ncalls, crashes>>

-----------------------------------------------------------------------------
\* sys_unlink()

\* Faulty variant: the parent may be unlinked.
Fixed_Dot(name) == name = "."

Fixed(name) == name \in {".", ".."}

unlink(p) ==
  LET dp == proc[p].ip
      f == ilock(fs, dp)
      name == proc[p].name
      found == dirlookup(f, f.tab[dp].d, name)
      got == iget(f, found)
  IN /\ At(p, "unlink") /\ dp # 0 /\ Unlocked(dp)
     /\ IF Fixed(name) \/ found = 0
        THEN fs' = f /\ PutThen(p, dp, "end", [ip |-> 0])
        ELSE fs' = Lock(got.fs, dp, p) /\ Go(p, [pc |-> "unlink2", ip |-> got.slot, dp |-> dp])
     /\ UNCHANGED Rest

unlink_entry(p) ==
  LET me == proc[p]
      f == ilock(fs, me.ip)
      d == f.tab[me.ip].d
      off == Min(Named(f, f.tab[me.dp].d, me.name))
      w == writei(f, me.dp, off, NoEntry, TRUE)
      g == IF d.type = "dir" THEN DropLink(w.fs, me.dp) ELSE w.fs
  IN /\ At(p, "unlink2") /\ Unlocked(me.ip)
     /\ CASE d.nlink < 1 -> fs' = Panic(f, "unlink: nlink < 1") /\ Go(p, [pc |-> "end"])
          [] d.nlink >= 1 /\ d.type = "dir" /\ ~isdirempty(f, d) ->
               fs' = f /\ PutThen(p, me.ip, "unlink_bad", [ip |-> 0])
          [] OTHER ->
               /\ fs' = IF w.n = 0 THEN Panic(f, "unlink: writei")
                        ELSE Lock(Unlock(g, me.dp), me.ip, p)
               /\ PutThen(p, me.dp, "unlink3", [dp |-> 0])
     /\ UNCHANGED Rest

unlink_bad(p) ==
  /\ At(p, "unlink_bad")
  /\ fs' = Unlock(fs, proc[p].dp)
  /\ PutThen(p, proc[p].dp, "end", [dp |-> 0])
  /\ UNCHANGED Rest

unlink_inode(p) ==
  LET s == proc[p].ip
  IN /\ At(p, "unlink3")
     /\ fs' = Unlock(DropLink(fs, s), s)
     /\ PutThen(p, s, "end", [ip |-> 0])
     /\ UNCHANGED Rest

-----------------------------------------------------------------------------
\* sys_link() and sys_chdir()

link(p) ==
  LET s == proc[p].ip
      f == ilock(fs, s)
      d == f.tab[s].d
  IN /\ At(p, "link") /\ s # 0 /\ Unlocked(s)
     /\ IF d.type = "dir" \/ d.nlink >= NLINK_MAX
        THEN fs' = f /\ PutThen(p, s, "end", [ip |-> 0])
        ELSE Start(p, AddLink(f, s), proc[p].call.new, TRUE, "link2", [dp |-> s])
     /\ UNCHANGED Rest

link_entry(p) ==
  LET dp == proc[p].ip
      s == proc[p].dp
      f == ilock(fs, dp)
      r == dirlink(f, dp, proc[p].name, f.tab[s].inum)
  IN /\ At(p, "link2")
     /\ CASE dp = 0 -> fs' = fs /\ Go(p, [pc |-> "link_bad"])
          [] dp # 0 /\ Unlocked(dp) ->
               IF Removed(f.tab[dp].d)
               THEN fs' = f /\ PutThen(p, dp, "link_bad", [ip |-> 0])
               ELSE fs' = r.fs /\ PutThen(p, dp, IF r.n = 0 THEN "link_bad" ELSE "link_done",
                                          [ip |-> 0])
          [] OTHER -> FALSE
     /\ UNCHANGED Rest

link_done(p) ==
  /\ At(p, "link_done")
  /\ PutThen(p, proc[p].dp, "end", [dp |-> 0])
  /\ UNCHANGED <<fs, Rest>>

link_bad(p) ==
  LET s == proc[p].dp
  IN /\ At(p, "link_bad") /\ Unlocked(s)
     /\ fs' = DropLink(ilock(fs, s), s)
     /\ PutThen(p, s, "end", [dp |-> 0])
     /\ UNCHANGED Rest

\* Nobody but p looks at its cwd, which is set here and not after end_op().
chdir(p) ==
  LET s == proc[p].ip
      f == ilock(fs, s)
      isdir == f.tab[s].d.type = "dir"
  IN /\ At(p, "chdir") /\ s # 0 /\ Unlocked(s)
     /\ fs' = f
     /\ PutThen(p, IF isdir THEN cwd[p] ELSE s, "end", [ip |-> 0])
     /\ cwd' = IF isdir THEN [cwd EXCEPT ![p] = s] ELSE cwd
     /\ UNCHANGED <<committed, ftable, ofile, boot, ncalls, crashes>>

-----------------------------------------------------------------------------
\* The beginning and the end of a call.

CreateCall(c) == c.op \in {"mkdir", "mknod"} \/ (c.op = "open" /\ c.create)

\* begin_op() and the first step of namei() or nameiparent().
PathCall(p, c) ==
  /\ At(p, "idle") /\ ncalls[p] < MAX_CALLS[p]
  /\ c.op \in {"open", "mkdir", "mknod", "link", "unlink", "chdir"}
  /\ Start(p, fs, c.path, CreateCall(c) \/ c.op = "unlink",
           IF CreateCall(c) THEN "create" ELSE c.op, [call |-> c, op |-> TRUE])
  /\ ncalls' = [ncalls EXCEPT ![p] = @ + 1]
  /\ UNCHANGED <<committed, ftable, ofile, cwd, boot, crashes>>

Alone(p) == \A q \in Proc \ {p} : ~proc[q].op

\* end_op(): the last operation commits.  exit() and write() go on, other calls return.
end_op(p) ==
  LET me == proc[p]
      next == CASE me.call.op = "exit" -> IF cwd[p] = 0 THEN NoProc ELSE [me EXCEPT !.pc = "exit"]
                [] me.call.op = "write" /\ me.left > 0 -> [me EXCEPT !.pc = "write"]
                [] OTHER -> Idle
  IN /\ At(p, "end")
     /\ committed' = IF Alone(p) THEN Disk(fs) ELSE committed
     /\ proc' = [proc EXCEPT ![p] = [next EXCEPT !.op = FALSE]]
     /\ UNCHANGED <<fs, ftable, ofile, cwd, boot, ncalls, crashes>>

-----------------------------------------------------------------------------
\* file.c: calls on the file of a descriptor, which argfd() has found.

FdCall(p, c, op) ==
  /\ At(p, "idle") /\ ncalls[p] < MAX_CALLS[p]
  /\ c.op = op /\ ofile[p][c.fd] # 0
  /\ ncalls' = [ncalls EXCEPT ![p] = @ + 1]

\* fileclose(): the last reference gives up the inode, in an operation.
fileclose(p, x, r) ==
  IF ftable[x].ref > 1
  THEN ftable' = [ftable EXCEPT ![x].ref = @ - 1] /\ Go(p, r)
  ELSE /\ ftable' = [ftable EXCEPT ![x] = NoFile]
       /\ PutThen(p, ftable[x].ip, "end", [op |-> TRUE] @@ r)

sys_close(p, c) ==
  /\ FdCall(p, c, "close")
  /\ ofile' = [ofile EXCEPT ![p][c.fd] = 0]
  /\ fileclose(p, ofile[p][c.fd], [call |-> NoCall])
  /\ UNCHANGED <<fs, committed, cwd, boot, crashes>>

sys_dup(p, c) ==
  /\ FdCall(p, c, "dup") /\ FreeFds(p) # {}
  /\ ofile' = [ofile EXCEPT ![p][Min(FreeFds(p))] = ofile[p][c.fd]]
  /\ ftable' = [ftable EXCEPT ![ofile[p][c.fd]].ref = @ + 1]
  /\ UNCHANGED <<fs, committed, cwd, proc, boot, crashes>>

\* fileread() of one unit.
sys_read(p, c) ==
  LET x == ftable[ofile[p][c.fd]]
  IN /\ FdCall(p, c, "read") /\ x.type = "inode" /\ x.readable /\ Unlocked(x.ip)
     /\ fs' = ilock(fs, x.ip)
     /\ ftable' = [ftable EXCEPT ![ofile[p][c.fd]].off =
                      IF @ < fs'.tab[x.ip].d.size THEN @ + 1 ELSE @]
     /\ UNCHANGED <<committed, ofile, cwd, proc, boot, crashes>>

\* filewrite() of some units, one in each operation.
sys_write(p, c) ==
  /\ FdCall(p, c, "write")
  /\ ftable[ofile[p][c.fd]].type = "inode" /\ ftable[ofile[p][c.fd]].writable
  /\ Go(p, [pc |-> "write", call |-> c, left |-> c.n])
  /\ UNCHANGED <<fs, committed, ftable, ofile, cwd, boot, crashes>>

write_begin(p) ==
  /\ At(p, "write")
  /\ Go(p, [pc |-> "writei", op |-> TRUE])
  /\ UNCHANGED <<fs, Rest>>

write_unit(p) ==
  LET me == proc[p]
      x == ofile[p][me.call.fd]
      s == ftable[x].ip
  IN /\ At(p, "writei") /\ Unlocked(s)
     /\ \E copied \in BOOLEAN :
          LET w == writei(ilock(fs, s), s, ftable[x].off, [inum |-> 0, name |-> "data"], copied)
          IN /\ fs' = w.fs
             /\ ftable' = [ftable EXCEPT ![x].off = @ + w.n]
             /\ Go(p, [pc |-> "end", left |-> IF w.n = 1 THEN me.left - 1 ELSE 0])
     /\ UNCHANGED <<committed, ofile, cwd, boot, ncalls, crashes>>

\* What kfork() and kexit() do to files.
kfork(p, q) ==
  /\ At(p, "idle") /\ proc[q] = NoProc /\ [op |-> "fork"] \in Calls[p]
  /\ ofile' = [ofile EXCEPT ![q] = ofile[p]]
  /\ ftable' = [x \in File |->
                  [ftable[x] EXCEPT !.ref = @ + Cardinality({fd \in Fd : ofile[p][fd] = x})]]
  /\ fs' = idup(fs, cwd[p]) /\ cwd' = [cwd EXCEPT ![q] = cwd[p]]
  /\ proc' = [proc EXCEPT ![q] = Idle]
  /\ UNCHANGED <<committed, boot, ncalls, crashes>>

kexit(p) ==
  /\ At(p, "idle") /\ p # init /\ ncalls[p] < MAX_CALLS[p]
  /\ [op |-> "exit"] \in Calls[p]
  /\ Go(p, [pc |-> "exit", call |-> [op |-> "exit"]])
  /\ ncalls' = [ncalls EXCEPT ![p] = @ + 1]
  /\ UNCHANGED <<fs, committed, ftable, ofile, cwd, boot, crashes>>

kexit_close(p) ==
  LET fds == {fd \in Fd : ofile[p][fd] # 0}
  IN /\ At(p, "exit")
     /\ IF fds # {}
        THEN /\ ofile' = [ofile EXCEPT ![p][Min(fds)] = 0]
             /\ fileclose(p, ofile[p][Min(fds)], [pc |-> "exit"])
             /\ UNCHANGED cwd
        ELSE /\ PutThen(p, cwd[p], "end", [op |-> TRUE])
             /\ cwd' = [cwd EXCEPT ![p] = 0]
             /\ UNCHANGED <<ofile, ftable>>
     /\ UNCHANGED <<fs, committed, boot, ncalls, crashes>>

-----------------------------------------------------------------------------
Inside(p) ==
  \/ namex(p) \/ namex_end(p) \/ iput(p) \/ iput_trunc(p) \/ iput_drop(p) \/ iput_free(p)
  \/ create(p) \/ create_exists(p) \/ create_fail(p) \/ created(p) \/ NotFound(p)
  \/ open(p) \/ open_file(p)
  \/ unlink(p) \/ unlink_entry(p) \/ unlink_bad(p) \/ unlink_inode(p)
  \/ link(p) \/ link_entry(p) \/ link_done(p) \/ link_bad(p) \/ chdir(p)
  \/ write_begin(p) \/ write_unit(p) \/ kexit_close(p) \/ end_op(p)

Enter(p) ==
  \/ \E c \in Calls[p] : PathCall(p, c) \/ sys_close(p, c) \/ sys_dup(p, c) \/ sys_read(p, c)
                      \/ sys_write(p, c)
  \/ \E q \in Proc : kfork(p, q)
  \/ kexit(p)

Next == Crash \/ ireclaim \/ \E p \in Proc : Inside(p) \/ Enter(p)

Spec == Init /\ [][Next]_vars

-----------------------------------------------------------------------------
\* Properties

Live(disk) == {i \in Inum : disk.ino[i].type = "dir" /\ disk.ino[i].nlink > 0}
Ents(disk, i) == {Unit(disk, disk.ino[i], off) : off \in Offsets(disk, disk.ino[i])}
IsDot(e) == e.name \in {".", ".."}

TypeOK ==
  /\ fs.used \subseteq Addr /\ committed.used \subseteq Addr
  /\ \A s \in Slot : fs.tab[s].inum \in 0 .. NINODES /\ fs.tab[s].lock \in Proc \cup {None}
  /\ \A p \in Proc : cwd[p] \in 0 .. NINODE /\ proc[p].ip \in 0 .. NINODE
  /\ \A p \in Proc, fd \in Fd : ofile[p][fd] \in 0 .. NFILE
  /\ boot \in 1 .. NINODES + 1 /\ (\A p \in Proc : ncalls[p] \in 0 .. MAX_CALLS[p]) /\ crashes \in 0 .. MAX_CRASH

\* No panic of fs.c or sysfile.c is reached, and iput() never waits for the lock of an inode
\* (it holds itable.lock) although other processes use the inodes.
NoPanic == ~Panicked

\* The references to an entry of the inode table are those of the current directories, of the
\* open files and of the calls under way (iget(), idup() and iput() are paired on every path
\* through sysfile.c), and those to an open file are the descriptors.  So iput() finds the
\* last reference when it is the last, and nothing panics.
RefsExact ==
  /\ NoPanic
  /\ \A s \in Slot :
       fs.tab[s].ref = Cardinality({p \in Proc : cwd[p] = s})
                     + Cardinality({x \in File : ftable[x].ref > 0 /\ ftable[x].ip = s})
                     + Cardinality({p \in Proc : proc[p].ip = s})
                     + Cardinality({p \in Proc : proc[p].dp = s})
                     + Cardinality({p \in Proc : proc[p].put = s})
  /\ \A x \in File :
       ftable[x].ref = Cardinality({pf \in Proc \X Fd : ofile[pf[1]][pf[2]] = x})

\* What a crash leaves is a file system: an entry names an inode that exists, an inode has as
\* many links as there are entries that name it, the bitmap has exactly the blocks of the
\* inodes, and no block has two uses (create(), link(), unlink() and iput() in one operation).
Fsck(disk) ==
  LET entries == UNION {{<<i, e>> : e \in Ents(disk, i)} : i \in Live(disk)}
      counted(i) == {x \in entries : x[2].inum = i /\ x[2].name # "."}
      used == {i \in Inum : disk.ino[i].type # "none"}
  IN /\ \A x \in entries : disk.ino[x[2].inum].type # "none"
     /\ \A i \in used : disk.ino[i].nlink = Cardinality(counted(i))
     /\ disk.used = UNION {BlocksOf(disk, disk.ino[i]) : i \in used}
     /\ \A i, j \in used : i # j => BlocksOf(disk, disk.ino[i]) \cap BlocksOf(disk, disk.ino[j]) = {}

CrashConsistent == Fsck(committed)

\* An inode without links stays allocated only as long as someone uses it: iput() frees it
\* after the last reference, and ireclaim() what a crash has left over.
NoOrphans ==
  boot = NINODES + 1 /\ (\A p \in Proc : ~proc[p].op) =>
    \A i \in Inum : fs.ino[i].type # "none" /\ fs.ino[i].nlink = 0 => Entries(fs, i) # {}

\* Calls that wait for locks of inodes do not wait for one another in a circle: unlink() takes
\* the lock of a directory and then of what is in it, everything else one lock at a time.
Wanted(p) ==
  CASE proc[p].pc \in {"namex", "create", "exists", "open", "unlink", "unlink2", "link", "link2",
                      "chdir"} -> proc[p].ip
    [] proc[p].pc = "link_bad" -> proc[p].dp
    [] proc[p].pc = "writei" -> ftable[ofile[p][proc[p].call.fd]].ip
    [] OTHER -> 0

NoCircle ==
  \A S \in SUBSET Proc \ {{}} :
    \E p \in S : Wanted(p) = 0 \/ fs.tab[Wanted(p)].lock \notin S

\* What a user sees is a tree of names that calls change atomically (see DirTree), whatever
\* interleaves, and that a crash takes back to the last one saved.
Names(disk) ==
  UNION {{[dir |-> i, name |-> e.name, inum |-> e.inum, isdir |-> disk.ino[e.inum].type = "dir"] :
            e \in {e \in Ents(disk, i) : ~IsDot(e)}} : i \in Live(disk)}

T == INSTANCE DirTree WITH tree <- Names(fs), saved <- Names(committed), ROOT <- ROOTINO,
                           Inums <- Inum, MaxLinks <- NLINK_MAX
IsDirTree == T!Spec
=============================================================================
