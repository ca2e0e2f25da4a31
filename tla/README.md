# Verification of the C shell and the xv6 kernel

The repository holds two systems: an xv6 kernel for RISC-V with a multi-level
feedback queue (MLFQ) scheduler (`src/xv6`), and a POSIX shell with job control
(`src/c-shell`). This directory models them in TLA+, checks
the models with TLC on small instances, and proves the central results with
TLAPS for every value of the constants. `PROJECT.json` maps every definition to
the lines it translates.

## The systems and their parts

**xv6 kernel.** Every CPU runs `scheduler()` (`proc.c`), which scans the process
table for the RUNNABLE process with the least pair (`mlfq_priority`,
`mlfq_qtime`) and switches to it; a timer interrupt (`trap.c`) accounts a tick,
demotes, boosts and preempts. Processes are created, end, and are collected
(`kfork`, `kexit`, `kwait`), are marked by `kkill`, and wait on channels with
`sleep_prepare`/`sleep`/`wakeup`. They talk through pipes (`pipe.c`) and through
a file system whose system calls are operations of a redo log (`log.c`) over a
buffer cache (`bio.c`), inodes and directories (`fs.c`), and open files
(`file.c`, `sysfile.c`). Devices: a virtio disk, a UART and the console. Memory:
`kalloc.c`, `vm.c`, `exec.c`. `mkfs` makes the first disk, and `sh` (`user/sh.c`) is
the user's program.

**C shell.** One thread reads a line, splits it (`lexer.c`, `parser.c`), runs a
builtin in the shell itself (`execute.c`) or launches a pipeline in a process
group of its own (`pipeline.c`), and waits for it. A SIGCHLD handler queues
status changes of children; the queue is drained at the prompt and in foreground
waits (`jobs.c`), where also `resume` (`resume.c`, with a SIGALRM timeout) waits.
Output that is redirected goes to a temporary file and is copied to its targets
when the child has exited (`redirection.c`).

## Modules

| module | code | what it has |
|---|---|---|
| `Mlfq` | `proc.c`, `trap.c` | the MLFQ scheduler on several CPUs, one step per section under a lock |
| `MlfqQueues` | `proc.c` | the same policy on one CPU with explicit queues, for waiting times |
| `MlfqProofs` | | theorems about `Mlfq` |
| `Proc` | `proc.c`, `trap.c` | fork, exit, wait, kill, sleep and wakeup, with `wait_lock` |
| `ProcProofs` | | theorems about `Proc` |
| `Pipe` | `pipe.c`, `proc.c` | reads, writes and closes, byte by byte, with kill |
| `PipeFifo` | | what a pipe promises: a bounded FIFO queue |
| `PipeProofs` | | theorems about `Pipe` |
| `Log` | `log.c`, `bio.c` | operations, commit, recovery, sync and crashes |
| `FsStore` | | what the log promises: atomic, durable operations |
| `LogProofs` | | theorems about `Log` |
| `Disk` | `bio.c`, `sleeplock.c`, `virtio_disk.c` | the buffer cache, its locks, the driver with descriptors, rings and interrupt |
| `BlockStore` | | what the cache promises: blocks with one owner at a time |
| `DiskSteps`, `DiskProofs` | | theorems about `Disk`: the invariants, what keeps them, and why each step is a step of `BlockStore`; the counting of descriptors, and the theorems |
| `Inodes` | `fs.c`, `mkfs.c` | inodes, bitmap, blocks and directories as operators on a disk and the inode table |
| `FileSys` | `sysfile.c`, `file.c`, `fs.c`, `proc.c` | the calls of processes on files, with locks, references and crashes |
| `DirTree` | | what they promise: a tree of names that changes one entry at a time |
| `PageTables` | `kalloc.c`, `vm.c` | free pages and page tables as operators on a machine |
| `Memory` | `exec.c`, `proc.c`, `sysproc.c`, `trap.c`, `syscall.c`, `vm.c` | fork, exec, exit, sbrk, page faults and copies |
| `AddressSpaces` | | what they promise: each process has pages of its own |
| `Sh` | `user/sh.c` | the parser of the xv6 shell, and the processes, pipes and descriptors of a line |
| `Jobs` | `jobs.c`, `pipeline.c`, `resume.c`, `redirection.c`, `main.c`, `ping.c`, `term.c` | job control with its signal handlers |
| `JobsInvariant`, `JobsProofs` | | theorems about `Jobs`: the inductive invariant; that nothing is lost on the way from the kernel to the job table |
| `Lexer` | `lexer.c`, `parser.c` | lines to tokens, and the check of their syntax, with an automaton and a grammar as references |
| `CShell` | `execute.c`, `pipeline.c`, `redirection.c`, `resolver.c`, `hop.c`, `locate.c` | what a line does to files and directories |
| `Peek` | `peek.c` | printing forwards, and backwards by chunks |
| `Snoop` | `snoop.c` | the trace loop, its table and the order of the summary |

`MC*` modules give constants their values. A definition that begins with the
name of another one and an underscore (`LastSlot_Early`) is a faulty variant of it.

### How state and actions correspond to the code

* `Mlfq`: `state`, `prio`, `used`, `qtime` are the fields of `struct proc`. A CPU
  has a program counter and the local variables of the kernel code it is in: the
  position and the candidate of a scan, the tick count that
  `mlfq_maybe_boost()` has read, the position in `mlfq_boost_all()`. Whatever runs
  under one `p->lock`, `tickslock` or `mlfq_boost_lock` is one action; everything
  else interleaves. `ticks` is modulo a power of two, so that the unsigned
  subtraction of `mlfq_maybe_boost()` wraps around as it does in C.
* `Proc`: a process is in user space or at one of the points of `kfork()`,
  `kexit()`, `kwait()` between two lock sections. `wait_lock` is a variable, since
  it is held across several `p->lock` sections. RUNNABLE stands for RUNNING too.
* `Pipe`: `struct pipe` with counters modulo `WORD` (2^32 in the code), and for
  each process where it is in `pipewrite()` or `piperead()`. `pi->lock` is a
  variable. Bytes are moved one per step because `killed()` and processes between
  `sleep_prepare()` and `sleep()` are not protected by the lock.
* `Log`: the disk (home blocks, log blocks, header), what the log sees of the
  buffer cache (pinned buffers stay, any other may be dropped at any time),
  `struct log`, and a position in `commit()` or `recover_from_log()`. Each block
  write is one step, and `Crash` may happen between any two. A block's contents
  are the set of the operations that have changed it.
* `Disk`: `struct buf` and the LRU list, `struct disk` with its descriptors, and a
  position in `bread()`, `bwrite()` or `virtio_disk_rw()` for each process. The
  device finishes requests in any order, and works on while the interrupt handler
  reads the used ring. A block holds one of two values.
* `Inodes` and `FileSys`: the disk as the buffer cache shows it, the inode table,
  open files and descriptors, and a position in a system call. What happens under
  one inode's lock is a step, except that `iput()`, whose correctness depends on what
  it does between locks, has a step for each section. The log is what `FsStore`
  promises: when the last operation ends, the disk as it is becomes the one that a
  crash returns to. `mkfs` builds the first disk; `ireclaim()` runs after each crash.
* `PageTables` and `Memory`: the free list, the pages and their contents, three
  levels of page tables with two entries each. A system call is one step, because a
  page table belongs to one process; pipes take and return pages in between, so any
  allocation can fail.
* `Sh`: the line is parsed character by character by the functions of `sh.c`; each
  process then runs its part of the tree, and every system call that another process
  could notice is a step. Programs are external: one writes its arguments, one copies
  its input.
* `Jobs`: the job table, the event queue, the output registry, the shell's
  position, and for each child what the kernel knows of it. The handlers are
  actions that are enabled unless the code blocks the signal. A stage of a pipeline
  can fail to start (`StageFails`), and so can its `fork()` (`ForkFails`): the code
  then registers the pid -1 like any other, and no event ever names it. An output is
  not copied yet, copied early (before its process had exited) or copied whole.
* `CShell`: `Enter` takes a line; a builtin is one step (`RunBuiltin`), and so is the
  launch of a group (`LaunchGroup`), the record that the functions pass on holding what
  it has changed so far. In the wait the processes of the group end in any order
  (`Ends`), and background processes end (`Reap`) in between or at the prompt, when
  their output is copied in the directory the shell is in by then; `GroupOver` goes on
  with the line. An output is copied piece by piece, each piece to all targets. `Tick`
  and `Rmdir` are the world outside: time passes for the frecency scores, a directory
  that `hop` remembers disappears.
* `Snoop`: the loop is a function of what `waitpid()` returns: system-call stops, plain
  traps, signals, a stop whose registers can no longer be read, and an error.

## What is checked

| run | instance | shows |
|---|---|---|
| `mlfq_smp` | 2 CPUs, 2 slots, 2 levels | no process on two CPUs; a used slice is never kept; a scan's candidate is no worse than what it passed; of the processes that stayed in their places during a scan the first one is dispatched |
| `mlfq_smp_boost` | the same | violated: two boosts in one window (see the disagreements below) |
| `queues_fair` | 3 slots, level-0 slice 2, interval 3, no bound on time | nobody RUNNABLE starves as long as at most two processes want the CPU |
| `proc` | 3 slots, 3 pids | no lost wakeup in `kwait()`; parents are alive; every zombie is reaped |
| `pipe` | 1 reader, 2 writers, 2 bytes, counters modulo 4, one kill | FIFO contents (refinement of `PipeFifo`), no lost wakeup, final EOF, readers are served |
| `log` | 2 processes, 2 blocks, 3 operations, 2 crashes | atomicity (refinement of `FsStore`), `sync()` durable, no panic |
| `jobs` | 2 children, jobs of one or two, with stages that are not found and forks that fail, one stop each | exits are not lost, `activities` is up to date, output is copied, whole unless its process was stopped; a wait for a job of one process ends |
| `disk` | 2 processes, 3 blocks, 2 buffers, 5 or 6 descriptors, kills | descriptors kept, no lost wakeup, every request answered; refinement of `BlockStore` |
| `filesys` | 2 processes, 4 inodes, 7 blocks, 1 + 3 calls, 1 crash | names form a tree and change atomically (refinement of `DirTree`); references are exact and nothing panics; after a crash the disk is consistent and nothing is leaked; no circle of locks |
| `memory` | 2 processes, 24 pages, 4 calls, 1 pipe | nothing panics, no page is lost or used twice; refinement of `AddressSpaces` |
| `sh` | every line of up to 5 characters parsed; 11 lines run by 6 processes on pipes of one unit | the parser accepts the grammar and builds its tree; a line does what its tree means; the prompt returns |
| `cshell` | every line of up to 5 characters lexed; 14 lines, 3 in a row, 4 directories, a registry of 2 | lexer and parser agree with their references, `peek` reverses, `snoop` counts; redirections leave files as the line means, in whichever order processes end; background output arrives |

Modules also state properties that no run lists: the type invariants,
`TicketsDistinct`, `FreedLast`, `OneCopy`, the `NoLostWakeup` of `Log`, `ExitIsLast`,
`DoneHasExited` and `RemovedWhenExited`, of which those of `Mlfq`, `Proc`, `Pipe`,
`Log`, `Disk` and `Jobs` are proved, except the `TypeOK` of `Jobs`; and
`KilledOnPurpose`, `OwnTables`, `OnlyStandardFds`, `ForegroundIsDone`,
`RegistryOfTheLiving`, `StdioIsBack`, `LocateFindsWhatRuns`, `VisitsCounted` and
`QuotingWorks`. They hold on the same instances; adding one to a `.cfg` checks it.

**Bounds.** `MAX_SEQ` bounds the arrival numbers of `Mlfq`; at 5 a process is queued,
runs, is demoted, boosted and queued again beside another one. `TICK_MOD` is twice the
boost interval, so that a stale tick count can be on either side of the last boost.
`MAX_PID` and `NPROC` leave room for a parent, a child and init: orphans are
reparented and reaped. In `Pipe` the pipe holds two bytes and calls are for none or
two: writers fill it in the middle of a call; the counters wrap around twice in its
capacity. In `Log` three operations of two processes make commits with one and with
two operations, begins that wait for space and for commits, and two crashes stop a
commit and then its recovery; two blocks do not fill the log, so that the log always
has room is left to the theorem `NeverPanics`. In `MlfqQueues` the boost interval has
room for the first slices of two processes and there are three slots, so the condition
of `NoStarvation` (`FewBusy`) matters: without it TLC finds a process that starves. In
the code the condition is that at most 48 / 1 + 1 processes want the CPU, and `NPROC`
is 64: with more of them each boost stamps the processes in slot order before the last
one has had its turn, and the high slots starve. `Jobs` has one or two children, which
makes every order of the events of a pipeline, also of one whose first stage is not
found; the queue has room for all of them. In `Disk` five descriptors are enough for
one request and six for two, so that processes wait for descriptors and for each
other's buffers; two buffers for three blocks force eviction. In `FileSys` a block has
two units and an inode one direct and two indirect blocks: the root directory reaches
into the indirect block, and seven blocks run out, though not while a `write()` is
under way. In `Memory` the first process has ten or eleven of the 24 pages, so that
allocations of a fork or an exec beside it fail, and states with no free page occur;
the end of a segment is taken modulo `WORD` (2^64 in the code), and one program has a
segment whose end does not fit. In `Sh` the process table and the table of open
files run out on the longest pipeline, so that forks and pipes fail, and a pipe of one
unit makes writers wait; the six descriptors of a process never run out, and neither
does the open-file table at a redirection. In `CShell` three lines are enough to fill
the registry and to forget an output, and to leave the directory of a background
process before it ends; one unit is copied at a time, so that a target named twice
gets its copies mixed; `peek` has chunks of two characters and texts of up to five;
the traces of `snoop` have up to eight stops, two of them no system calls, and a table
of three, so that the order of equals is used.

**Deadlock** is checked except in `pipe`, `jobs`, `filesys`, `memory`, `sh` and
`cshell`, where the processes may all be gone or the bounds on calls and lines are
reached.

**Fairness.** `MlfqQueues`: the CPU dispatches and the timer ticks, the tick with
strong fairness because a process may block before each. `Proc`: a process in
the kernel goes on, takes `wait_lock` if it is free again and again (spinlocks
are not fair, but a waiter that loses forever is an execution the code's short
sections exclude in practice; strong fairness says so), a killed process exits,
and init waits, which is its program. `Pipe`: a process in the kernel goes on and
gets the lock in the end. `Jobs`: the shell goes on, and signals are delivered.
`Disk`: the device finishes a request it has, interrupts are taken, and a process
whose request is over gets `vdisk_lock` in the end (strong fairness, because the
handler can take it again and again). `Sh`: each process goes on if it can.
Nothing is assumed of users or children.

## What is proved

With TLAPS, for every number of CPUs, processes, blocks, bytes, operations and
crashes:

* **Mlfq** (`MlfqProofs`): the type invariant; a process is on at most one CPU
  and exactly those are RUNNING; arrival numbers are distinct; no process in the
  pool has used up its slice; the scan's candidate is sound. The inductive
  invariant adds where each CPU is: the process it carries, and what the position
  of a scan or of a boost says about the part of the table that it has passed.
  `DispatchesTheBest` (`StrictPriority`) uses that a candidate which is still in its place
  has the priority and the arrival number that the scan has read (`CandidateInPlace`).
  Other CPUs may move processes during a scan, so the theorem, like the property, is
  about those that stayed RUNNABLE and in their places; on one CPU these are all.
* **Proc** (`ProcProofs`): the type invariant, `ParentAlive`, `WaitNotLost`. The
  invariant ties the holder of `wait_lock` to program counters, and says how far
  a reparenting has got: a dying process has no children in the slots passed.
* **Pipe** (`PipeProofs`): `NoLostWakeup`, `EofIsFinal`, `FreedLast`, the type
  invariant with the bound of the pipe's contents, and `Refinement` (`Spec => IsFifo`),
  all with wrapping counters. The invariant says who holds the lock, that a process
  inside keeps its end open, and, between lock sections, what a sleeper waits for.
  Counters are related through their distance modulo `WORD`. For the queue, `WORD` is a
  multiple of `PIPESIZE` (in the code both are powers of two), so slots stay in order
  when a counter wraps (`WrapsToSlot`), bytes in the pipe have different slots
  (`SlotsApart`), and a write appends to the queue and a read removes its head
  (`Putting`, `Getting`).
* **Log** (`LogProofs`): `Refinement` (`Spec => IsAtomic`: the log implements
  `FsStore`), `SyncsSurvive`, `WakeupsNotLost`, `NeverPanics`, `TypeCorrect`. The inductive
  invariant `IInv` says that `outstanding` counts the processes in an operation;
  that commit, recovery and operations exclude each other (`Modes`); that the
  header in memory and the one on disk agree while blocks are installed
  (`Headers`); and that a buffer differs from its block only if the block is
  logged, which pins it until it is installed (`Buffers`). From it each step is
  shown to change what recovery would give (`Recovered`) and what operations see
  (`View`) as a step of `FsStore`: only the header write changes `Recovered`, to
  `View`, with no operation active. For `sync()` a second invariant says what is
  promised to a caller that waits. For the panics a third one (`RoomInv`) counts
  credits: an operation that has changed k blocks has `MAXOPBLOCKS` - k left, and the
  log has room for all of them together.
* **Disk** (`DiskSteps`, `DiskProofs`): `Refinement` (`Spec => IsBlockStore`: cache, locks
  and driver implement `BlockStore`), `DescriptorsSafe` (`DescriptorsKept`),
  `CopiesUnique` (`OneCopy`), `SleepersWoken` (`NoLostWakeup`) and `TypeCorrect`. `IInv` has
  the types of the cache, that the LRU list is a permutation, which moving a buffer to
  its head keeps (`MovedKeeps`), and that a process between `bget()` and `brelse()` has
  a buffer. `RInv` adds the driver: who owns which buffer (`Held`), that chains of
  descriptors are disjoint and three long (`Chains`, `Counted`), which requests are in
  which ring (`Rings`), and what buffer, request and disk hold at each point of a
  request (`Contents`). Each step is then a step of `BlockStore` or leaves it alone
  (`StepRefines`).
* **Jobs** (`JobsInvariant`, `JobsProofs`), for every number of children, every set of
  pipelines and every size of the tables. Without further hypotheses, also when the
  queue overflows: `ExitCollectedOnce` (`ExitIsLast`), `DoneOnlyWhenExited`
  (`DoneHasExited`) and `RemovedOnlyWhenExited` (`RemovedWhenExited`). The inductive
  invariant `JobsInv` says that what the kernel has to report of a child is the state the
  child is in (`Reports`), that nothing of a process is queued after its exit
  (`ExitsLast`), that a process that counts as done has exited and has no event left
  (`DoneSettled`), and that a process belongs to one job or to the group being launched
  or waited for (`Membership`).
  If the handler never finds its queue of 256 entries full (`NothingDropped`):
  `OutputIsDelivered` (`OutputDelivered`), `ExitsNotLost` (`ExitNotLost`) and
  `ActivitiesAreUpToDate` (`ActivitiesUpToDate`). Here the
  invariant is `Heard`: the last queued event of a child tells of the state it is in
  (`QueueTells`), no event is applied during a launch (`LaunchedRunning`), and of an exit
  that is neither in the kernel nor in the queue the table and the wait have heard
  (`ExitsApplied`). For outputs a second invariant says that whatever tells of a stop or
  of a continuation, a report, a queued event or an early copy, is of a process that has
  been stopped (`StopsCounted`); for `activities` a third one says of a stop what
  `ExitsApplied` says of an exit (`StopsApplied`). In the instance of `jobs` the queue has room for every
  event, so all its behaviours meet the hypothesis.
  What `activities` shows is right for a process that is in the group the table has for
  its job, which is part of the property: after a first stage that is not found the
  code leaves the job's group 0, `resume` reaches no process of it, and the table shows
  a stopped job as running. For the same reason `SingleWaitEnds` asks it of a process
  that `resume` waits for.

The theorems assume of the constants only what the named ASSUMEs state, e.g. that
an operation changes fewer than `MAXOPBLOCKS` blocks in `Log` (`log_write()` panics
on a full log even for a block that it holds already), and what a theorem's own
ASSUME says.

Model-checked and not proved: liveness (`NoStarvation`, `OrphansReaped`,
`ReaderServed`, `SingleWaitEnds`, `Answered`, `PromptReturns`), which is out of the
prover's reach; `PagesAccounted` and `IsAddressSpaces` of `Memory`, and `RefsExact`,
`CrashConsistent`, `NoOrphans`, `NoCircle` and `IsDirTree` of `FileSys`, whose operators walk
page tables and directories; and everything about the two shells' lines, whose operators are
recursive.

## Disagreements between code and comments

While modelling, these differences between what the code does and what a comment
says came up. For the first four items a property of a module states the claim, and
the configuration named with it makes TLC print a behaviour that violates it; the first
one is a run of the project.

* `proc.c:100` promises one boost per window for all harts. On two CPUs a tick count
  that was read before another CPU boosted makes the unsigned difference wrap, and a
  second boost starts (`BoostOncePerWindow`; the run `mlfq_smp_boost`). `report.md:31` says
  the same as the comment.
* `proc.c:814` says when the victim of `kkill()` exits, on its way back to user space,
  and `kkill()` wakes it up for that. A process that is marked between
  `sleep_prepare()` and `sleep()` is not woken up, and may never get there
  (`VictimExits`, `proc_kill_sleep.cfg`).
* `resume.c:75` waits "exactly like a fresh foreground launch would". A pipeline of
  which one process had exited before the stop is waited for forever (`WaitEnds`,
  `jobs_pair_wait.cfg`), and the stop of its second process can end the next wait at
  once (`StopIsNew`, `jobs_stale_stop.cfg`).
* `redirection.h:19` has `outreg_finalize()` called once the process has exited.
  `handle_tracked_event()` calls it for a stop as well, and what the process writes after
  that is lost (`FinalizedHasExited`, `jobs_output.cfg`).
* `redirection.c:47` says that the output of a background process is copied into every
  target. The names are relative, and after a `hop` they are names in another
  directory: the output stays in its temporary file, and the targets are created
  empty where the shell is. `hop d > f` does the same to itself. `RedirectsAsMeant` and
  `JobOutputArrives` are about a shell that stays where it is.
* `execute.c:22` calls builtins "just another kind of CMD in the grammar"; a line that
  starts with one is given to it whole, with `;`, `|` and `&` as arguments.
* Where the directory cannot be written to, `setup_input()` returns the value that means
  "no input was asked for" (`redirection.c:16`), and a command in a pipeline runs on the
  terminal's input instead of failing.
* `peek -r` prints nothing for a file that is a single newline; `peek` prints an empty line.

## What is not modelled

* **Console and UART** (`console.c`, `uart.c`), **PLIC**: left out, not out of reach. The
  console's ring buffer and the UART's transmit wait could be modules like `Pipe`.
* **Traps, context switches, boot**: register saves, argument fetching, ELF details
  beyond what `exec()` does with memory. Memory ordering is the hardware's: a section
  under a spinlock is one step.
* **The round-robin build** of the scheduler: one pass over the table, part of what
  `Mlfq` has.
* **C shell**: `reveal`, `spy` and the prompt, which only format what they read; how `snoop`
  starts and attaches to a process, and its `waitpid()` against the SIGCHLD handler; the
  text format of the frecency file and two shells that use it at once; arrays whose
  bounds the code does not check (16 redirections of a builtin, 32 processes of a
  foreground wait, 128 stages).
* **xv6 shell**: `cd` and lines longer than its buffer.
* **Test programs** and the user library: sequential users of the calls modelled here.
