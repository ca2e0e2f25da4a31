---------------------------------- MODULE Sh ----------------------------------
(* The xv6 shell, user/sh.c.  A line is typed, the shell forks a child, the    *)
(* child parses the line by recursive descent into a tree of commands and      *)
(* runs the tree: a process per stage, pipes and redirections set up with      *)
(* close, dup and open, and a wait(0) for every foreground child.              *)
(*                                                                             *)
(* A character is a one-letter string and a line a sequence of characters.     *)
(* A program is external: "e" writes its arguments, one unit each, and "c"     *)
(* copies its standard input to its standard output until end of file.         *)
EXTENDS Naturals, Sequences, FiniteSets, FiniteSetsExt, SequencesExt, TLC

CONSTANTS
    MAXARGS,     \* the arguments of a command, the terminating 0 included
    NPROC,       \* the process table
    NOFILE,      \* the descriptors of a process
    NFILE,       \* the open-file table
    PIPESIZE,    \* the units a pipe holds
    CHARS,       \* the characters that are typed
    MAXLINE,     \* bound: the length of a line that is typed freely
    LINES,       \* the lines that are entered
    STORES,      \* what the files may be at first
    MAXLINES     \* bound: the number of lines entered

ASSUME ShAssumption ==
    /\ {MAXARGS, NPROC, NOFILE, NFILE, PIPESIZE, MAXLINE, MAXLINES} \subseteq Nat
    /\ NPROC >= 2 /\ NOFILE >= 5

-------------------------------------------------------------------------------
(* Tokens.  A position past the end of the line holds the terminating NUL.     *)

NUL == "NUL"

whitespace == {" "}

symbols == {"<", "|", ">", "&", ";", "(", ")"}

Char(l, s) == IF s > Len(l) THEN NUL ELSE l[s]

\* The first position from s on that is not blank, and that ends a word.
Blank(l, s) == Min({k \in s .. Len(l) + 1 : Char(l, k) \notin whitespace})

WordEnd(l, s) == Min({k \in s .. Len(l) + 1 : Char(l, k) \in whitespace \union symbols \union {NUL}})

Operator(l, q) ==
    IF Char(l, q) = ">" /\ Char(l, q + 1) = ">" THEN [tok |-> "+", len |-> 2]
    ELSE [tok |-> Char(l, q), len |-> IF Char(l, q) = NUL THEN 0 ELSE 1]

Token(l, q, op) ==
    IF Char(l, q) \in symbols \union {NUL}
    THEN [tok |-> op.tok, word |-> <<>>, s |-> Blank(l, q + op.len)]
    ELSE [tok |-> "a", word |-> SubSeq(l, q, WordEnd(l, q) - 1), s |-> Blank(l, WordEnd(l, q))]

\* [tok, word, s]: the token at s, the text of a word, and where the next starts.
gettoken(l, s) == Token(l, Blank(l, s), Operator(l, Blank(l, s)))

peek(l, s, toks) == Char(l, Blank(l, s)) \in toks

-------------------------------------------------------------------------------
(* The tree of commands, and the parser.  A parsing step returns the position  *)
(* it reached and what it built; ok is FALSE once the parser has panicked.     *)

execcmd(argv) == [type |-> "EXEC", argv |-> argv]

redircmd(cmd, r) == [type |-> "REDIR", cmd |-> cmd, op |-> r.op, file |-> r.file]

pipecmd(left, right) == [type |-> "PIPE", left |-> left, right |-> right]

listcmd(left, right) == [type |-> "LIST", left |-> left, right |-> right]

backcmd(cmd) == [type |-> "BACK", cmd |-> cmd]

Panic == [ok |-> FALSE]

Parsed(s, val) == [ok |-> TRUE, s |-> s, val |-> val]

\* Each redirection wraps the command read so far.
RECURSIVE Wrap(_, _)
Wrap(cmd, rs) == IF rs = <<>> THEN cmd ELSE Wrap(redircmd(cmd, Head(rs)), Tail(rs))

RECURSIVE parseredirs(_, _, _)

RedirFile(l, op, file, rs) ==
    IF file.tok # "a" THEN Panic
    ELSE parseredirs(l, file.s, Append(rs, [op |-> op, file |-> file.word]))

Redir(l, t, rs) == RedirFile(l, t.tok, gettoken(l, t.s), rs)

parseredirs(l, s, rs) ==
    IF peek(l, s, {"<", ">"}) THEN Redir(l, gettoken(l, s), rs) ELSE Parsed(s, rs)

RECURSIVE ExecWords(_, _, _)

ExecWord(l, s, argv, rs, t) ==
    IF t.tok = NUL THEN Parsed(s, Wrap(execcmd(argv), rs))
    ELSE IF t.tok # "a" \/ Len(argv) + 1 >= MAXARGS THEN Panic
    ELSE ExecWords(l, Append(argv, t.word), parseredirs(l, t.s, rs))

\* The words of a command, after the redirections r read so far.
ExecWords(l, argv, r) ==
    IF ~r.ok THEN Panic
    ELSE IF peek(l, r.s, {"|", ")", "&", ";"}) THEN Parsed(r.s, Wrap(execcmd(argv), r.val))
    ELSE ExecWord(l, r.s, argv, r.val, gettoken(l, r.s))

RECURSIVE parseline(_, _)
RECURSIVE parsepipe(_, _)

Wrapped(cmd, r) == IF r.ok THEN Parsed(r.s, Wrap(cmd, r.val)) ELSE Panic

BlockEnd(l, body) ==
    IF ~body.ok \/ ~peek(l, body.s, {")"}) THEN Panic
    ELSE Wrapped(body.val, parseredirs(l, gettoken(l, body.s).s, <<>>))

parseblock(l, s) == BlockEnd(l, parseline(l, gettoken(l, s).s))

parseexec(l, s) ==
    IF peek(l, s, {"("}) THEN parseblock(l, s) ELSE ExecWords(l, <<>>, parseredirs(l, s, <<>>))

\* type is "PIPE" or "LIST".
Joined(type, left, right) ==
    IF ~right.ok THEN Panic
    ELSE Parsed(right.s, IF type = "PIPE" THEN pipecmd(left.val, right.val)
                         ELSE listcmd(left.val, right.val))

PipeTail(l, left) ==
    IF left.ok /\ peek(l, left.s, {"|"})
    THEN Joined("PIPE", left, parsepipe(l, gettoken(l, left.s).s)) ELSE left

parsepipe(l, s) == PipeTail(l, parseexec(l, s))

\* Variant: a single & is read.
Backs_Once(l, s, cmd) ==
    IF peek(l, s, {"&"}) THEN Parsed(gettoken(l, s).s, backcmd(cmd)) ELSE Parsed(s, cmd)

RECURSIVE Backs(_, _, _)
Backs(l, s, cmd) ==
    IF peek(l, s, {"&"}) THEN Backs(l, gettoken(l, s).s, backcmd(cmd)) ELSE Parsed(s, cmd)

ListTail(l, left) ==
    IF peek(l, left.s, {";"}) THEN Joined("LIST", left, parseline(l, gettoken(l, left.s).s)) ELSE left

LineTail(l, first) == IF first.ok THEN ListTail(l, Backs(l, first.s, first.val)) ELSE Panic

parseline(l, s) == LineTail(l, parsepipe(l, s))

Whole(l, cmd) == IF cmd.ok /\ Blank(l, cmd.s) > Len(l) THEN cmd ELSE Panic

\* What is left over after the line is a syntax error.
parsecmd(l) == Whole(l, parseline(l, 1))

-------------------------------------------------------------------------------
(* Running the tree.  A process has a parent, a command to run, descriptors    *)
(* (0 is closed) and, once it has become a program, units still to write.      *)
(* An open file is the console, an end of a pipe, or a file with an offset,    *)
(* shared by every descriptor that a fork or a dup made of it.                 *)

VARIABLES
    line,      \* what is typed at the prompt
    entered,   \* the number of lines entered
    proc,      \* pid -> process; 1 is the shell
    ofile,     \* the open-file table
    pipe,      \* what each pipe holds
    files,     \* name -> contents, for the files that exist
    console,   \* what has been written to the console
    disturbed, \* a fork or a pipe of this line failed, or a process was left over
    before     \* files, when the line was entered

vars == <<line, entered, proc, ofile, pipe, files, console, disturbed, before>>

PIDS == 1 .. NPROC

FDS == 0 .. NOFILE - 1

OFILES == 1 .. NFILE

Unused == [pc |-> "UNUSED"]

\* The console is open file 1; 0 is no file.
Tty == [type |-> "console"]

Standard == [fd \in FDS |-> IF fd < 3 THEN 1 ELSE 0]

Process(parent, pc, cmd, fds, back) ==
    [parent |-> parent, pc |-> pc, cmd |-> cmd, fds |-> fds, back |-> back, out |-> <<>>,
     ends |-> <<0, 0>>, reads |-> FALSE]

Live(p) == proc[p].pc \notin {"UNUSED", "ZOMBIE"}

\* The open files that some live process has a descriptor for.
InUse == UNION {{proc[p].fds[fd] : fd \in FDS} : p \in {q \in PIDS : Live(q)}}

FreeFds(fds) == {fd \in FDS : fds[fd] = 0}

\* dup: the lowest free descriptor.
Dup(fds, f) == [fds EXCEPT ![Min(FreeFds(fds))] = f]

FreePids == {p \in PIDS : proc[p].pc = "UNUSED"}

FreeFiles == OFILES \ InUse

ReadersOf(i) == \E f \in InUse \ {0} : ofile[f] = [type |-> "read", pipe |-> i]

WritersOf(i) == \E f \in InUse \ {0} : ofile[f] = [type |-> "write", pipe |-> i]

\* exit: what the process table is after p exits in it.  A child of p goes to
\* init, which reaps it as soon as it is a zombie.
Exited(table, p) ==
    [q \in PIDS |->
        IF q = p THEN IF table[p].parent = 0 THEN Unused
                      ELSE [pc |-> "ZOMBIE", parent |-> table[p].parent]
        ELSE IF table[q].pc # "UNUSED" /\ table[q].parent = p
             THEN IF table[q].pc = "ZOMBIE" THEN Unused ELSE [table[q] EXCEPT !.parent = 0]
        ELSE table[q]]

Exit(p) == proc' = Exited(proc, p)

\* fork1: the child gets the lowest free slot; with none free the parent panics.
fork1(p, child, parent) ==
    IF FreePids = {} THEN disturbed' = TRUE /\ Exit(p)
    ELSE /\ proc' = [proc EXCEPT ![Min(FreePids)] = child, ![p] = parent]
         /\ UNCHANGED disturbed

Zombies(p) == {q \in PIDS : proc[q].pc = "ZOMBIE" /\ proc[q].parent = p}

\* wait(0): any zombie child is reaped, and the caller goes on as given.
wait(p, next) ==
    /\ Zombies(p) # {}
    /\ proc' = [proc EXCEPT ![Min(Zombies(p))] = Unused, ![p] = next]

Runs(p, type) == proc[p].pc = "run" /\ proc[p].cmd.type = type

-------------------------------------------------------------------------------
(* The shell itself.                                                           *)

Type ==
    /\ proc[1].pc = "prompt" /\ entered = 0 /\ Len(line) < MAXLINE
    /\ \E c \in CHARS : line' = Append(line, c)
    /\ UNCHANGED <<entered, proc, ofile, pipe, files, console, disturbed, before>>

\* main: a blank line is skipped; otherwise a child parses and runs the line.
\* The child of a line that does not parse panics, which is its exit.  With no
\* process left the shell panics, and init starts another one at its prompt.
main(l) ==
    LET cmd == parsecmd(l)
    IN /\ proc[1].pc = "prompt" /\ entered < MAXLINES /\ (entered = 0 => line = <<>>)
       /\ line' = l /\ entered' = entered + 1
       /\ console' = <<>> /\ disturbed' = (\E p \in PIDS \ {1} : Live(p)) /\ before' = files
       /\ proc' = IF Blank(l, 1) > Len(l) \/ FreePids = {} THEN proc
                  ELSE [proc EXCEPT ![1].pc = "wait",
                            ![Min(FreePids)] =
                                IF cmd.ok THEN Process(1, "run", cmd.val, proc[1].fds, FALSE)
                                ELSE [pc |-> "ZOMBIE", parent |-> 1]]
       /\ UNCHANGED <<ofile, pipe, files>>

mainWait ==
    /\ proc[1].pc = "wait"
    /\ wait(1, [proc[1] EXCEPT !.pc = "prompt"])
    /\ UNCHANGED <<line, entered, ofile, pipe, files, console, disturbed, before>>

-------------------------------------------------------------------------------
(* runcmd, a case of its switch at a time.                                     *)

\* EXEC: no command and a command that does not exist end in exit.
runExec(p) ==
    LET argv == proc[p].cmd.argv
    IN /\ Runs(p, "EXEC")
       /\ proc' = IF argv # <<>> /\ argv[1] \in {<<"e">>, <<"c">>}
                  THEN [proc EXCEPT ![p].pc = "program",
                                    ![p].out = IF argv[1] = <<"e">> THEN Tail(argv) ELSE <<>>,
                                    ![p].reads = argv[1] = <<"c">>]
                  ELSE Exited(proc, p)
       /\ UNCHANGED <<line, entered, ofile, pipe, files, console, disturbed, before>>

\* Variant: >> truncates as > does.
runRedir_Truncates(p) ==
    LET c   == proc[p].cmd
        fd  == IF c.op = "<" THEN 0 ELSE 1
        f   == Min(FreeFiles)
    IN /\ Runs(p, "REDIR")
       /\ IF (c.op = "<" /\ c.file \notin DOMAIN files) \/ FreeFiles = {}
          THEN Exit(p) /\ UNCHANGED <<ofile, files>>
          ELSE /\ proc' = [proc EXCEPT ![p].cmd = c.cmd, ![p].fds = Dup([@ EXCEPT ![fd] = 0], f)]
               /\ ofile' = [ofile EXCEPT ![f] = [type |-> "file", file |-> c.file, off |-> 0]]
               /\ files' = IF c.op # "<" THEN (c.file :> <<>>) @@ files ELSE files
       /\ UNCHANGED <<line, entered, pipe, console, disturbed, before>>

\* REDIR: close the descriptor and open the file, which takes its place.
runRedir(p) ==
    LET c   == proc[p].cmd
        fd  == IF c.op = "<" THEN 0 ELSE 1
        fds == [proc[p].fds EXCEPT ![fd] = 0]
        f   == Min(FreeFiles)
    IN /\ Runs(p, "REDIR")
       /\ IF (c.op = "<" /\ c.file \notin DOMAIN files) \/ FreeFiles = {}
          THEN Exit(p) /\ UNCHANGED <<ofile, files>>
          ELSE /\ proc' = [proc EXCEPT ![p].cmd = c.cmd, ![p].fds = Dup(fds, f)]
               /\ ofile' = [ofile EXCEPT ![f] = [type |-> "file", file |-> c.file, off |-> 0]]
               /\ files' = IF c.op = ">" \/ c.file \notin DOMAIN files
                           THEN (c.file :> <<>>) @@ files ELSE files
       /\ UNCHANGED <<line, entered, pipe, console, disturbed, before>>

\* LIST: the left side in a child, then the right side in this process.
runList(p) ==
    /\ Runs(p, "LIST")
    /\ fork1(p, Process(p, "run", proc[p].cmd.left, proc[p].fds, proc[p].back),
                [proc[p] EXCEPT !.pc = "list"])
    /\ UNCHANGED <<line, entered, ofile, pipe, files, console, before>>

runListWait(p) ==
    /\ proc[p].pc = "list"
    /\ wait(p, [proc[p] EXCEPT !.pc = "run", !.cmd = proc[p].cmd.right])
    /\ UNCHANGED <<line, entered, ofile, pipe, files, console, disturbed, before>>

Closed(fds, set) == [fd \in FDS |-> IF fd \in set THEN 0 ELSE fds[fd]]

\* PIPE, the descriptors of a child: fd becomes the end of the pipe, and both
\* ends are closed.
Stage(fds, fd, end, ends) ==
    Closed(Dup(Closed(fds, {fd}), fds[end]), {ends[1], ends[2]})

\* pipe(p) and the fork of the left side.
runPipe(p) ==
    LET i    == Min({k \in 1 .. NFILE : ~ReadersOf(k) /\ ~WritersOf(k)})
        r    == Min(FreeFiles)
        w    == Min(FreeFiles \ {r})
        fds  == Dup(Dup(proc[p].fds, r), w)
        ends == <<Min(FreeFds(proc[p].fds)), Min(FreeFds(proc[p].fds) \ {Min(FreeFds(proc[p].fds))})>>
    IN /\ Runs(p, "PIPE")
       /\ IF Cardinality(FreeFiles) < 2 \/ Cardinality(FreeFds(proc[p].fds)) < 2
          THEN Exit(p) /\ disturbed' = TRUE /\ UNCHANGED <<ofile, pipe>>
          ELSE /\ ofile' = [ofile EXCEPT ![r] = [type |-> "read", pipe |-> i],
                                         ![w] = [type |-> "write", pipe |-> i]]
               /\ pipe' = [pipe EXCEPT ![i] = <<>>]
               /\ fork1(p, Process(p, "run", proc[p].cmd.left, Stage(fds, 1, ends[2], ends),
                                   proc[p].back),
                           [proc[p] EXCEPT !.pc = "right", !.fds = fds, !.ends = ends])
       /\ UNCHANGED <<line, entered, files, console, before>>

\* Variant: the parent waits with both ends still open.
runPipeRight_Open(p) ==
    LET ends == proc[p].ends
    IN /\ proc[p].pc = "right"
       /\ fork1(p, Process(p, "run", proc[p].cmd.right,
                           Stage(proc[p].fds, 0, ends[1], ends), proc[p].back),
                   [proc[p] EXCEPT !.pc = "wait2"])
       /\ UNCHANGED <<line, entered, ofile, pipe, files, console, before>>

\* The fork of the right side; the parent then closes both ends.
runPipeRight(p) ==
    LET ends == proc[p].ends
    IN /\ proc[p].pc = "right"
       /\ fork1(p, Process(p, "run", proc[p].cmd.right,
                           Stage(proc[p].fds, 0, ends[1], ends), proc[p].back),
                   [proc[p] EXCEPT !.pc = "wait2",
                                   !.fds = Closed(proc[p].fds, {ends[1], ends[2]})])
       /\ UNCHANGED <<line, entered, ofile, pipe, files, console, before>>

\* The two waits, and the exit after the second.
runPipeWait(p) ==
    /\ \/ proc[p].pc = "wait2" /\ wait(p, [proc[p] EXCEPT !.pc = "wait1"])
       \/ proc[p].pc = "wait1" /\ wait(p, [proc[p] EXCEPT !.pc = "exit"])
       \/ proc[p].pc = "exit" /\ Exit(p)
    /\ UNCHANGED <<line, entered, ofile, pipe, files, console, disturbed, before>>

\* BACK: the command in a child nobody waits for.
runBack(p) ==
    /\ Runs(p, "BACK")
    /\ fork1(p, Process(p, "run", proc[p].cmd.cmd, proc[p].fds, TRUE),
                [proc[p] EXCEPT !.pc = "exit"])
    /\ UNCHANGED <<line, entered, ofile, pipe, files, console, before>>

-------------------------------------------------------------------------------
(* The programs, as far as the shell sees them.                                *)

\* Write(data, u, off): u at offset off, as xv6 writes it.
Write(data, u, off) == IF off < Len(data) THEN [data EXCEPT ![off + 1] = u] ELSE Append(data, u)

\* Whether the write end of pipe i takes a unit.
Room(i) == Len(pipe[i]) < PIPESIZE

ProgramWrite(p) ==
    LET f == proc[p].fds[1]
        o == ofile[f]
        u == Head(proc[p].out)
        sent == proc' = [proc EXCEPT ![p].out = Tail(@)]
    IN /\ proc[p].pc = "program" /\ proc[p].out # <<>>
       /\ \/ /\ o.type = "console"
             /\ sent /\ console' = Append(console, u)
             /\ UNCHANGED <<ofile, pipe, files>>
          \/ /\ o.type = "file"
             /\ sent /\ files' = [files EXCEPT ![o.file] = Write(@, u, o.off)]
             /\ ofile' = [ofile EXCEPT ![f].off = @ + 1]
             /\ UNCHANGED <<pipe, console>>
          \/ /\ o.type = "write"
             /\ IF ~ReadersOf(o.pipe) THEN Exit(p) /\ UNCHANGED pipe
                ELSE /\ Room(o.pipe)
                     /\ sent /\ pipe' = [pipe EXCEPT ![o.pipe] = Append(@, u)]
             /\ UNCHANGED <<ofile, files, console>>
       /\ UNCHANGED <<line, entered, disturbed, before>>

\* A program that reads ends at end of file; the console is at its end.
ProgramRead(p) ==
    LET f == proc[p].fds[0]
        o == ofile[f]
        got(u) == proc' = [proc EXCEPT ![p].out = <<u>>]
    IN /\ proc[p].pc = "program" /\ proc[p].out = <<>> /\ proc[p].reads
       /\ \/ /\ o.type = "console"
             /\ Exit(p) /\ UNCHANGED <<ofile, pipe>>
          \/ /\ o.type = "file"
             /\ IF o.off < Len(files[o.file])
                THEN got(files[o.file][o.off + 1]) /\ ofile' = [ofile EXCEPT ![f].off = @ + 1]
                ELSE Exit(p) /\ UNCHANGED ofile
             /\ UNCHANGED pipe
          \/ /\ o.type = "read"
             /\ IF pipe[o.pipe] # <<>>
                THEN got(Head(pipe[o.pipe])) /\ pipe' = [pipe EXCEPT ![o.pipe] = Tail(@)]
                ELSE ~WritersOf(o.pipe) /\ Exit(p) /\ UNCHANGED pipe
             /\ UNCHANGED ofile
       /\ UNCHANGED <<line, entered, files, console, disturbed, before>>

ProgramEnd(p) ==
    /\ proc[p].pc = "program" /\ proc[p].out = <<>> /\ ~proc[p].reads
    /\ Exit(p)
    /\ UNCHANGED <<line, entered, ofile, pipe, files, console, disturbed, before>>

-------------------------------------------------------------------------------
Init ==
    /\ line = <<>> /\ entered = 0
    /\ proc = [p \in PIDS |->
                  IF p = 1 THEN Process(0, "prompt", execcmd(<<>>), Standard, FALSE) ELSE Unused]
    /\ ofile = [f \in OFILES |-> Tty]
    /\ pipe = [i \in 1 .. NFILE |-> <<>>]
    /\ files \in STORES /\ before = files
    /\ console = <<>>
    /\ disturbed = FALSE

runcmd(p) ==
    \/ runExec(p) \/ runRedir(p) \/ runList(p) \/ runListWait(p) \/ runPipe(p)
    \/ runPipeRight(p) \/ runPipeWait(p) \/ runBack(p)

Program(p) == ProgramWrite(p) \/ ProgramRead(p) \/ ProgramEnd(p)

Next ==
    \/ Type
    \/ \E l \in LINES : main(l)
    \/ mainWait
    \/ \E p \in PIDS : runcmd(p) \/ Program(p)

\* The kernel's scheduler runs every process that can run; nobody has to type.
Fairness == WF_vars(mainWait) /\ \A p \in PIDS : WF_vars(runcmd(p) \/ Program(p))

Spec == Init /\ [][Next]_vars /\ Fairness

-------------------------------------------------------------------------------
(* The grammar of a line, as a relation between a sequence of tokens and the   *)
(* trees it may be read as.                                                    *)

RECURSIVE TokensFrom(_, _)
TokensFrom(l, s) ==
    LET t == gettoken(l, s)
    IN IF t.tok = NUL THEN <<>> ELSE <<t>> \o TokensFrom(l, t.s)

Redirection(ts, k) == ts[k].tok \in {"<", ">", "+"}

\* Every redirection is followed by a word, and nothing but words is left.
Plain(ts) ==
    \A k \in 1 .. Len(ts) :
        \/ ts[k].tok = "a"
        \/ Redirection(ts, k) /\ k < Len(ts) /\ ts[k + 1].tok = "a"

IsFile(ts, k) == k > 1 /\ Redirection(ts, k - 1)

Where(ts, set) == LET at == SetToSortSeq(set, <) IN [i \in 1 .. Len(at) |-> ts[at[i]].word]

RedirsOf(ts) ==
    LET at == SetToSortSeq({k \in 1 .. Len(ts) : Redirection(ts, k)}, <)
    IN [i \in 1 .. Len(at) |-> [op |-> ts[at[i]].tok, file |-> ts[at[i] + 1].word]]

ArgsOf(ts) == Where(ts, {k \in 1 .. Len(ts) : ts[k].tok = "a" /\ ~IsFile(ts, k)})

\* The first redirection is the innermost.
Nested(cmd, rs) == FoldLeft(redircmd, cmd, rs)

RECURSIVE LineTrees(_)

Simples(ts) ==
    IF Plain(ts) /\ Len(ArgsOf(ts)) < MAXARGS THEN {Nested(execcmd(ArgsOf(ts)), RedirsOf(ts))} ELSE {}

Cut(ts, k, j) == SubSeq(ts, k, j)

At(ts, tok) == {k \in 1 .. Len(ts) : ts[k].tok = tok}

Blocks(ts) ==
    UNION {LET after == Cut(ts, k + 1, Len(ts))
           IN IF ts[1].tok = "(" /\ Plain(after) /\ ArgsOf(after) = <<>>
              THEN {Nested(t, RedirsOf(after)) : t \in LineTrees(Cut(ts, 2, k - 1))} ELSE {}
           : k \in At(ts, ")")}

Execs(ts) == Simples(ts) \union Blocks(ts)

RECURSIVE PipeTrees(_)
PipeTrees(ts) ==
    Execs(ts) \union
    UNION {{pipecmd(a, b) : a \in Execs(Cut(ts, 1, k - 1)), b \in PipeTrees(Cut(ts, k + 1, Len(ts)))}
           : k \in At(ts, "|")}

\* A pipeline and the &s that follow it.
BackTrees(ts) ==
    LET n == Cardinality({k \in At(ts, "&") : \A j \in k .. Len(ts) : ts[j].tok = "&"})
        back[k \in 0 .. n] ==
            IF k = 0 THEN PipeTrees(Cut(ts, 1, Len(ts) - n)) ELSE {backcmd(t) : t \in back[k - 1]}
    IN back[n]

LineTrees(ts) ==
    BackTrees(ts) \union
    UNION {{listcmd(a, b) : a \in BackTrees(Cut(ts, 1, k - 1)), b \in LineTrees(Cut(ts, k + 1, Len(ts)))}
           : k \in At(ts, ";")}

-------------------------------------------------------------------------------
(* What a tree means, computed without processes: what it writes, what it      *)
(* leaves unread of its input, and the files.                                  *)

Meaning(out, in, fs) == [out |-> out, in |-> in, fs |-> fs]

Overwritten(data, out) == out \o SubSeq(data, Len(out) + 1, Len(data))

RECURSIVE Denote(_, _, _)
Denote(t, in, fs) ==
    CASE t.type = "EXEC" ->
            IF t.argv # <<>> /\ t.argv[1] = <<"e">> THEN Meaning(Tail(t.argv), in, fs)
            ELSE IF t.argv # <<>> /\ t.argv[1] = <<"c">> THEN Meaning(in, <<>>, fs)
            ELSE Meaning(<<>>, in, fs)
      [] t.type = "REDIR" /\ t.op = "<" ->
            IF t.file \notin DOMAIN fs THEN Meaning(<<>>, in, fs)
            ELSE LET d == Denote(t.cmd, fs[t.file], fs) IN Meaning(d.out, in, d.fs)
      [] t.type = "REDIR" /\ t.op # "<" ->
            LET old == IF t.op = ">" \/ t.file \notin DOMAIN fs THEN <<>> ELSE fs[t.file]
                d   == Denote(t.cmd, in, (t.file :> old) @@ fs)
            IN Meaning(<<>>, d.in, (t.file :> Overwritten(old, d.out)) @@ d.fs)
      [] t.type = "LIST" ->
            LET a == Denote(t.left, in, fs)
                b == Denote(t.right, a.in, a.fs)
            IN Meaning(a.out \o b.out, b.in, b.fs)
      [] t.type = "PIPE" ->
            LET a == Denote(t.left, in, fs)
                b == Denote(t.right, a.out, a.fs)
            IN Meaning(b.out, a.in, b.fs)

RECURSIVE Names(_)
Names(t) ==
    CASE t.type = "EXEC" -> {}
      [] t.type = "REDIR" -> {t.file} \union Names(t.cmd)
      [] t.type = "BACK" -> Names(t.cmd)
      [] OTHER -> Names(t.left) \union Names(t.right)

RECURSIVE HasPipe(_)
HasPipe(t) ==
    CASE t.type = "EXEC" -> FALSE
      [] t.type \in {"REDIR", "BACK"} -> HasPipe(t.cmd)
      [] t.type = "LIST" -> HasPipe(t.left) \/ HasPipe(t.right)
      [] OTHER -> TRUE

\* No background, no file that two stages at work at once or two nested
\* redirections share, and no input that a pipeline may leave half read.
RECURSIVE Determined(_, _)
Determined(t, tty) ==
    CASE t.type = "EXEC" -> TRUE
      [] t.type = "BACK" -> FALSE
      [] t.type = "REDIR" -> t.file \notin Names(t.cmd) /\ Determined(t.cmd, tty /\ t.op # "<")
      [] t.type = "LIST" -> /\ tty \/ ~HasPipe(t.left)
                            /\ Determined(t.left, tty) /\ Determined(t.right, tty)
      [] t.type = "PIPE" -> /\ Names(t.left) \intersect Names(t.right) = {}
                            /\ Determined(t.left, tty) /\ Determined(t.right, FALSE)

-------------------------------------------------------------------------------
(* Properties.                                                                 *)

\* Type invariant: every descriptor names an open file or none, and a pipe holds
\* at most PIPESIZE units.
TypeOK ==
    /\ \A p \in PIDS : Live(p) => proc[p].fds \in [FDS -> 0 .. NFILE]
    /\ \A i \in 1 .. NFILE : Len(pipe[i]) <= PIPESIZE
    /\ entered \in 0 .. MAXLINES /\ disturbed \in BOOLEAN

\* The recursive descent of parsecmd reads a line exactly as the grammar does:
\* it builds the one tree the grammar gives the line, and panics when there is
\* none.
ParsesTheGrammar ==
    proc[1].pc = "prompt" /\ entered = 0 =>
        LET cmd == parsecmd(line)
        IN LineTrees(TokensFrom(line, 1)) = IF cmd.ok THEN {cmd.val} ELSE {}

\* Whatever order the processes of a line run in, when the prompt is back the
\* console and the files hold what the line means: the closes, dups, opens, forks
\* and waits of runcmd connect the stages as the tree says, and a line that does
\* not parse does nothing.
LineDoesWhatItMeans ==
    LET cmd == parsecmd(line)
        d   == Denote(cmd.val, <<>>, before)
    IN proc[1].pc = "prompt" /\ entered > 0 /\ ~disturbed
       => IF ~cmd.ok THEN files = before /\ console = <<>>
          ELSE Determined(cmd.val, TRUE) => files = d.fs /\ console = d.out

\* A program starts with the descriptors 0, 1 and 2 and no other: no stage
\* inherits an end of a pipe, which would keep a reader from its end of file.
OnlyStandardFds ==
    \A p \in PIDS : proc[p].pc = "program" =>
        \A fd \in FDS : (proc[p].fds[fd] # 0) <=> fd < 3

\* When the prompt is back, what still runs was put in the background with &:
\* each wait(0) of main and of runcmd has reaped the child it was meant for.
ForegroundIsDone ==
    proc[1].pc = "prompt" /\ ~disturbed => \A p \in PIDS \ {1} : Live(p) => proc[p].back

\* The prompt comes back after every line: a pipeline's readers reach end of file
\* because every process that is not a writer has closed the write end, also when
\* a fork in the middle of the pipeline fails.
PromptReturns == proc[1].pc = "wait" ~> proc[1].pc = "prompt"

===============================================================================
