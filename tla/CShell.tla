--------------------------------- MODULE CShell ---------------------------------
(* The C shell's execution of a line, as far as files and directories go:      *)
(* exec_cmd with the redirection of builtins, execute_pipeline and             *)
(* launch_group with the temporary files and the output registry of            *)
(* redirection.c, the resolver, and the builtins hop, peek and locate.  The    *)
(* processes of a group end one by one, in any order; while the shell waits for *)
(* those of a foreground group, those of background groups end too.  Jobs has  *)
(* the signals, the stops and the job table.                                   *)
(*                                                                             *)
(* A path is a sequence of characters, a file a sequence of units.  Programs   *)
(* are external: "e" writes its arguments, "c" copies its input.  The builtins *)
(* are "h" (hop), "p" (peek, without flags) and "l" (locate).  What reaches the *)
(* terminal is left out.                                                       *)
EXTENDS Lexer, Integers, TLC

CONSTANTS
    DIRS,          \* the directories
    PATHOF,        \* the path of each
    ROOT, HOME,    \* the root, and the directory the shell starts in
    READONLY,      \* the directories nothing can be created in
    EXES,          \* the paths of the executables
    PATH,          \* the directories of $PATH, in order
    LINES,         \* the lines that are entered
    MAX_ENTRIES,   \* the frecency database
    OUTREG_MAX,    \* the output registry
    COPY_SIZE,     \* the buffer an output is copied with
    HOUR, DAY, WEEK,
    MAXCLOCK,      \* bound: time
    MAXRUNS        \* bound: the number of lines entered

ASSUME CShellAssumption ==
    /\ {MAX_ENTRIES, OUTREG_MAX, HOUR, DAY, WEEK, MAXCLOCK, MAXRUNS} \subseteq Nat
    /\ COPY_SIZE \in Nat \ {0}
    /\ ROOT \in DIRS /\ HOME \in DIRS /\ READONLY \subseteq DIRS

VARIABLES
    runs,       \* the lines entered so far
    phase,      \* "prompt", "builtin", "launch" (a group comes next), "wait" (it is launched)
    todo,       \* the tokens of the line from the current group on
    group,      \* the processes of a foreground group, like those of jobs
    waiting,    \* those of them that have not ended
    cwd,
    prev_dir,   \* {} or {the directory before the last hop}
    entries,    \* the frecency database
    dirs,       \* the directories that exist
    files,      \* path -> contents
    stdin,      \* "tty", or what is left of a redirected standard input
    stdout,     \* "tty", or the path of a temporary file
    registry,   \* the output registry: [pid, names]
    jobs,       \* the background processes: [pid, stage, dir, text, names]
    clock,
    moves,      \* history: how often the shell has changed its directory
    before,     \* history: {the state in which the current group was launched}
    ended       \* history: the processes that have ended since

lineVars == <<phase, todo, group, waiting, before, ended>>

vars == <<runs, lineVars, cwd, prev_dir, entries, dirs, files, stdin, stdout, registry, jobs,
          clock, moves>>

\* What a line changes, as a record that the steps of the line pass on.
Now == [cwd |-> cwd, prev |-> prev_dir, entries |-> entries, files |-> files, stdin |-> stdin,
        stdout |-> stdout, registry |-> registry, jobs |-> jobs, moves |-> moves]

Becomes(m) ==
    /\ cwd' = m.cwd /\ prev_dir' = m.prev /\ entries' = m.entries /\ files' = m.files
    /\ stdin' = m.stdin /\ stdout' = m.stdout /\ registry' = m.registry /\ jobs' = m.jobs /\ moves' = m.moves

-------------------------------------------------------------------------------
(* Paths.                                                                      *)

Under(d, w) == PATHOF[d] \o <<"/">> \o w

Abs(m, w) == IF w[1] = "/" THEN w ELSE Under(m.cwd, w)

DirAt(path) == {d \in dirs : PATHOF[d] = path}

ParentOf(path) == {d \in dirs : \E i \in 1 .. Len(path) :
                        /\ path = Under(d, SubSeq(path, i, Len(path)))
                        /\ "/" \notin Range(SubSeq(path, i, Len(path)))}

Exists(m, w) == w # <<>> /\ (Abs(m, w) \in DOMAIN m.files \/ DirAt(Abs(m, w)) # {})

\* A directory opens for reading and reads as nothing.
Contents(m, w) == IF Abs(m, w) \in DOMAIN m.files THEN m.files[Abs(m, w)] ELSE <<>>

\* open(w, O_WRONLY | O_CREAT) succeeds.
Opens(m, w) ==
    /\ w # <<>> /\ DirAt(Abs(m, w)) = {}
    /\ Abs(m, w) \in DOMAIN m.files \/ ParentOf(Abs(m, w)) \ READONLY # {}

Store(m, path, text) == [m EXCEPT !.files = (path :> text) @@ @]

Unlink(m, path) == [m EXCEPT !.files = [p \in DOMAIN @ \ {path} |-> @[p]]]

-------------------------------------------------------------------------------
(* resolver.c and locate.c.                                                    *)

is_exe(path) == path \in EXES

\* The candidates for a name: the current directory, then $PATH.
Candidates(m, name) == <<Under(m.cwd, name)>> \o [i \in 1 .. Len(PATH) |-> Under(PATH[i], name)]

FirstExe(paths) == LET found == SelectSeq(paths, is_exe) IN IF found = <<>> THEN {} ELSE {Head(found)}

resolve_command_path(m, cmd) ==
    IF cmd = <<>> THEN {}
    ELSE IF "/" \in Range(cmd) THEN FirstExe(<<Abs(m, cmd)>>)
    ELSE IF cmd[1] = "%" THEN FirstExe(Tail(Candidates(m, Tail(cmd))))
    ELSE FirstExe(Candidates(m, cmd))

locate(m, cmd) == SelectSeq(Candidates(m, cmd), is_exe)

-------------------------------------------------------------------------------
(* hop.c: the frecency database, and the moves.                                *)

\* record_visit: count the visit, in a new entry while there is room.
record_visit(es, d) ==
    LET at == {i \in 1 .. Len(es) : es[i].path = d}
    IN IF at # {} THEN [es EXCEPT ![Min(at)].visits = @ + 1, ![Min(at)].last_access = clock]
       ELSE IF Len(es) < MAX_ENTRIES
       THEN Append(es, [path |-> d, visits |-> 1, last_access |-> clock])
       ELSE es

\* Four times the score: the multipliers are 4, 2, 1/2 and 1/4.
score_of(e) ==
    LET age == clock - e.last_access
    IN e.visits * (IF age < HOUR THEN 16 ELSE IF age < DAY THEN 8 ELSE IF age < WEEK THEN 2 ELSE 1)

HasText(path, name) ==
    \E i \in 0 .. Len(path) - Len(name) : SubSeq(path, i + 1, i + Len(name)) = name

\* The best of the entries that match and still exist; the first of equals.
frecency_lookup(es, name) ==
    LET fits == {i \in 1 .. Len(es) : HasText(PATHOF[es[i].path], name) /\ es[i].path \in dirs}
        best == {i \in fits : \A j \in fits : score_of(es[j]) <= score_of(es[i])}
    IN IF fits = {} THEN {} ELSE {es[Min(best)].path}

\* to is {} when the target is no directory.
do_chdir(m, to) ==
    IF to = {} THEN m
    ELSE [m EXCEPT !.cwd = CHOOSE d \in to : TRUE, !.prev = {m.cwd}, !.moves = @ + 1,
                   !.entries = record_visit(@, CHOOSE d \in to : TRUE)]

Parent(d) == {p \in dirs : \E i \in 1 .. Len(PATHOF[d]) :
                  PATHOF[d][i] = "/" /\ PATHOF[p] = SubSeq(PATHOF[d], 1, i - 1)
                  /\ "/" \notin Range(SubSeq(PATHOF[d], i + 1, Len(PATHOF[d])))}

Resolved(m, arg) ==
    IF arg # <<>> /\ DirAt(Abs(m, arg)) # {} THEN DirAt(Abs(m, arg))
    ELSE frecency_lookup(m.entries, arg)

\* [m, ok] of one argument: some arguments leave the shell where it is.
hop_one(m, arg) ==
    LET stays == [ok |-> TRUE, m |-> m]
        goes(to) == [ok |-> to # {}, m |-> do_chdir(m, to)]
    IN CASE arg = <<".">> -> stays
         [] arg = <<"~">> -> goes({HOME})
         [] arg = <<".", ".">> -> IF m.cwd = ROOT THEN stays ELSE goes(Parent(m.cwd))
         [] arg = <<"-">> -> IF m.prev = {} THEN stays ELSE goes(m.prev \intersect dirs)
         [] OTHER -> goes(Resolved(m, arg))

RECURSIVE HopAll(_, _)

HopNext(r, args) == IF r.ok THEN HopAll(r.m, args) ELSE r.m

HopAll(m, args) == IF args = <<>> THEN m ELSE HopNext(hop_one(m, Head(args)), Tail(args))

run_hop(m, args) == IF args = <<>> THEN hop_one(m, <<"~">>).m ELSE HopAll(m, args)

-------------------------------------------------------------------------------
(* redirection.c.                                                              *)

\* The arguments, inputs and outputs among tokens.
strip_redirections(ts) ==
    LET redir == {k \in 1 .. Len(ts) - 1 : ts[k].type \in redirections /\ ts[k + 1].type = "WORD"}
        pick(set) == LET at == SetToSortSeq(set, <) IN [i \in 1 .. Len(at) |-> ts[at[i]]]
        files_(set) == LET at == SetToSortSeq(set, <)
                       IN [i \in 1 .. Len(at) |-> [mode |-> ts[at[i]].type, name |-> ts[at[i] + 1].value]]
        words == pick({k \in 1 .. Len(ts) : k \notin redir /\ k - 1 \notin redir})
    IN [args |-> [i \in 1 .. Len(words) |-> words[i].value],
        ins  |-> files_({k \in redir : ts[k].type = "<"}),
        outs |-> files_({k \in redir : ts[k].type # "<"})]

\* setup_input: "none" also when the temporary file cannot be made.
setup_input(m, ins) ==
    IF ins = <<>> \/ m.cwd \in READONLY THEN [code |-> "none", text |-> <<>>]
    ELSE IF \E i \in 1 .. Len(ins) : ~Exists(m, ins[i].name) THEN [code |-> "bad", text |-> <<>>]
    ELSE [code |-> "ok", text |-> FlattenSeq([i \in 1 .. Len(ins) |-> Contents(m, ins[i].name)])]

\* outreg_validate: each target is created or truncated, up to the first that
\* does not open.
RECURSIVE outreg_validate(_, _)
outreg_validate(m, outs) ==
    IF outs = <<>> THEN [ok |-> TRUE, m |-> m]
    ELSE IF ~Opens(m, Head(outs).name) THEN [ok |-> FALSE, m |-> m]
    ELSE outreg_validate(Store(m, Abs(m, Head(outs).name),
                               IF Head(outs).mode = ">>" THEN Contents(m, Head(outs).name) ELSE <<>>),
                         Tail(outs))

Names(outs) == [i \in 1 .. Len(outs) |-> outs[i].name]

\* outreg_register: without a free slot the output is forgotten.
outreg_register(m, pid, outs) ==
    IF outs = <<>> \/ Cardinality(m.registry) >= OUTREG_MAX THEN m
    ELSE [m EXCEPT !.registry = @ \union {[pid |-> pid, names |-> Names(outs)]}]

Repeated(text, n) == FlattenSeq([i \in 1 .. n |-> text])

\* The pieces in which a file is read.
Pieces(text) ==
    [c \in 1 .. (Len(text) + COPY_SIZE - 1) \div COPY_SIZE |->
        SubSeq(text, (c - 1) * COPY_SIZE + 1, Min({c * COPY_SIZE, Len(text)}))]

\* Open every target for appending, write each piece of the temporary file to all
\* of them, unlink it.  The names are resolved now, in the directory the shell is in.
CopyTo(m, text, names) ==
    LET open == SelectSeq(names, LAMBDA w : Opens(m, w))
        times(p) == Cardinality({i \in 1 .. Len(open) : Abs(m, open[i]) = p})
        copy(p) == FlattenSeq([c \in 1 .. Len(Pieces(text)) |-> Repeated(Pieces(text)[c], times(p))])
    IN [m EXCEPT !.files = [p \in DOMAIN @ \union {Abs(m, w) : w \in Range(open)} |->
                               (IF p \in DOMAIN @ THEN @[p] ELSE <<>>) \o copy(p)]]

CopyOut(m, tmp, names) == Unlink(CopyTo(m, Contents(m, tmp), names), Abs(m, tmp))

\* Variant: one name for all.
TmpOut_Shared(pid) == <<".cshell_tmp_out">>

TmpOut(pid) == <<".cshell_tmp_out_", ToString(pid)>>

Registered(m, pid) == {r \in m.registry : r.pid = pid}

outreg_finalize(m, pid) ==
    IF Registered(m, pid) = {} THEN m
    ELSE CopyOut([m EXCEPT !.registry = @ \ Registered(m, pid)], TmpOut(pid),
                 (CHOOSE r \in Registered(m, pid) : TRUE).names)

-------------------------------------------------------------------------------
(* pipeline.c.  A stage that is launched has its output; one that is not is    *)
(* dead, and the stages around it go on.                                       *)

\* The parts of ts between tokens of the given types.
Parts(ts, types) ==
    LET cuts == SetToSortSeq({k \in 1 .. Len(ts) : ts[k].type \in types} \union {0, Len(ts) + 1}, <)
    IN [n \in 1 .. Len(cuts) - 1 |-> SubSeq(ts, cuts[n] + 1, cuts[n + 1] - 1)]

\* What an external program writes.
Program(path, args, in) == IF Last(path) = "e" THEN args ELSE in

Dead == [alive |-> FALSE, found |-> TRUE, text |-> <<>>, outs |-> <<>>, pid |-> 0]

Pids(m, procs) == {j.pid : j \in m.jobs} \union {procs[k].pid : k \in 1 .. Len(procs)}

FreshPid(m, procs) == Min((1 .. Cardinality(m.jobs) + Len(procs) + 1) \ Pids(m, procs))

\* The standard input of a stage that is not redirected: what the stage before
\* it writes into the pipe, if that one runs and is not redirected.
Piped(procs) ==
    IF procs = <<>> \/ ~Last(procs).alive \/ Last(procs).outs # <<>> THEN <<>> ELSE Last(procs).text

\* A launched stage: the child writes to its temporary file, the parent registers
\* it.  Where the file cannot be made the child's output stays on the terminal.
Launched(m, s, in, path, pid) ==
    LET text == Program(path, Tail(s.args), in)
        made == IF s.outs = <<>> \/ m.cwd \in READONLY THEN m
                ELSE Store(m, Abs(m, TmpOut(pid)), text)
    IN [m |-> outreg_register(made, pid, s.outs),
        proc |-> [alive |-> TRUE, found |-> TRUE, text |-> text, outs |-> s.outs, pid |-> pid]]

Resolve(m, s, in, paths, pid) ==
    IF paths = {} THEN [m |-> m, proc |-> [Dead EXCEPT !.found = FALSE]]
    ELSE Launched(m, s, in, CHOOSE p \in paths : TRUE, pid)

Validated(v, s, in, pid) ==
    IF v.ok THEN Resolve(v.m, s, in, resolve_command_path(v.m, s.args[1]), pid)
    ELSE [m |-> v.m, proc |-> Dead]

\* Variant: the targets are truncated before the inputs are read.
Stage_TruncateFirst(m, s, input, procs) ==
    IF s.args = <<>> \/ input.code = "bad" THEN [m |-> m, proc |-> Dead]
    ELSE Validated(outreg_validate(m, s.outs), s,
                   IF input.code = "ok" THEN setup_input(outreg_validate(m, s.outs).m, s.ins).text
                   ELSE Piped(procs), FreshPid(m, procs))

Stage(m, s, input, procs) ==
    IF s.args = <<>> \/ input.code = "bad" THEN [m |-> m, proc |-> Dead]
    ELSE Validated(outreg_validate(m, s.outs), s,
                   IF input.code = "ok" THEN input.text ELSE Piped(procs), FreshPid(m, procs))

RECURSIVE LaunchStages(_, _, _)

LaunchedOne(r, rest, procs) == LaunchStages(r.m, rest, Append(procs, r.proc))

LaunchStage(m, s, rest, procs) == LaunchedOne(Stage(m, s, setup_input(m, s.ins), procs), rest, procs)

LaunchStages(m, stages, procs) ==
    IF stages = <<>> THEN [m |-> m, procs |-> procs]
    ELSE LaunchStage(m, strip_redirections(Head(stages)), Tail(stages), procs)

\* The processes that were launched, in the order of their stages.
Live(m, procs) ==
    LET at == SetToSortSeq({k \in 1 .. Len(procs) : procs[k].alive}, <)
    IN [i \in 1 .. Len(at) |->
           [pid |-> procs[at[i]].pid, stage |-> at[i], dir |-> m.cwd, text |-> procs[at[i]].text,
            names |-> Names(procs[at[i]].outs)]]

\* A group of one command that is not found.
LoneNotFound(procs) == Len(procs) = 1 /\ ~procs[1].found

\* The place of the separator that ends the first group of ts.
GroupEnd(ts) == Min({k \in 1 .. Len(ts) : ts[k].type \in {";", "&"}} \union {Len(ts) + 1})

GroupOf(ts) == SubSeq(ts, 1, GroupEnd(ts) - 1)

InBackground(ts) == TypeAt(ts, GroupEnd(ts)) = "&"

-------------------------------------------------------------------------------
(* execute.c.  A builtin runs in the shell itself, on the whole rest of the    *)
(* line, with the shell's own standard input and output pointed elsewhere.     *)

TmpBuiltin == <<".cshell_tmp_out_builtin">>

is_builtin_name(w) == w \in {<<"h">>, <<"p">>, <<"l">>}

\* printf: to the terminal, or to the temporary file wherever it was made.
Show(m, text) ==
    IF m.stdout = "tty" THEN m ELSE Store(m, m.stdout, m.files[m.stdout] \o text)

\* What peek prints: the standard input, which is read once, and the files.
PeekText(m, args) ==
    LET srcs == IF args = <<>> THEN <<<<"-">>>> ELSE args
        from(i) == IF srcs[i] # <<"-">> THEN Contents(m, srcs[i])
                   ELSE IF m.stdin = "tty" \/ \E j \in 1 .. i - 1 : srcs[j] = <<"-">> THEN <<>>
                   ELSE m.stdin
    IN FlattenSeq([i \in 1 .. Len(srcs) |-> from(i)])

run_builtin(m, args) ==
    CASE args[1] = <<"h">> -> run_hop(m, Tail(args))
      [] args[1] = <<"p">> -> Show(m, PeekText(m, Tail(args)))
      [] args[1] = <<"l">> -> Show(m, FlattenSeq([i \in 1 .. Len(args) - 1 |-> locate(m, args[i + 1])]))

\* The standard output is put back, and the targets get what went to the file.
Restored(m, outs) == CopyOut([m EXCEPT !.stdout = "tty"], TmpBuiltin, Names(outs))

WithOutput(m) ==
    IF m.cwd \in READONLY THEN m
    ELSE [Store(m, Abs(m, TmpBuiltin), <<>>) EXCEPT !.stdout = Abs(m, TmpBuiltin)]

Output(v, s) ==
    IF ~v.ok THEN v.m
    ELSE IF s.outs = <<>> THEN run_builtin(v.m, s.args)
    ELSE Restored(run_builtin(WithOutput(v.m), s.args), s.outs)

Input(m, s, input) ==
    IF s.ins # <<>> /\ input.code # "ok" THEN m
    ELSE [Output(outreg_validate([m EXCEPT !.stdin = IF s.ins = <<>> THEN @ ELSE input.text], s.outs), s)
             EXCEPT !.stdin = "tty"]

Builtin(m, s) == Input(m, s, setup_input(m, s.ins))

-------------------------------------------------------------------------------
(* The shell.                                                                  *)

\* main and exec_cmd: a line that lexes, is not blank and is valid is executed: a
\* builtin, with the whole line, or pipelines, group by group.
Enter(l) ==
    \E r \in {lex_input(Entered(l))} :
        /\ phase = "prompt"
        /\ runs < MAXRUNS /\ runs' = runs + 1
        /\ r.ok /\ r.tokens # <<>> /\ valid_syntax(r.tokens)
        /\ phase' = (IF is_builtin_name(r.tokens[1].value) THEN "builtin" ELSE "launch")
        /\ todo' = r.tokens
        /\ Becomes(Now) /\ UNCHANGED <<group, waiting, before, ended, dirs, clock>>

RunBuiltin ==
    /\ phase = "builtin" /\ phase' = "prompt"
    /\ todo' = <<>>
    /\ Becomes(Builtin(Now, strip_redirections(todo)))
    /\ UNCHANGED <<runs, group, waiting, before, ended, dirs, clock>>

\* launch_group: nothing is done about a process that ends before the wait, so the
\* stages are launched in one step.  In the background the processes are left to
\* end by themselves; a foreground command that is not found ends the line.
LaunchGroup ==
    \E r \in {LaunchStages(Now, Parts(GroupOf(todo), {"|"}), <<>>)} :
        /\ phase = "launch" /\ phase' = "wait"
        /\ before' = {Now}
        /\ IF InBackground(todo)
           THEN /\ Becomes([r.m EXCEPT !.jobs = @ \union Range(Live(r.m, r.procs))])
                /\ UNCHANGED <<todo, group, waiting>>
           ELSE /\ Becomes(r.m)
                /\ group' = Live(r.m, r.procs) /\ waiting' = Range(group')
                /\ todo' = IF LoneNotFound(r.procs) THEN GroupOf(todo) ELSE todo
        /\ UNCHANGED <<runs, ended, dirs, clock>>

\* jobs_wait_foreground: a process of the group has ended.
Ends(p) ==
    /\ waiting' = waiting \ {p} /\ ended' = Append(ended, p)
    /\ Becomes(outreg_finalize(Now, p.pid))
    /\ UNCHANGED <<runs, phase, todo, group, before, dirs, clock>>

\* A background process has ended: at the prompt jobs_process_pending, in a wait
\* jobs_wait_foreground finalizes its output.
Reap(j) ==
    /\ phase = "prompt" \/ waiting # {}
    /\ ended' = IF phase = "prompt" THEN ended ELSE Append(ended, j)
    /\ Becomes(outreg_finalize([Now EXCEPT !.jobs = @ \ {j}], j.pid))
    /\ UNCHANGED <<runs, phase, todo, group, waiting, before, dirs, clock>>

\* The group is launched and nobody is waited for: what is still in the registry
\* of a foreground group is finalized, and execute_pipeline goes on.
GroupOver ==
    /\ phase = "wait" /\ waiting = {}
    /\ Becomes(FoldLeft(LAMBDA m, p : outreg_finalize(m, p.pid), Now, group))
    /\ todo' = SubSeq(todo, GroupEnd(todo) + 1, Len(todo))
    /\ phase' = IF todo' = <<>> THEN "prompt" ELSE "launch"
    /\ group' = <<>> /\ before' = {} /\ ended' = <<>>
    /\ UNCHANGED <<runs, waiting, dirs, clock>>

\* Time passes, between the lines: only a builtin looks at the clock.
Tick ==
    /\ phase = "prompt" /\ clock < MAXCLOCK /\ clock' = clock + 1
    /\ UNCHANGED <<runs, lineVars, cwd, prev_dir, entries, dirs, files, stdin, stdout, registry, jobs, moves>>

\* Some other program removes an empty directory, between the lines.
Rmdir(d) ==
    /\ phase = "prompt"
    /\ d \in dirs \ {cwd, HOME, ROOT}
    /\ \A p \in DOMAIN files \union EXES : d \notin ParentOf(p)
    /\ \A e \in dirs : d \notin Parent(e)
    /\ dirs' = dirs \ {d}
    /\ UNCHANGED <<runs, lineVars, cwd, prev_dir, entries, files, stdin, stdout, registry, jobs, clock, moves>>

Init ==
    /\ runs = 0 /\ cwd = HOME /\ prev_dir = {} /\ entries = <<>> /\ dirs = DIRS
    /\ phase = "prompt" /\ todo = <<>> /\ group = <<>> /\ waiting = {} /\ before = {} /\ ended = <<>>
    /\ files = [p \in {} |-> <<>>] /\ stdin = "tty" /\ stdout = "tty"
    /\ registry = {} /\ jobs = {} /\ clock = 0 /\ moves = 0

Next ==
    \/ \E l \in LINES : Enter(l)
    \/ RunBuiltin
    \/ LaunchGroup
    \/ \E p \in waiting : Ends(p)
    \/ \E j \in jobs : Reap(j)
    \/ GroupOver
    \/ Tick
    \/ \E d \in DIRS : Rmdir(d)

Spec == Init /\ [][Next]_vars

-------------------------------------------------------------------------------
(* What redirections mean, without temporary files: the reference for a group, *)
(* or for a builtin with its line.                                             *)

StagesOf(ts, builtin) ==
    LET parts == IF builtin THEN <<ts>> ELSE Parts(ts, {"|"})
    IN [i \in 1 .. Len(parts) |-> strip_redirections(parts[i])]

\* The files that a stage before stage i creates, and those it truncates.
Made(m, ss, i, modes) ==
    UNION {{Abs(m, o.name) : o \in {q \in Range(ss[k].outs) : q.mode \in modes}}
           : k \in {n \in 1 .. i - 1 : ss[n].args # <<>>}}

\* Every input is there, every target is within reach and every output, also that
\* of the jobs in the background, finds its place in the registry.
Regular(m, ss) ==
    /\ m.cwd \notin READONLY
    /\ Cardinality(m.registry) + Cardinality({i \in 1 .. Len(ss) : ss[i].outs # <<>>}) <= OUTREG_MAX
    /\ \A i \in 1 .. Len(ss) :
          /\ \A k \in 1 .. Len(ss[i].outs) : Opens(m, ss[i].outs[k].name)
          /\ \A k \in 1 .. Len(ss[i].ins) :
                Exists(m, ss[i].ins[k].name)
                \/ Abs(m, ss[i].ins[k].name) \in Made(m, ss, i, {">", ">>"})
    /\ \A j \in m.jobs :
          /\ j.dir = m.cwd /\ (j.names = <<>> \/ Registered(m, j.pid) # {})
          /\ \A k \in 1 .. Len(j.names) : Opens(m, j.names[k])

\* A file as stage i finds it.
Found(m, ss, i, path) ==
    IF path \in DOMAIN m.files /\ path \notin Made(m, ss, i, {">"}) THEN m.files[path] ELSE <<>>

\* In a pipe a builtin is no command.
Runs(m, s, builtin) == s.args # <<>> /\ (builtin \/ resolve_command_path(m, s.args[1]) # {})

RunText(m, args, in) ==
    IF args[1] = <<"h">> THEN <<>>
    ELSE IF args[1] = <<"p">> THEN PeekText([m EXCEPT !.stdin = in], Tail(args))
    ELSE IF args[1] = <<"l">> THEN FlattenSeq([i \in 1 .. Len(args) - 1 |-> locate(m, args[i + 1])])
    ELSE Program(CHOOSE p \in resolve_command_path(m, args[1]) : TRUE, Tail(args), in)

\* What each stage writes.
Texts(m, ss, builtin) ==
    LET in(i, text) ==
            IF ss[i].ins # <<>>
            THEN FlattenSeq([k \in 1 .. Len(ss[i].ins) |-> Found(m, ss, i, Abs(m, ss[i].ins[k].name))])
            ELSE IF i > 1 /\ ss[i - 1].outs = <<>> THEN text ELSE <<>>
        texts[i \in 0 .. Len(ss)] ==
            IF i = 0 \/ ~Runs(m, ss[i], builtin) THEN <<>>
            ELSE RunText([m EXCEPT !.files = [p \in DOMAIN @ \union Made(m, ss, 2, {">", ">>"}) |->
                                                 Found(m, ss, 2, p)]],
                         ss[i].args, in(i, texts[i - 1]))
    IN texts

\* seq is n copies of text, shuffled.
IsShuffle(seq, text, n) ==
    \/ n <= 1 /\ seq = Repeated(text, n)
    \/ n > 1 /\ \E of \in [1 .. Len(seq) -> 1 .. n] : \A c \in 1 .. n :
          LET at == SetToSortSeq({i \in 1 .. Len(seq) : of[i] = c}, <)
          IN [i \in 1 .. Len(at) |-> seq[at[i]]] = text

\* now is what was there before, followed by the given outputs, one after the
\* other: each is [text, times].
RECURSIVE Grew(_, _, _)
Grew(old, now, outputs) ==
    IF outputs = <<>> THEN now = old
    ELSE \A o \in {Last(outputs)} : \A n \in {Len(now) - o.times * Len(o.text)} :
            /\ n >= 0
            /\ IsShuffle(SubSeq(now, n + 1, Len(now)), o.text, o.times)
            /\ Grew(old, SubSeq(now, 1, n), Front(outputs))

Mentions(m, names, path) == Cardinality({k \in 1 .. Len(names) : Abs(m, names[k]) = path})

\* The outputs for path of the processes that have ended: those of the group have
\* the texts given, the others bring their own.
OutputsFor(m, path, ends, texts) ==
    [i \in 1 .. Len(ends) |-> [text  |-> IF ends[i] \in m.jobs THEN ends[i].text ELSE texts[ends[i].stage],
                               times |-> Mentions(m, ends[i].names, path)]]

\* The files named in any way.
Known(m, ss, ends) ==
    DOMAIN m.files \union Made(m, ss, Len(ss) + 1, {">", ">>"})
    \union UNION {{Abs(m, w) : w \in Range(e.names)} : e \in Range(ends)}

Temporary(path) == {".cshell_tmp_out_", ".cshell_tmp_out_builtin"} \intersect Range(path) # {}

-------------------------------------------------------------------------------
(* Properties.                                                                 *)

\* Type invariant: the registry and the database keep to their bounds, and the
\* shell is in a directory that exists.
TypeOK ==
    /\ cwd \in dirs /\ prev_dir \subseteq DIRS
    /\ Cardinality(registry) <= OUTREG_MAX /\ Len(entries) <= MAX_ENTRIES
    /\ \A p \in DOMAIN files : ParentOf(p) # {}

\* From the state m, in which ss began, to the end: every file is as it was or
\* empty, followed by the outputs in the order in which the processes ended, and
\* no temporary file is new but those of background processes.
FilesAsMeant(m, ss, builtin, ends) ==
    \A texts \in {Texts(m, ss, builtin)}, known \in {Known(m, ss, ends)} :
        /\ \A p \in DOMAIN files' :
              p \in known \/ \E j \in jobs' : p = Under(j.dir, TmpOut(j.pid))
        /\ \A p \in known : ~Temporary(p) =>
              p \in DOMAIN files'
              /\ Grew(Found(m, ss, Len(ss) + 1, p), files'[p], OutputsFor(m, p, ends, texts))
        /\ \A j \in jobs' \ m.jobs : j.text = texts[j.stage]

\* The stages that run and are redirected.
Redirected(m, ss, builtin) ==
    {i \in 1 .. Len(ss) : Runs(m, ss[i], builtin) /\ ss[i].outs # <<>>}

GroupAsMeant(m, ss) ==
    Regular(m, ss) =>
        /\ FilesAsMeant(m, ss, FALSE, ended)
        /\ \A i \in Redirected(m, ss, FALSE) : \E p \in Range(ended) \union jobs' :
              p \notin m.jobs /\ p.stage = i /\ p.names = Names(ss[i].outs)

BuiltinAsMeant(ss) ==
    Regular(Now, ss) =>
        FilesAsMeant(Now, ss, TRUE, <<[stage |-> 1, names |-> Names(ss[1].outs)]>>)

\* When the shell is done with a group of a line, every file is as the
\* redirections mean: inputs are read before a target is truncated, every target
\* named gets the whole output of each stage that names it, after the outputs of
\* the processes that ended before it, those of background jobs that ended during
\* the wait included, and no temporary file is left.  A target named twice has the
\* copies mixed.  The same holds for a builtin, unless it moves the shell.
RedirectsAsMeant ==
    [][/\ phase = "wait" /\ phase' # "wait" =>
             \A m \in before : GroupAsMeant(m, StagesOf(GroupOf(todo), FALSE))
       /\ phase = "builtin" /\ cwd' = cwd => BuiltinAsMeant(StagesOf(todo, TRUE))]_vars

\* When a process ends, in the foreground or in the background, each of its targets
\* gets its whole output and its temporary file is gone, whatever was run in the
\* meantime, if the shell is in the directory the process was launched from and
\* had registered it.
JobOutputArrives ==
    [][\A j \in (jobs \union waiting) \ (jobs' \union waiting') :
          cwd = j.dir /\ [pid |-> j.pid, names |-> j.names] \in registry
          /\ (\A i \in 1 .. Len(j.names) : Opens(Now, j.names[i]))
          => /\ Under(cwd, TmpOut(j.pid)) \notin DOMAIN files'
             /\ \A path \in {Abs(Now, j.names[i]) : i \in 1 .. Len(j.names)} :
                   Grew(IF path \in DOMAIN files THEN files[path] ELSE <<>>, files'[path],
                        <<[text |-> j.text, times |-> Mentions(Now, j.names, path)]>>)
      ]_vars

\* A registry entry belongs to a process that has not ended: none is kept for a pid
\* that a later process may get.
RegistryOfTheLiving == \A r \in registry : \E j \in jobs \union waiting : j.pid = r.pid /\ j.names = r.names

\* Whatever a builtin did, and wherever it failed, the shell's own standard input
\* and output are its terminal again.
StdioIsBack == stdin = "tty" /\ stdout = "tty"

\* The first path locate prints for a bare name is the one the shell would run.
LocateFindsWhatRuns ==
    \A w \in {<<"e">>, <<"c">>, <<"x">>} :
        resolve_command_path(Now, w) = IF locate(Now, w) = <<>> THEN {} ELSE {locate(Now, w)[1]}

\* The database has one entry for a directory.  Until it is full it counts every
\* move of the shell, and the directory the shell moved to is in it.
VisitsCounted ==
    /\ \A i, j \in 1 .. Len(entries) : entries[i].path = entries[j].path => i = j
    /\ Len(entries) < MAX_ENTRIES =>
          /\ MapThenSumSet(LAMBDA i : entries[i].visits, 1 .. Len(entries)) = moves
          /\ moves > 0 => \E i \in 1 .. Len(entries) : entries[i].path = cwd

===============================================================================
