--------------------------------- MODULE Snoop ---------------------------------
(* The counting part of the snoop builtin of the C shell, snoop.c: the stops   *)
(* of the traced process become a table of system calls, and the table is      *)
(* sorted for the summary.  What waitpid() returns is "trap" (a plain          *)
(* SIGTRAP), "signal", "error", or a system-call stop, which is the name of    *)
(* the call, or "gone" when PTRACE_GETREGS fails on it.                        *)
EXTENDS Naturals, Sequences, FiniteSets, FiniteSetsExt, SequencesExt

CONSTANT STATS_MAX

ASSUME StatsAssumption == STATS_MAX \in Nat

Others == {"trap", "signal", "gone"}

\* record_call: the entry of the call, or a new one while there is room.
record_call(stats, sysno) ==
    LET at == {i \in 1 .. Len(stats) : stats[i].sysno = sysno}
    IN IF at # {} THEN [stats EXCEPT ![Min(at)].calls = @ + 1]
       ELSE IF Len(stats) < STATS_MAX
       THEN Append(stats, [sysno |-> sysno, calls |-> 1, first_seq |-> Len(stats)])
       ELSE stats

\* A round of trace_loop: a system-call stop is the entry of a call or the exit
\* from the one that was entered; a signal is kept for the next PTRACE_SYSCALL;
\* an error of waitpid() ends the loop.
Round(t, stop) ==
    IF t.over \/ stop = "error" THEN [t EXCEPT !.over = TRUE]
    ELSE IF stop \in Others
    THEN [t EXCEPT !.delivered = Append(@, IF stop = "signal" THEN 1 ELSE 0)]
    ELSE [stats |-> IF t.in_syscall THEN record_call(t.stats, t.current) ELSE t.stats,
          in_syscall |-> ~t.in_syscall,
          current |-> IF t.in_syscall THEN t.current ELSE stop,
          delivered |-> Append(t.delivered, 0),
          over |-> FALSE]

trace_loop(stops) ==
    FoldLeft(Round, [stats |-> <<>>, in_syscall |-> FALSE, current |-> "none", delivered |-> <<>>,
                     over |-> FALSE], stops)

\* The order of the summary: most calls first, then the first one seen.
\* Variant: equals stay as they are.
Swaps_NoTie(x, y) == y.calls > x.calls

Swaps(x, y) == y.calls > x.calls \/ (y.calls = x.calls /\ y.first_seq < x.first_seq)

Exchanged(s, a, b) == [s EXCEPT ![a] = s[b], ![b] = s[a]]

\* The exchange sort of print_summary, from the pair (a, b) on.
RECURSIVE SortFrom(_, _, _)
SortFrom(s, a, b) ==
    IF a >= Len(s) THEN s
    ELSE IF b > Len(s) THEN SortFrom(s, a + 1, a + 2)
    ELSE SortFrom(IF Swaps(s[a], s[b]) THEN Exchanged(s, a, b) ELSE s, a, b + 1)

print_summary(stats) == SortFrom(stats, 1, 2)

-------------------------------------------------------------------------------
(* The reference: the calls that were entered and left, counted.               *)

\* What is returned before the first error.
Seen(stops) ==
    SubSeq(stops, 1, Min({i \in 1 .. Len(stops) : stops[i] = "error"} \union {Len(stops) + 1}) - 1)

Calls(stops) == SelectSeq(Seen(stops), LAMBDA s : s \notin Others)

\* The kernel stops a process at the entry of a call and then at its exit, and the
\* registers of a process cannot be read only when it has been killed.
WellFormed(stops) ==
    LET c == SelectSeq(stops, LAMBDA s : s \notin Others \union {"error"})
    IN /\ \A i \in 1 .. Len(c) : i % 2 = 0 => c[i] = c[i - 1]
       /\ \A i \in 1 .. Len(stops) - 1 : stops[i] # "gone"

\* The completed calls, in the order of their ends.
Completed(stops) == LET c == Calls(stops) IN [i \in 1 .. Len(c) \div 2 |-> c[2 * i]]

FirstAt(c, n) == Min({i \in 1 .. Len(c) : c[i] = n})

Count(c, n) == Cardinality({i \in 1 .. Len(c) : c[i] = n})

\* The calls that found room in the table.
Counted(c) == {n \in Range(c) : Cardinality({m \in Range(c) : FirstAt(c, m) < FirstAt(c, n)}) < STATS_MAX}

\* The summary of snoop counts each call of the traced process that was entered
\* and left before the trace ended, whatever signals and traps come in between,
\* with the most frequent first and equals in the order they were first seen; every
\* signal is handed on once, with the restart that follows it.
CountsCalls(stops) ==
    \A c \in {Completed(stops)} :
        LET before(n, m) == Count(c, n) > Count(c, m)
                            \/ (Count(c, n) = Count(c, m) /\ FirstAt(c, n) < FirstAt(c, m))
            order == SetToSortSeq(Counted(c), before)
            table == print_summary(trace_loop(stops).stats)
        IN /\ [i \in 1 .. Len(table) |-> <<table[i].sysno, table[i].calls>>]
              = [i \in 1 .. Len(order) |-> <<order[i], Count(c, order[i])>>]
           /\ {i \in DOMAIN trace_loop(stops).delivered : trace_loop(stops).delivered[i] = 1}
              = {i \in 1 .. Len(Seen(stops)) : stops[i] = "signal"}

===============================================================================
