---------------------------------- MODULE Peek ----------------------------------
(* The peek builtin of the C shell, peek.c: files forwards, or backwards by    *)
(* seeking from the end in chunks.  A file is a sequence of characters.  What  *)
(* is printed is a sequence of lines, each with its number (0 is none) and its *)
(* text, which printf has completed with a newline where there was none.       *)
EXTENDS Integers, Sequences, SequencesExt

CONSTANT CHUNK_SIZE

ASSUME ChunkAssumption == CHUNK_SIZE \in Nat \ {0}

LF == "\n"

CR == "\r"

is_non_empty(text) == text[1] \notin {LF, CR}

Printed(no, text) == [no |-> no, text |-> IF Last(text) = LF THEN text ELSE Append(text, LF)]

-------------------------------------------------------------------------------
(* Reading forwards.                                                           *)

\* The lines that getline returns.
RECURSIVE getlines(_)
getlines(s) ==
    LET ends == {i \in 1 .. Len(s) : s[i] = LF} \union {Len(s)}
        n    == CHOOSE i \in ends : \A j \in ends : i <= j
    IN IF s = <<>> THEN <<>> ELSE <<SubSeq(s, 1, n)>> \o getlines(SubSeq(s, n + 1, Len(s)))

count_non_empty_lines(s) == Len(SelectSeq(getlines(s), is_non_empty))

\* How many of the first i lines have something on them.
NonEmptyUpTo(ls, i) == Len(SelectSeq(SubSeq(ls, 1, i), is_non_empty))

\* The lines ls numbered from num on, where -n asks for it.
Numbered(ls, flag_n, num) ==
    [i \in 1 .. Len(ls) |->
        Printed(IF flag_n /\ is_non_empty(ls[i]) THEN num + NonEmptyUpTo(ls, i) - 1 ELSE 0, ls[i])]

print_forward(s, flag_n, line_num) == Numbered(getlines(s), flag_n, line_num)

-------------------------------------------------------------------------------
(* Reading backwards: all the lines in memory, or chunk by chunk.              *)

print_reverse_buffered(s, flag_n, offset) ==
    LET ls == getlines(s)
    IN [k \in 1 .. Len(ls) |->
           LET i == Len(ls) + 1 - k
           IN Printed(IF flag_n /\ is_non_empty(ls[i])
                      THEN offset + NonEmptyUpTo(ls, i) ELSE 0, ls[i])]

\* st: what is printed, the number of the next line and where it ends.
Emit(st, text, flag_n) ==
    LET numbered == flag_n /\ text # <<>> /\ is_non_empty(text)
    IN [st EXCEPT !.out = Append(@, Printed(IF numbered THEN st.num ELSE 0,
                                            IF text = <<>> THEN <<LF>> ELSE text)),
                  !.num = IF numbered THEN @ - 1 ELSE @]

\* A newline at i (from 0) of the file ends the line before the one now complete.
\* Variant: the newline is left out of the line it ends.
AtNewline_Short(s, i, st, flag_n) ==
    [Emit(st, SubSeq(s, i + 2, st.line_end), flag_n) EXCEPT !.line_end = i]

AtNewline(s, i, st, flag_n) ==
    [Emit(st, SubSeq(s, i + 2, st.line_end), flag_n) EXCEPT !.line_end = i + 1]

\* The loop over a chunk buf, which starts at pos of the file.
RECURSIVE Scan(_, _, _, _, _, _)
Scan(s, buf, pos, i, st, flag_n) ==
    IF i < 0 THEN st
    ELSE Scan(s, buf, pos, i - 1, IF buf[i + 1] = LF THEN AtNewline(s, pos + i, st, flag_n) ELSE st, flag_n)

RECURSIVE Chunks(_, _, _, _)

ReadSize(pos) == IF pos < CHUNK_SIZE THEN pos ELSE CHUNK_SIZE

ChunkAt(s, pos, n, st, flag_n) ==
    Chunks(s, pos, Scan(s, SubSeq(s, pos + 1, pos + n), pos, n - 1, st, flag_n), flag_n)

Chunks(s, pos, st, flag_n) ==
    IF pos <= 0 THEN st ELSE ChunkAt(s, pos - ReadSize(pos), ReadSize(pos), st, flag_n)

\* The first line of the file is the last one printed.
FirstLine(s, st, flag_n) ==
    IF st.line_end > 0 THEN Emit(st, SubSeq(s, 1, st.line_end), flag_n).out ELSE st.out

print_reverse_chunked(s, flag_n, line_num) ==
    LET filesize == IF s # <<>> /\ Last(s) = LF THEN Len(s) - 1 ELSE Len(s)
        start    == [out |-> <<>>, num |-> line_num, line_end |-> filesize]
    IN IF filesize <= 0 THEN <<>> ELSE FirstLine(s, Chunks(s, filesize, start, flag_n), flag_n)

-------------------------------------------------------------------------------
(* run_peek over a list of sources.  A source is the standard input, a file,   *)
(* or nothing that can be read ("none": a missing file or a directory).        *)

\* -r -n: each file has a window of numbers of its own.
RECURSIVE ReverseNumbered(_, _)
ReverseNumbered(srcs, offset) ==
    IF srcs = <<>> THEN <<>>
    ELSE LET src == Head(srcs)
             n   == count_non_empty_lines(src.text)
         IN CASE src.kind = "none" -> ReverseNumbered(Tail(srcs), offset)
              [] src.kind = "stdin" -> print_reverse_buffered(src.text, TRUE, offset)
                                       \o ReverseNumbered(Tail(srcs), offset + n)
              [] src.kind = "file" -> print_reverse_chunked(src.text, TRUE, offset + n)
                                      \o ReverseNumbered(Tail(srcs), offset + n)

RECURSIVE OneByOne(_, _, _, _)
OneByOne(srcs, flag_n, flag_r, line_num) ==
    IF srcs = <<>> THEN <<>>
    ELSE LET src == Head(srcs)
             n   == IF flag_n THEN count_non_empty_lines(src.text) ELSE 0
         IN CASE src.kind = "none" -> OneByOne(Tail(srcs), flag_n, flag_r, line_num)
              [] ~flag_r /\ src.kind # "none" -> print_forward(src.text, flag_n, line_num)
                                                 \o OneByOne(Tail(srcs), flag_n, flag_r, line_num + n)
              [] flag_r /\ src.kind = "stdin" -> print_reverse_buffered(src.text, flag_n, 0)
                                                 \o OneByOne(Tail(srcs), flag_n, flag_r, line_num)
              [] flag_r /\ src.kind = "file" -> print_reverse_chunked(src.text, flag_n, line_num)
                                                \o OneByOne(Tail(srcs), flag_n, flag_r, line_num)

run_peek(srcs, flag_n, flag_r) ==
    IF flag_r /\ flag_n THEN ReverseNumbered(srcs, 0) ELSE OneByOne(srcs, flag_n, flag_r, 1)

-------------------------------------------------------------------------------
\* peek -r and peek -rn print, file by file, the lines that peek and peek -n print,
\* in the opposite order within each file and with the same numbers, wherever the
\* chunks of the backward scan fall.  A file that is a single newline is the
\* exception: forwards it is one empty line, the backward scan prints nothing.
ReversesEachFile(srcs) ==
    (\A i \in 1 .. Len(srcs) : srcs[i].kind = "file" => srcs[i].text # <<LF>>) =>
        \A flag_n \in BOOLEAN :
            LET numbersBefore(i) == IF flag_n
                                    THEN FoldLeft(LAMBDA n, src : n + count_non_empty_lines(src.text), 1,
                                                  SelectSeq(SubSeq(srcs, 1, i - 1), LAMBDA src : src.kind # "none"))
                                    ELSE 1
                part(i) == IF srcs[i].kind = "none" THEN <<>>
                           ELSE Reverse(print_forward(srcs[i].text, flag_n, numbersBefore(i)))
            IN /\ run_peek(srcs, flag_n, TRUE) = FlattenSeq([i \in 1 .. Len(srcs) |-> part(i)])
               /\ run_peek(srcs, flag_n, FALSE) = FlattenSeq([i \in 1 .. Len(srcs) |-> Reverse(part(i))])

===============================================================================
