--------------------------------- MODULE Lexer ---------------------------------
(* The C shell's lexer.c and parser.c: how a line becomes tokens, and which    *)
(* token lists valid_syntax accepts.  A character is a one-letter string, a    *)
(* line a sequence of characters; past its end is the terminating NUL.         *)
EXTENDS Naturals, Sequences, FiniteSets, FiniteSetsExt, SequencesExt, Folds

NUL == "NUL"

NL == "\n"

blanks == {" ", NL}

SQ == "'"

DQ == "\""

BSL == "\\"

operators == {"|", "&", ";", "<", ">"}

\* A line as getline returns it.
Entered(l) == Append(l, NL)

CharAt(l, i) == IF i > Len(l) THEN NUL ELSE l[i]

Token(type, value) == [type |-> type, value |-> value]

-------------------------------------------------------------------------------
(* lex_input.  quote is "" or the quote that is open: sq and dq are never both *)
(* set.  A word ends in a result; ok is FALSE for "invalid syntax".            *)

Fail == [ok |-> FALSE]

Toggled(quote, c) == IF quote = c THEN "" ELSE c

\* The characters a backslash escapes, in each state of quoting.
\* Variant: in double quotes only the quote.
Escapes_Quote(quote, d) ==
    \/ quote = "" /\ d \notin {NUL, NL}
    \/ quote = DQ /\ d = DQ

Escapes(quote, d) ==
    \/ quote = "" /\ d \notin {NUL, NL}
    \/ quote = DQ /\ d \in {DQ, BSL}

RECURSIVE Word(_, _, _, _)

WordAt(l, i, quote, buffer, c, d) ==
    IF c = NUL \/ (quote = "" /\ c \in blanks \union operators)
    THEN IF quote = "" THEN [ok |-> TRUE, i |-> i, value |-> buffer] ELSE Fail
    ELSE IF (c = SQ /\ quote # DQ) \/ (c = DQ /\ quote # SQ)
    THEN Word(l, i + 1, Toggled(quote, c), buffer)
    ELSE IF c = BSL /\ Escapes(quote, d) THEN Word(l, i + 2, quote, Append(buffer, d))
    ELSE IF c = BSL /\ quote = "" THEN Fail
    ELSE Word(l, i + 1, quote, Append(buffer, c))

Word(l, i, quote, buffer) == WordAt(l, i, quote, buffer, CharAt(l, i), CharAt(l, i + 1))

RECURSIVE LexFrom(_, _, _)

AddWord(l, w, tokens) ==
    IF w.ok THEN LexFrom(l, w.i, Append(tokens, Token("WORD", w.value))) ELSE Fail

\* Maximal munch: >> before >.
LexFrom(l, i, tokens) ==
    IF CharAt(l, i) = NUL THEN [ok |-> TRUE, tokens |-> tokens]
    ELSE IF CharAt(l, i) \in blanks THEN LexFrom(l, i + 1, tokens)
    ELSE IF CharAt(l, i) = ">" /\ CharAt(l, i + 1) = ">"
    THEN LexFrom(l, i + 2, Append(tokens, Token(">>", <<">", ">">>)))
    ELSE IF CharAt(l, i) \in operators
    THEN LexFrom(l, i + 1, Append(tokens, Token(CharAt(l, i), <<CharAt(l, i)>>)))
    ELSE AddWord(l, Word(l, i, "", <<>>), tokens)

lex_input(l) == LexFrom(l, 1, <<>>)

-------------------------------------------------------------------------------
(* valid_syntax: one pass over the tokens with a look at the next one.         *)

redirections == {"<", ">", ">>"}

separators == {"|", "&", ";"}

TypeAt(ts, k) == IF k \in 1 .. Len(ts) THEN ts[k].type ELSE NUL

\* Variant: a semicolon may end the line.
valid_syntax_Semi(ts) ==
    \A k \in 1 .. Len(ts) :
        /\ k = 1 => TypeAt(ts, k) = "WORD"
        /\ TypeAt(ts, k) \in redirections => TypeAt(ts, k + 1) = "WORD"
        /\ TypeAt(ts, k) = "|" => TypeAt(ts, k + 1) \notin separators \union {NUL}
        /\ TypeAt(ts, k) \in {"&", ";"} => TypeAt(ts, k + 1) \notin separators

valid_syntax(ts) ==
    \A k \in 1 .. Len(ts) :
        /\ k = 1 => TypeAt(ts, k) = "WORD"
        /\ TypeAt(ts, k) \in redirections => TypeAt(ts, k + 1) = "WORD"
        /\ TypeAt(ts, k) \in {"|", ";"} => TypeAt(ts, k + 1) \notin separators \union {NUL}
        /\ TypeAt(ts, k) = "&" => TypeAt(ts, k + 1) \notin separators

-------------------------------------------------------------------------------
(* References: an automaton that reads a line character by character and       *)
(* never looks ahead, and the grammar of a line.                               *)

\* mode is "gap", ">" after a first >, "in" a word, "esc" after a backslash in
\* it, SQ or DQ inside quotes, "dqesc" after a backslash in double quotes, "bad".
Put(a, c) == [a EXCEPT !.word = Append(@, c)]

In(a, mode) == [a EXCEPT !.mode = mode]

Ended(a) ==
    CASE a.mode = "in" -> [mode |-> "gap", word |-> <<>>, tokens |-> Append(a.tokens, Token("WORD", a.word))]
      [] a.mode = ">"  -> [a EXCEPT !.mode = "gap", !.tokens = Append(@, Token(">", <<">">>))]
      [] OTHER -> a

Operator(a, c) ==
    IF c = ">" THEN In(a, ">") ELSE [a EXCEPT !.tokens = Append(@, Token(c, <<c>>))]

Plainly(a, c) ==
    IF c \in {SQ, DQ} THEN In(a, c)
    ELSE IF c = BSL THEN In(a, "esc")
    ELSE Put(In(a, "in"), c)

Read(a, c) ==
    CASE a.mode = "esc" -> IF c = NL THEN In(a, "bad") ELSE Put(In(a, "in"), c)
      [] a.mode = SQ -> IF c = SQ THEN In(a, "in") ELSE Put(a, c)
      [] a.mode = DQ -> IF c = DQ THEN In(a, "in") ELSE IF c = BSL THEN In(a, "dqesc") ELSE Put(a, c)
      [] a.mode = "dqesc" -> IF c \in {DQ, BSL} THEN Put(In(a, DQ), c) ELSE Put(Put(In(a, DQ), BSL), c)
      [] a.mode = "bad" -> a
      [] a.mode = ">" /\ c = ">" ->
            [a EXCEPT !.mode = "gap", !.tokens = Append(@, Token(">>", <<">", ">">>))]
      [] OTHER -> IF c \in blanks THEN Ended(a)
                  ELSE IF c \in operators THEN Operator(Ended(a), c)
                  ELSE IF a.mode = ">" THEN Plainly(Ended(a), c) ELSE Plainly(a, c)

Automaton(l) ==
    LET run[i \in 0 .. Len(l)] ==
            IF i = 0 THEN [mode |-> "gap", word |-> <<>>, tokens |-> <<>>] ELSE Read(run[i - 1], l[i])
    IN IF run[Len(l)].mode \in {"gap", ">", "in"}
       THEN [ok |-> TRUE, tokens |-> Ended(run[Len(l)]).tokens] ELSE Fail

\* A command is words and redirections, each with its word.
Command(ts) ==
    /\ ts # <<>>
    /\ \A k \in 1 .. Len(ts) :
          \/ ts[k].type = "WORD"
          \/ ts[k].type \in redirections /\ k < Len(ts) /\ ts[k + 1].type = "WORD"

\* The grammar of a line: commands, a separator between each two, and perhaps an
\* & at the end; the first starts with a word.
Grammar(ts) ==
    LET cuts == SetToSortSeq({k \in 1 .. Len(ts) : ts[k].type \in separators}
                                \union {0, Len(ts) + 1}, <)
        part(n) == SubSeq(ts, cuts[n] + 1, cuts[n + 1] - 1)
    IN \/ ts = <<>>
       \/ /\ ts[1].type = "WORD"
          /\ \A n \in 1 .. Len(cuts) - 1 :
                \/ Command(part(n))
                \/ n > 1 /\ n = Len(cuts) - 1 /\ part(n) = <<>> /\ ts[Len(ts)].type = "&"

-------------------------------------------------------------------------------
(* Three ways to quote a string.                                               *)

Around(q, s) == <<q>> \o s \o <<q>>

Escaped(s, set) ==
    LET f[i \in 0 .. Len(s)] ==
            IF i = 0 THEN <<>> ELSE f[i - 1] \o (IF s[i] \in set THEN <<BSL, s[i]>> ELSE <<s[i]>>)
    IN f[Len(s)]

\* Any string can be given as an argument, and comes out of lex_input as it is:
\* in single quotes if it has none, in double quotes with " and \ escaped, and
\* bare with every special character escaped if it is not empty.
QuotingRoundTrip(s) ==
    LET gives(l) == lex_input(Entered(l)) = [ok |-> TRUE, tokens |-> <<Token("WORD", s)>>]
    IN /\ SQ \notin Range(s) => gives(Around(SQ, s))
       /\ gives(Around(DQ, Escaped(s, {DQ, BSL})))
       /\ s # <<>> => gives(Escaped(s, blanks \union operators \union {SQ, DQ, BSL}))

\* The tokens of a line are those of an automaton that reads it once, left to
\* right: the look-ahead of lex_input for >> and for escapes never takes a
\* character twice or skips one, and a line is refused exactly when it ends
\* inside quotes or its newline is escaped.
LexesAsAutomaton(l) == lex_input(Entered(l)) = Automaton(Entered(l))

\* The one-pass check of valid_syntax accepts exactly the grammar.
AcceptsGrammar(l) ==
    \A r \in {lex_input(Entered(l))} : r.ok => valid_syntax(r.tokens) = Grammar(r.tokens)

===============================================================================
