-------------------------------- MODULE MCCShell --------------------------------
(* A small instance of the C shell.  Lines of Commands are entered, several in *)
(* a row.  At the first prompt, every short line is also lexed, every short    *)
(* text given to peek and every short trace to snoop.                          *)
EXTENDS CShell, Peek, Snoop

CONSTANTS
    CHARS, MAXTYPED,     \* bound: the lines that are lexed
    MAXTEXT,             \* bound: the texts that peek is given
    STOPS, MAXSTOPS,     \* bound: the traces of snoop
    MAXOTHERS            \* bound: what is no system-call stop in one

VARIABLES typed, text, stops

mcvars == <<vars, typed, text, stops>>

Paths == ("/" :> <<>>) @@ ("H" :> <<"/", "h">>) @@ ("D" :> <<"/", "h", "/", "d">>)
            @@ ("E" :> <<"/", "h", "/", "d", "c">>)

Exes == {<<"/", "e">>, <<"/", "c">>, <<"/", "h", "/", "d", "/", "e">>}

Path == <<"/">>

Commands ==
    {<<"h", " ", "d">>,
     <<"h", " ", "d", "c", " ", ".", ".">>,
     <<"h", " ", ".", ".", " ", "-", " ", "~">>,
     <<"h", " ", "d", ">", "f">>,
     <<"e", " ", "a", ">", "f", "&">>,
     <<"h", " ", SQ, SQ>>,
     <<"e", " ", "b", " ", "c", ">", ">", "f", ">", "g", ">", ">", "f">>,
     <<"e", " ", "a", ">", ">", "g", "|", "e", " ", "b", ">", ">", "g">>,
     <<"c", "<", "f", "<", "g", "|", "c", ">", "f">>,
     <<"c", "<", "f", ">", "f", "|", "p", "|", "<", "f">>,
     <<"p", "<", "f", ">", ">", "f", ">", ">", "g">>,
     <<"x", ">", "g", ";", "e">>,
     <<"%", "e", " ", "a", ">", "g", ">", "d", ";", "l", " ", "e", ">", "g">>,
     <<"l", " ", "e", ">", "g">>}

Characters == {"a", " ", ">", "|", "&", ";", SQ, DQ, BSL}

Untouched == runs = 0 /\ clock = 0 /\ dirs = DIRS

MCInit == Init /\ typed = <<>> /\ text = <<>> /\ stops = <<>>

Type(c) ==
    /\ Untouched /\ text = <<>> /\ stops = <<>> /\ Len(typed) < MAXTYPED
    /\ typed' = Append(typed, c) /\ UNCHANGED <<vars, text, stops>>

WriteText(c) ==
    /\ Untouched /\ typed = <<>> /\ stops = <<>> /\ Len(text) < MAXTEXT
    /\ text' = Append(text, c) /\ UNCHANGED <<vars, typed, stops>>

Stop(c) ==
    /\ Untouched /\ typed = <<>> /\ text = <<>> /\ Len(stops) < MAXSTOPS
    /\ stops' = Append(stops, c) /\ WellFormed(stops')
    /\ Len(SelectSeq(stops', LAMBDA s : s \in Others \union {"error"})) <= MAXOTHERS
    /\ UNCHANGED <<vars, typed, text>>

Shell == typed = <<>> /\ text = <<>> /\ stops = <<>> /\ Next /\ UNCHANGED <<typed, text, stops>>

MCNext ==
    \/ Shell
    \/ \E c \in CHARS : Type(c)
    \/ \E c \in {"a", LF, CR} : WriteText(c)
    \/ \E c \in STOPS : Stop(c)

MCSpec == MCInit /\ [][MCNext]_mcvars

-------------------------------------------------------------------------------
\* lex_input: any string can be quoted in each of the shell's ways and comes out
\* as one word.
QuotingWorks == QuotingRoundTrip(typed)

\* lex_input gives the tokens that reading the line once, without looking ahead,
\* gives.
LexesOnce == LexesAsAutomaton(typed)

\* valid_syntax accepts the lines of the grammar and no others.
SyntaxIsGrammar == AcceptsGrammar(typed)

\* peek -r: with the text as a file, twice, around something unreadable and the
\* standard input, every file is reversed in its place.
PeekReverses ==
    ReversesEachFile(<<[kind |-> "file", text |-> text], [kind |-> "none", text |-> <<>>],
                       [kind |-> "stdin", text |-> text], [kind |-> "file", text |-> Reverse(text)]>>)

\* snoop: the summary of any trace counts its calls.
SnoopCounts == CountsCalls(stops)

===============================================================================
