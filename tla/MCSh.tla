--------------------------------- MODULE MCSh ---------------------------------
(* A small instance of the xv6 shell: every line of up to MAXLINE characters   *)
(* is parsed, and each line of Entered is run, with and without a file f.      *)
EXTENDS Sh

Characters == {"e", " ", "<", ">", "|", "&", ";", "(", ")"}

\* The lines: e f >f ; c <f | c ... ; the letters e and c are programs, f and g
\* are words and files, x is no program.
Entered ==
    {<<"e", " ", "f", "|", "c">>,
     <<"e", " ", "f", " ", "g", "|", "c", "|", "c", ">", "f">>,
     <<"c", "<", "f", "|", "e", " ", "g">>,
     <<"e", " ", "f", " ", "g", ">", "f", ">", "g">>,
     <<"e", " ", "g", ">", ">", "f", ";", "c", "<", "f">>,
     <<"(", "e", " ", "f", ";", "e", " ", "g", ")", "|", "(", "c", ";", "x", ")">>,
     <<"e", " ", "f", " ", "g", "&">>,
     <<"(", "e", " ", "f", "&", ")", "|", "c", "&", ";", "c", ">", "f">>,
     <<" ">>,
     <<"e", "|", "c", "|", "c", "|", "c">>,
     <<"e", "|", ">">>}

Stores == {[f \in {} |-> <<>>], [f \in {<<"f">>} |-> <<<<"h">>, <<"i">>>>]}

===============================================================================
