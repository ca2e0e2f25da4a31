------------------------------- MODULE MCJobs -------------------------------
(* Instances of Jobs for TLC. *)
EXTENDS Jobs

\* One command; a pipeline of two; those, and commands that cannot be started, alone
\* and as the first of a pipeline.
Single    == {<<TRUE>>}
Pair      == {<<TRUE, TRUE>>}
Usual     == {<<TRUE>>, <<FALSE>>, <<TRUE, TRUE>>, <<FALSE, TRUE>>}

Yes    == {TRUE}
No     == {FALSE}
Either == BOOLEAN
=============================================================================
