----------------------------- MODULE MCFileSys ------------------------------
\* Instances of FileSys.
EXTENDS FileSys

CONSTANTS p1, p2

abs(names) == [abs |-> TRUE, names |-> names]
rel(names) == [abs |-> FALSE, names |-> names]

MCFiles == <<"a">>

Opening(path, cr, wr, tr) ==
  [op |-> "open", path |-> path, create |-> cr, write |-> wr, trunc |-> tr]

\* The first process changes the root directory or opens a file, the other one inherits that
\* file or comes later, and works in a directory of its own.
MCCalls ==
  p1 :> { [op |-> "fork"],
          [op |-> "unlink", path |-> abs(<<"d">>)],
          [op |-> "unlink", path |-> abs(<<"a">>)],
          Opening(abs(<<"a">>), TRUE, FALSE, FALSE) }
  @@
  p2 :> { [op |-> "exit"],
          [op |-> "mkdir", path |-> rel(<<"d">>)],
          [op |-> "chdir", path |-> rel(<<"d">>)],
          [op |-> "mknod", path |-> rel(<<"..", "d">>), type |-> "dev"],
          [op |-> "link", path |-> abs(<<"a">>), new |-> rel(<<"b">>)],
          [op |-> "unlink", path |-> rel(<<"..">>)],
          Opening(abs(<<"a">>), FALSE, TRUE, TRUE),
          [op |-> "write", fd |-> 1, n |-> 2],
          [op |-> "read", fd |-> 1],
          [op |-> "dup", fd |-> 1],
          [op |-> "close", fd |-> 1] }

MCMaxCalls == p1 :> 1 @@ p2 :> 3
=============================================================================
