------------------------------- MODULE MCProc -------------------------------
(***************************************************************************)
(* Instances of Proc: the statuses and the pids that user programs pass.   *)
(***************************************************************************)
EXTENDS Proc

MCStatus == {0}
AnyPid   == 0 .. MAX_PID
UserPids == 2 .. MAX_PID

=============================================================================
