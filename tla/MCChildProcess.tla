--------------------------- MODULE MCChildProcess ---------------------------
(***************************************************************************)
(* ChildProcess for TLC.  Pids and Tasks are not declared symmetric: the   *)
(* runs also check liveness.                                               *)
(***************************************************************************)
EXTENDS ChildProcess
=============================================================================
