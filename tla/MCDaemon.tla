------------------------------ MODULE MCDaemon ------------------------------
(***************************************************************************)
(* Daemon with three versions of the secret, so that two of its events and *)
(* the poll overlap, two of the configuration and two keys.                *)
(***************************************************************************)
EXTENDS Daemon
=============================================================================
