------------------------------ MODULE MCApiKey ------------------------------
(***************************************************************************)
(* ApiKey for TLC.                                                         *)
(***************************************************************************)
EXTENDS ApiKey
=============================================================================
