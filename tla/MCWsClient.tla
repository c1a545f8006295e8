----------------------------- MODULE MCWsClient -----------------------------
(***************************************************************************)
(* WsClient for TLC.  The sockets are not declared symmetric: the run also *)
(* checks liveness.                                                        *)
(***************************************************************************)
EXTENDS WsClient
=============================================================================
