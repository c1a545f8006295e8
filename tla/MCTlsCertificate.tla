-------------------------- MODULE MCTlsCertificate --------------------------
(***************************************************************************)
(* TlsCertificate for TLC: the bounds are given in the configuration.      *)
(***************************************************************************)
EXTENDS TlsCertificate
=============================================================================
