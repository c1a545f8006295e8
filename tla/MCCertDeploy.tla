---------------------------- MODULE MCCertDeploy ----------------------------
(***************************************************************************)
(* CertDeploy for TLC: three outputs, the last of which a certificate may  *)
(* lack.                                                                   *)
(***************************************************************************)
EXTENDS CertDeploy

CONSTANTS cert, key, chain

ThreeOutputs == <<cert, key, chain>>
TwoOutputs   == <<cert, key>>
=============================================================================
