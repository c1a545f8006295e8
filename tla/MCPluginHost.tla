---------------------------- MODULE MCPluginHost ----------------------------
(***************************************************************************)
(* Two plugins, the first of them configured first.                        *)
(***************************************************************************)
EXTENDS PluginHost, TLC

CONSTANTS first, second, d1, d2

MCOrder == <<first, second>>
=============================================================================
