---------------------------- MODULE MCAutoUpdate ----------------------------
(***************************************************************************)
(* Two checks: of two agents of a host, of one agent, and one of an agent  *)
(* beside an update that another agent is asked for.  Every agent may      *)
(* write the lock file, or one of them, or none as with the unit file of   *)
(* the repository.                                                         *)
(***************************************************************************)
EXTENDS AutoUpdate, TLC

CONSTANTS a1, a2, c1, c2

Runs(a)  == [agent |-> a, manual |-> FALSE]
Asked(a) == [agent |-> a, manual |-> TRUE]
MCCastings ==
  {c1 :> Runs(a1) @@ c2 :> Runs(a2), c1 :> Runs(a1) @@ c2 :> Runs(a1), c1 :> Runs(a1) @@ c2 :> Asked(a2)}

Host(agents, bin) == [writers |-> agents, npmBin |-> bin]
MCHosts ==
  {Host({a1, a2}, TRUE), Host({a2}, FALSE), Host({}, FALSE)}
=============================================================================
