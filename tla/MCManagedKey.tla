---------------------------- MODULE MCManagedKey ----------------------------
(***************************************************************************)
(* Model values for ManagedKey; the calls are interchangeable.             *)
(***************************************************************************)
EXTENDS ManagedKey, TLC

Symmetry == Permutations(Calls)

(* An operator's rotation or a revocation is not combined with a refresh that goes wrong:
   KeyStaysValid exempts the two together, and the other invariants are theorems without
   this restriction. *)
Apart == manual = 0 \/ lost + unsaved = 0
=============================================================================
