-------------------------- MODULE MCDynamicSecrets --------------------------
(***************************************************************************)
(* Model values for DynamicSecrets: a lease with all requests and another  *)
(* one that is only generated; two versions of the configuration, of which *)
(* the second may lack all roles, the roles of the leases or the           *)
(* statements, or be pushed with the payload of the first and the first    *)
(* with that of the second.                                                *)
(***************************************************************************)
EXTENDS DynamicSecrets

CONSTANTS l1, l2

Holds(roles, statements, payload) == [roles |-> roles, statements |-> statements, payload |-> payload]

MCCatalogs ==
  {<<Holds("all", Ops, 1), Holds("none", {}, 2)>>, <<Holds("all", Ops, 1), Holds("all", {}, 2)>>,
   <<Holds("all", Ops, 1), Holds("others", {"revoke"}, 2)>>,
   <<Holds("all", Ops, 1), Holds("all", Ops, 2)>>, <<Holds("all", Ops, 2), Holds("all", Ops, 1)>>}
MCRequests == {l1} \X Ops \union {<<l2, "generate">>}
=============================================================================
