--------------------------- MODULE ConfigRegister ---------------------------
(***************************************************************************)
(* What lib/config/ promises of config.json: a register that every update  *)
(* changes in one step, and that keeps what was stored.  The promise ends  *)
(* when two processes overlap in an update or one dies in the middle of a  *)
(* write: from then on nothing is said.                                    *)
(***************************************************************************)
EXTENDS Naturals

CONSTANTS Keys, Targets, None

VARIABLES
  value,   \* the stored configuration
  intact   \* no overlap and no cut write so far

vars == <<value, intact>>

(* The fields of AgentConfig the updates touch: auth.apiKey, whether managedKey is set and
   has a filePath, the targets, those with a lastFingerprint or lastVersion, and tls.enabled. *)
Config == [key : Keys \cup {None}, managed : BOOLEAN, file : BOOLEAN,
           targets : SUBSET Targets, synced : SUBSET Targets, tls : BOOLEAN]

Empty == [key |-> None, managed |-> FALSE, file |-> FALSE,
          targets |-> {}, synced |-> {}, tls |-> FALSE]

(* The updates, as changes of a loaded configuration.  The agent's updates also write the
   key of its environment, which loadConfig() has put in. *)
WithKey(v, k)     == [v EXCEPT !.key = k]
WithTarget(v, c)  == [v EXCEPT !.targets = @ \cup {c}, !.synced = @ \ {c}]
Without(v, c)     == [v EXCEPT !.targets = @ \ {c}, !.synced = @ \ {c}]
WithMark(v, c)   == [v EXCEPT !.synced = @ \cup {c}]
WithTls(v, on)    == [v EXCEPT !.tls = on]
WithLogin(v, k)   == [v EXCEPT !.key = k, !.managed = FALSE, !.file = FALSE]
WithBinding(v, k) == [v EXCEPT !.key = k, !.managed = TRUE]

Updated(v) ==
  (UNION {{WithKey(v, k), WithLogin(v, k), WithBinding(v, k)} : k \in Keys})
    \cup (UNION {{WithTarget(v, c), Without(v, c), WithMark(v, c)} : c \in Targets})
    \cup {WithMark(WithKey(v, k), c) : k \in Keys, c \in Targets}
    \cup {WithTls(v, on) : on \in BOOLEAN}

Init == value \in Config /\ intact = TRUE

Update == intact /\ value' \in Updated(value) /\ UNCHANGED intact
Damage == intact' = FALSE

Next == Update \/ Damage
Spec == Init /\ [][Next]_vars
=============================================================================
