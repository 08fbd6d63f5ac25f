------------------------------- MODULE KeySet -------------------------------
(***************************************************************************)
(* What one table of the unique table promises make_node: a set of nodes.  *)
(* A node asked for is found exactly when it was given to the table, and   *)
(* is there afterwards.  A rebuilding is given a set, puts its nodes in    *)
(* one by one, and until then nothing else happens.                        *)
(***************************************************************************)
CONSTANT Keys

VARIABLES
  keys,    \* the nodes given to the table
  wanted,  \* the node asked for: none, or one
  found,   \* whether the last one asked for was there
  left     \* the nodes a rebuilding under way has yet to put in

keyVars == <<keys, wanted, found, left>>

Init == keys = {} /\ wanted = {} /\ found = FALSE /\ left = {}

Ask ==
  /\ wanted = {}
  /\ left = {}
  /\ \E k \in Keys : wanted' = {k}
  /\ UNCHANGED <<keys, found, left>>

Answer ==
  /\ wanted # {}
  /\ found' = (wanted \subseteq keys)
  /\ keys' = keys \cup wanted
  /\ wanted' = {}
  /\ UNCHANGED left

Rebuild ==
  /\ wanted = {}
  /\ left = {}
  /\ keys' \in SUBSET Keys
  /\ left' = keys'
  /\ UNCHANGED <<wanted, found>>

PutBack ==
  /\ \E k \in left : left' = left \ {k}
  /\ UNCHANGED <<keys, wanted, found>>

Spec == Init /\ [][Ask \/ Answer \/ Rebuild \/ PutBack]_keyVars
=============================================================================
