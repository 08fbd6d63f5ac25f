------------------------------- MODULE BoolGc -------------------------------
(***************************************************************************)
(* What the manager promises its caller once it collects garbage.  A       *)
(* collection is told which handles to keep when it begins, takes no calls *)
(* while it runs, and ends with the handles kept standing for what they    *)
(* stood for and the others given up.                                      *)
(***************************************************************************)
EXTENDS BoolFns

VARIABLE kept  \* the handles the collection under way keeps: no set, or one

GcInit == Init /\ kept = {}

Call == kept = {} /\ Next /\ UNCHANGED kept

Collect ==
  /\ kept = {}
  /\ owed = NoneOwed
  /\ \E K \in SUBSET Handles : kept' = {K}
  /\ UNCHANGED <<fn, numVars, owed>>

Collected ==
  /\ \E K \in kept :
       fn' = [k \in Handles |-> IF k \in K THEN fn[k] ELSE FalseFn]
  /\ kept' = {}
  /\ UNCHANGED <<numVars, owed>>

GcNext == Call \/ Collect \/ Collected

GcSteps == [][GcNext]_<<fn, numVars, owed, kept>>

GcSpec == GcInit /\ GcSteps
=============================================================================
