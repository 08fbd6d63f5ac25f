---------------------------- MODULE BoolAlgebra ----------------------------
(***************************************************************************)
(* Boolean functions of the variables 0 .. MaxVars - 1, the variable order *)
(* of the diagrams.  A function is the set of assignments that satisfy it, *)
(* an assignment the set of variables it makes true.                       *)
(***************************************************************************)
EXTENDS Integers

CONSTANT MaxVars  \* bound on the number of declared variables

ASSUME MaxVarsAssumption == MaxVars \in Nat

Vars == 0 .. MaxVars - 1
Assignments == SUBSET Vars
Functions == SUBSET Assignments
FalseFn == {}
TrueFn == Assignments

\* The function that is lo where v is false and hi where v is true.
Shannon(v, lo, hi) ==
  {a \in Assignments : IF v \in a THEN a \in hi ELSE a \in lo}

\* The function that is g where f holds and h elsewhere.
IteFn(f, g, h) == (f \cap g) \cup (h \ f)

\* The function that holds where one of f and g does.
XorFn(f, g) == (f \ g) \cup (g \ f)

\* D does not depend on variable v.
IndependentOf(D, v) ==
  \A a \in Assignments : a \cup {v} \in D <=> a \ {v} \in D
=============================================================================
