------------------------------ MODULE BoolFns ------------------------------
(***************************************************************************)
(* What the BDD manager promises its caller: handles to Boolean functions. *)
(* There are no nodes, no table, no cache and no collector here: a call is *)
(* answered by the function it asked for, and changes no other handle.     *)
(***************************************************************************)
EXTENDS BoolAlgebra

CONSTANT Handles  \* the references the caller holds

VARIABLES
  fn,       \* the function each handle stands for
  numVars,  \* the number of declared variables
  owed      \* the call under way: its handle and the function it must return

NoneOwed == <<>>

Operands == {FalseFn, TrueFn} \cup {fn[k] : k \in Handles}

Init ==
  /\ fn = [k \in Handles |-> FalseFn]
  /\ numVars = 0
  /\ owed = NoneOwed

Declare ==
  /\ numVars < MaxVars
  /\ numVars' = numVars + 1
  /\ UNCHANGED <<fn, owed>>

\* A node on v above children that do not depend on v or a variable before it.
Branch(k) ==
  /\ owed = NoneOwed
  /\ \E v \in 0 .. numVars - 1, lo, hi \in Operands :
       /\ \/ lo = hi
          \/ \A u \in 0 .. v : IndependentOf(lo, u) /\ IndependentOf(hi, u)
       /\ fn' = [fn EXCEPT ![k] = IF lo = hi THEN lo ELSE Shannon(v, lo, hi)]
  /\ UNCHANGED <<numVars, owed>>

Owe(k, D) == owed' = [dest |-> k, fn |-> D]

\* The caller asks for NOT, AND, OR, XOR or if-then-else.
Ask(k) ==
  /\ owed = NoneOwed
  /\ \/ \E f \in Operands : Owe(k, TrueFn \ f)
     \/ \E f, g \in Operands :
          Owe(k, f \cap g) \/ Owe(k, f \cup g) \/ Owe(k, XorFn(f, g))
     \/ \E f, g, h \in Operands : Owe(k, IteFn(f, g, h))
  /\ UNCHANGED <<fn, numVars>>

Answer ==
  /\ owed # NoneOwed
  /\ fn' = [fn EXCEPT ![owed.dest] = owed.fn]
  /\ owed' = NoneOwed
  /\ UNCHANGED numVars

\* The caller gives a handle up for a constant.
Constant(k) ==
  /\ owed = NoneOwed
  /\ \E c \in {FalseFn, TrueFn} : fn' = [fn EXCEPT ![k] = c]
  /\ UNCHANGED <<numVars, owed>>

Next ==
  \/ Declare
  \/ \E k \in Handles : Constant(k) \/ Branch(k) \/ Ask(k)
  \/ Answer

Steps == [][Next]_<<fn, numVars, owed>>

Spec == Init /\ Steps
=============================================================================
