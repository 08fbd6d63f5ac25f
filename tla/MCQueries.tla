----------------------------- MODULE MCQueries -----------------------------
(***************************************************************************)
(* Slabs for Queries: the diagrams of functions, laid out as slab_for      *)
(* leaves them, children first and each node once.                         *)
(***************************************************************************)
EXTENDS Queries

NoNodes ==
  [bytes |-> <<>>, len |-> 0,
   at |-> [f \in {FalseFn, TrueFn} |-> IF f = FalseFn THEN FalseRef ELSE TrueRef]]

\* The diagram d, and that of f, which depends on no variable below v.
RECURSIVE Lay(_, _, _)
Lay(d, f, v) ==
  IF f \in DOMAIN d.at THEN d
  ELSE IF IndependentOf(f, v) THEN Lay(d, f, v + 1)
  ELSE LET lo == {a \in Assignments : a \ {v} \in f}
           hi == {a \in Assignments : a \cup {v} \in f}
           e == Lay(Lay(d, lo, v + 1), hi, v + 1)
           raw == Encode(v, e.at[lo], e.at[hi], e.len)
       IN  [bytes |-> [o \in DOMAIN e.bytes \cup {e.len} |->
                         IF o = e.len THEN raw ELSE e.bytes[o]],
            len |-> e.len + NodeSize(raw),
            at |-> [g \in DOMAIN e.at \cup {f} |->
                      IF g = f THEN e.len ELSE e.at[g]]]

SlabOf(f, g) ==
  LET d == Lay(Lay(NoNodes, f, 0), g, 0) IN
  [bytes |-> d.bytes, roots |-> {d.at[f], d.at[g]}]

Parity == {a \in Assignments : Cardinality(a) % 2 = 1}
AllTrue == {Vars}

\* Any function of the variables but the first, beside parity and below nodes
\* that repeat it, complement it or stand it beside another.
Later == {f \in Functions : IndependentOf(f, 0)}
LaterParity == {a \in Assignments : Cardinality(a \ {0}) % 2 = 1}
SomeSlabs ==
  {SlabOf(f, Parity) : f \in Later}
    \cup {SlabOf(Shannon(0, f, LaterParity), f) : f \in Later}
    \cup {SlabOf(Shannon(0, f, TrueFn \ f), AllTrue) : f \in Later}
=============================================================================
