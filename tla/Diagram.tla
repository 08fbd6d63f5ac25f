------------------------------ MODULE Diagram ------------------------------
(***************************************************************************)
(* The functions the nodes of an arena stand for, from its bytes alone.    *)
(***************************************************************************)
EXTENDS Codec, BoolAlgebra

\* The function of the reference r where the nodes stand for fns.
FnIn(fns, r) ==
  CASE r = FalseRef -> FalseFn
    [] r = TrueRef  -> TrueFn
    [] OTHER        -> fns[r]

\* That of the node at o of the bytes b.  A child code that falls inside a node
\* reads as a node nobody wrote: FALSE.
NodeFn(b, fns, o) ==
  LET n == Decode(b, o)
      at(c) == IF c \in Terminals \cup DOMAIN b THEN FnIn(fns, c) ELSE FalseFn
  IN  Shannon(n.var, at(n.lo), at(n.hi))

\* The functions of all nodes of the bytes b.
Meanings(b) ==
  LET fn[o \in DOMAIN b] == NodeFn(b, fn, o) IN fn
=============================================================================
