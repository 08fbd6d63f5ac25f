----------------------------- MODULE MCManager -----------------------------
(***************************************************************************)
(* Instances of Manager for TLC: two slot functions for the apply cache,   *)
(* and a caller that applies operators to three declared variables.        *)
(***************************************************************************)
EXTENDS Manager, TLC

\* Every key hashes to one slot: each put evicts what was put before.
OneSlot(f, g, h) == 0

\* Keys spread over the slots and often collide.
SpreadSlot(f, g, h) == (f + 2 * g + 3 * h + 12) % CacheSlots

\* The engine never looks at which handle is which.
HandleSymmetry == Permutations(Handles)
-----------------------------------------------------------------------------
(* A caller that starts from the variables x0, x1, ... as make_node leaves  *)
(* them, each held by the handle of its number, and calls make_node no more.*)

VarNode(v) == Encode(v, FalseRef, TrueRef, 0)
VarSize == NodeSize(VarNode(0))
VarOffset(v) == v * VarSize

ProjInit ==
  /\ buf = [o \in {VarOffset(v) : v \in Vars} |-> VarNode(o \div VarSize)]
  /\ bufLen = VarOffset(MaxVars)
  /\ unique = [v \in Vars |-> {VarOffset(v)}]
  /\ numVars = MaxVars
  /\ cache = [s \in 0 .. CacheSlots - 1 |-> EmptyEntry]
  /\ cacheLen = 0
  /\ held = [k \in Handles |-> IF k \in Vars THEN VarOffset(k) ELSE FalseRef]
  /\ pc = "idle"
  /\ call = NoCall
  /\ stack = <<>>
  /\ results = <<>>
  /\ den = [o \in DOMAIN buf |-> Shannon(VarOf(o), FalseFn, TrueFn)]

ProjNext ==
  \/ \E k \in Handles \ Vars :
       Constant(k) \/ Not(k) \/ And(k) \/ Or(k) \/ Xor(k) \/ Ite(k)
  \/ IteStep

ProjSpec == ProjInit /\ [][ProjNext]_vars /\ Fairness
=============================================================================
