------------------------------ MODULE Queries ------------------------------
(***************************************************************************)
(* Questions asked of a slab's bytes, with no manager (src/slab.rs): the   *)
(* variables a root branches on, by a walk one turn of whose loop is a     *)
(* step, and the number of assignments that satisfy it, in floating point. *)
(***************************************************************************)
EXTENDS Diagram, SequencesExt

CONSTANTS
  Slabs,       \* clean slabs: their nodes, and the exported roots
  Precision,   \* bits of a float's significand (53 in the code)
  ShiftBits,   \* bits of the shifted 1 (64 in the code)
  DebugBuild   \* whether arithmetic overflow panics

\* A slab as slab_for leaves it: a reduced and ordered diagram, in which equal
\* functions are equal references.
CleanSlab(s) ==
  /\ s.bytes \in [DOMAIN s.bytes -> [var : Vars, lo : Nat, hi : Nat]]
  /\ IsFiniteSet(DOMAIN s.bytes) /\ DOMAIN s.bytes \subseteq Offsets
  /\ s.roots \subseteq Terminals \cup DOMAIN s.bytes
  /\ \A o \in DOMAIN s.bytes :
       LET n == Decode(s.bytes, o) IN
       /\ n.lo # n.hi
       /\ \A c \in {n.lo, n.hi} \ Terminals :
            c \in DOMAIN s.bytes /\ c < o /\ s.bytes[c].var > n.var
  /\ \A q, r \in Terminals \cup DOMAIN s.bytes :
       FnIn(Meanings(s.bytes), q) = FnIn(Meanings(s.bytes), r) => q = r

ASSUME QueriesAssumption ==
  /\ \A s \in Slabs : CleanSlab(s)
  /\ Precision \in Nat \ {0}
  /\ ShiftBits \in Nat \ {0}
  /\ DebugBuild \in BOOLEAN

VARIABLES
  slab,     \* the slab asked about
  pc,       \* idle or support
  root,     \* the root asked about last
  stack,    \* support's work stack
  visited,  \* the nodes it has decoded
  out,      \* the variables it has seen
  reads,    \* history: how many nodes it decoded
  counted   \* the last count: its root, its variables and the answer

vars == <<slab, pc, root, stack, visited, out, reads, counted>>

NoCount == [of |-> FalseRef, nvars |-> 0, answer |-> 0, panic |-> FALSE]

NodeAt(o) == Decode(slab.bytes, o)

Init ==
  /\ slab \in Slabs
  /\ pc = "idle"
  /\ root = FalseRef
  /\ stack = <<>>
  /\ visited = {}
  /\ out = {}
  /\ reads = 0
  /\ counted = NoCount
-----------------------------------------------------------------------------
(* support. *)

Support(r) ==
  /\ pc = "idle"
  /\ pc' = "support"
  /\ root' = r
  /\ stack' = IF IsNode(r) THEN <<r>> ELSE <<>>
  /\ visited' = {}
  /\ out' = {}
  /\ reads' = 0
  /\ UNCHANGED <<slab, counted>>

\* A slip: what was visited is not remembered.
NeverVisited(o) == FALSE

Visited(o) == o \in visited

Popped == Front(stack)

\* What the walk pushes for a child: a node, and no terminal.
Push(c) == IF IsNode(c) THEN <<c>> ELSE <<>>

\* A slip: hi is followed only where lo is a terminal.
OneChild(n) == IF IsNode(n.lo) THEN <<n.lo>> ELSE Push(n.hi)

Children(n) == Push(n.lo) \o Push(n.hi)

\* One turn of the loop: a node seen before is dropped, another is decoded.
SupportTurn ==
  /\ pc = "support"
  /\ stack # <<>>
  /\ LET o == Last(stack)
         n == NodeAt(o)
     IN  IF Visited(o)
         THEN stack' = Popped /\ UNCHANGED <<visited, reads, out>>
         ELSE /\ visited' = visited \cup {o}
              /\ reads' = reads + 1
              /\ out' = out \cup {n.var}
              /\ stack' = Popped \o Children(n)
  /\ UNCHANGED <<slab, pc, root, counted>>

SupportReturn ==
  /\ pc = "support"
  /\ stack = <<>>
  /\ pc' = "idle"
  /\ UNCHANGED <<slab, root, stack, visited, out, reads, counted>>
-----------------------------------------------------------------------------
(* sat_count.  A fraction is a multiple of 1 / One. *)

\* 2^k.
Pow2[k \in Nat] == IF k = 0 THEN 1 ELSE 2 * Pow2[k - 1]

One == Pow2[MaxVars]

\* x rounded to a float: to a multiple of its unit, ties to the even one.
ToFloat(x) ==
  LET above == {b \in 1 .. MaxVars + 1 : x >= Pow2[b + Precision - 1]}
      unit == Pow2[Cardinality(above)]
      down == x \div unit
      twice == 2 * (x % unit)
  IN  IF twice > unit \/ (twice = unit /\ down % 2 = 1) THEN (down + 1) * unit
      ELSE down * unit

\* A slip: only one of the halves is halved.
HalvesOnce(lo, hi) == ToFloat((lo \div 2) + hi)

\* 0.5 * lo + 0.5 * hi.
Halves(lo, hi) == ToFloat((lo + hi) \div 2)

\* sat_frac, of every reference of the slab.
SatFrac ==
  LET frac[r \in Terminals \cup DOMAIN slab.bytes] ==
        CASE r = FalseRef -> 0
          [] r = TrueRef  -> One
          [] OTHER        -> Halves(frac[NodeAt(r).lo], frac[NodeAt(r).hi])
  IN  frac

\* 1u64 << nvars: the build decides what a shift by all its bits is.
ShiftOverflows(nvars) == nvars >= ShiftBits
Shifted(nvars) == Pow2[nvars % ShiftBits]

SatCount(r, nvars) ==
  /\ pc = "idle"
  /\ counted' =
       [of |-> r, nvars |-> nvars,
        panic |-> DebugBuild /\ ShiftOverflows(nvars),
        answer |-> IF DebugBuild /\ ShiftOverflows(nvars) THEN 0
                   ELSE SatFrac[r] * Shifted(nvars)]
  /\ UNCHANGED <<slab, pc, root, stack, visited, out, reads>>
-----------------------------------------------------------------------------
\* A count is asked over a space that has the slab's variables.
Spaces == {n \in 0 .. MaxVars : \A o \in DOMAIN slab.bytes : slab.bytes[o].var < n}

Next ==
  \/ \E r \in Terminals \cup slab.roots :
       \/ Support(r)
       \/ \E n \in Spaces : SatCount(r, n)
  \/ SupportTurn
  \/ SupportReturn

Spec == Init /\ [][Next]_vars
-----------------------------------------------------------------------------
(* Properties. *)

\* The function a reference of the slab stands for.
Fn(r) == FnIn(Meanings(slab.bytes), r)

\* The variables it depends on.
Dependence(r) == {v \in Vars : ~ IndependentOf(Fn(r), v)}

\* On return the answer is the variables the root's function depends on: all
\* of them, although shared nodes are walked once, and no variable that only
\* another root of the slab branches on (slab.rs:109).
SupportIsDependence ==
  pc = "idle" => out = Dependence(root)

\* At any moment the walk has decoded or stacked only what it must: its stack
\* grows by one for each node decoded (slab.rs:113, "shared subDAGs are walked
\* once").
WalkIsLinear ==
  /\ reads <= Cardinality(DOMAIN slab.bytes)
  /\ Len(stack) <= reads + 1

\* The assignments to the first nvars variables that satisfy r.
Models(r, nvars) == {a \in SUBSET (0 .. nvars - 1) : a \in Fn(r)}

\* A count up to 2^Precision is exact, although the fractions are rounded at
\* every node (slab.rs:137-142, "exact up to 2^53").
SatCountExact ==
  LET count == Cardinality(Models(counted.of, counted.nvars)) IN
  counted # NoCount /\ count <= Pow2[Precision] =>
    ~ counted.panic /\ counted.answer = count * One
-----------------------------------------------------------------------------
(* The inductive invariant behind the walk's properties. *)

\* The nodes the walk has come to.
Reached == visited \cup Range(stack)

NodeChildren(o) == {NodeAt(o).lo, NodeAt(o).hi} \ Terminals

\* The walk has come to the root and to the children of each node it decoded,
\* and to nothing else; nothing is decoded twice, and a node decoded adds one
\* to the stack at most (slab.rs:114-135).
WalkInv ==
  /\ root \in Terminals \cup slab.roots
  /\ pc = "idle" => stack = <<>>
  /\ stack \in Seq(DOMAIN slab.bytes)
  /\ visited \subseteq DOMAIN slab.bytes
  /\ out = {slab.bytes[o].var : o \in visited}
  /\ reads = Cardinality(visited)
  /\ Len(stack) <= reads + 1
  /\ IF IsNode(root) THEN root \in Reached ELSE Reached = {}
  /\ \A o \in visited : NodeChildren(o) \subseteq Reached
  /\ \A o \in Reached : o = root \/ \E p \in visited : o \in NodeChildren(p)
=============================================================================
