--------------------------- MODULE Queries_proofs ---------------------------
(***************************************************************************)
(* Proofs about support and sat_count: for every set of clean slabs and    *)
(* every root, the walk is linear and its answer is the variables the root *)
(* depends on, and a count that the significand holds is exact wherever    *)
(* the shift by the number of variables is.                                *)
(***************************************************************************)
EXTENDS Queries, Diagram_proofs, FiniteSetTheorems
-----------------------------------------------------------------------------
(* The functions of a clean slab. *)

SlabRefs == Terminals \cup DOMAIN slab.bytes

\* A node is reduced and ordered, and is the Shannon expansion of its children.
LEMMA SlabNode ==
  ASSUME slab \in Slabs, NEW o \in DOMAIN slab.bytes
  PROVE  /\ NodeAt(o).var \in Vars /\ o \in Nat
         /\ NodeAt(o).var = slab.bytes[o].var
         /\ NodeAt(o).lo \in SlabRefs /\ NodeAt(o).hi \in SlabRefs
         /\ NodeAt(o).lo # NodeAt(o).hi
         /\ \A c \in NodeChildren(o) :
              c \in DOMAIN slab.bytes /\ c < o /\ NodeAt(c).var > NodeAt(o).var
         /\ Fn(o) = Shannon(NodeAt(o).var, Fn(NodeAt(o).lo), Fn(NodeAt(o).hi))
<1> PICK b : b = slab.bytes
  OBVIOUS
<1>1. CleanSlab(slab)
  BY QueriesAssumption
<1>2. /\ b \in [DOMAIN b -> [var : Vars, lo : Nat, hi : Nat]]
      /\ DOMAIN b \subseteq Offsets
      /\ \A q \in DOMAIN b : LET n == Decode(b, q) IN
           /\ n.lo # n.hi
           /\ \A c \in {n.lo, n.hi} \ Terminals :
                c \in DOMAIN b /\ c < q /\ b[c].var > n.var
  BY <1>1 DEF CleanSlab
<1>3. Rooted(b)
  BY <1>2 DEF Rooted
<1>4. MaxOffset \in Nat /\ DOMAIN b \subseteq 0 .. MaxOffset
  BY <1>2, CodecAssumption DEF Offsets
<1>5. Meanings(b)[o] = NodeFn(b, Meanings(b), o)
  BY <1>3, <1>4, MeaningsDef
<1>6. NodeFn(b, Meanings(b), o) =
        Shannon(b[o].var, FnIn(Meanings(b), Decode(b, o).lo),
                FnIn(Meanings(b), Decode(b, o).hi))
  BY <1>3, NodeFnBelow
<1>7. o \in Nat /\ o \in DOMAIN b
  BY <1>4
<1>8. Fn(o) = Meanings(b)[o]
  BY <1>7 DEF Fn, FnIn, FalseRef, TrueRef
<1>9. NodeAt(o) = Decode(b, o) /\ Decode(b, o).var = b[o].var
      /\ \A c \in DOMAIN b : NodeAt(c).var = b[c].var
  BY DEF NodeAt, Decode
<1>10. b[o].var \in Vars
  BY <1>2
<1>11. Fn(o) = Shannon(NodeAt(o).var, Fn(NodeAt(o).lo), Fn(NodeAt(o).hi))
  BY <1>5, <1>6, <1>8, <1>9 DEF Fn
<1> QED
  BY <1>2, <1>7, <1>9, <1>10, <1>11 DEF NodeChildren, SlabRefs

\* Every reference stands for a function, and no two for one.
LEMMA SlabFns ==
  ASSUME slab \in Slabs
  PROVE  /\ \A r \in SlabRefs : Fn(r) \in Functions
         /\ \A q, r \in SlabRefs : Fn(q) = Fn(r) => q = r
         /\ IsFiniteSet(DOMAIN slab.bytes)
         /\ slab.roots \subseteq SlabRefs
<1>1. CleanSlab(slab)
  BY QueriesAssumption
<1>2. ASSUME NEW r \in SlabRefs PROVE Fn(r) \in Functions
  <2>1. CASE r \in Terminals
    BY <2>1 DEF Fn, FnIn, Terminals, FalseRef, TrueRef, Functions, FalseFn, TrueFn
  <2>2. CASE r \notin Terminals
    <3>1. r \in DOMAIN slab.bytes
      BY <2>2 DEF SlabRefs
    <3> QED
      BY <3>1, SlabNode, ShannonFn
  <2> QED
    BY <2>1, <2>2
<1>3. \A q, r \in SlabRefs : Fn(q) = Fn(r) => q = r
  BY <1>1 DEF CleanSlab, SlabRefs, Fn
<1> QED
  BY <1>1, <1>2, <1>3 DEF CleanSlab, SlabRefs

\* A reference does not depend on the variables before its own.
LEMMA FnIndependent ==
  ASSUME slab \in Slabs, NEW r \in SlabRefs, NEW u \in Vars,
         IsNode(r) => u < NodeAt(r).var
  PROVE  IndependentOf(Fn(r), u)
<1> DEFINE After(q) == q \in SlabRefs /\ (IsNode(q) => u < NodeAt(q).var)
           N == {n \in Nat : \A q : After(q) /\ q < n => IndependentOf(Fn(q), u)}
<1>1. 0 \in N
  <2> SUFFICES ASSUME NEW q, After(q), q < 0 PROVE IndependentOf(Fn(q), u)
    OBVIOUS
  <2>1. q \in Terminals
    BY SlabNode DEF SlabRefs
  <2>2. Fn(q) = FalseFn \/ Fn(q) = TrueFn
    BY <2>1 DEF Fn, FnIn, Terminals
  <2> QED
    BY <2>2, ConstantsIndependent
<1>2. ASSUME NEW n \in Nat, n \in N PROVE n + 1 \in N
  <2> SUFFICES ASSUME NEW q, After(q), q < n + 1 PROVE IndependentOf(Fn(q), u)
    OBVIOUS
  <2>1. q \in Int
    BY SlabNode DEF SlabRefs, Terminals, FalseRef, TrueRef
  <2>2. CASE q < n
    BY <1>2, <2>2
  <2>3. CASE ~ (q < n)
    <3>1. q = n /\ q \notin Terminals /\ q \in DOMAIN slab.bytes
      BY <2>1, <2>3 DEF SlabRefs, Terminals, FalseRef, TrueRef
    <3>2. PICK v, l, h : v = NodeAt(q).var /\ l = NodeAt(q).lo /\ h = NodeAt(q).hi
      OBVIOUS
    <3>3. /\ v \in Vars /\ l \in SlabRefs /\ h \in SlabRefs /\ u < v
          /\ Fn(q) = Shannon(v, Fn(l), Fn(h))
          /\ \A c \in NodeChildren(q) :
               c \in DOMAIN slab.bytes /\ c < q /\ NodeAt(c).var > v
      BY <3>1, <3>2, SlabNode DEF IsNode
    <3>4. ASSUME NEW c \in {l, h} PROVE IndependentOf(Fn(c), u)
      <4>1. CASE c \in Terminals
        <5>1. c < n /\ After(c)
          BY <3>3, <4>1 DEF Terminals, FalseRef, TrueRef, IsNode
        <5> QED
          BY <1>2, <5>1
      <4>2. CASE c \notin Terminals
        <5>1. c \in NodeChildren(q)
          BY <3>2, <4>2 DEF NodeChildren
        <5>2. c < q /\ NodeAt(c).var \in Vars /\ NodeAt(c).var > v /\ c \in SlabRefs
          BY <3>3, <5>1, SlabNode DEF SlabRefs
        <5>3. u < NodeAt(c).var
          BY <3>3, <5>2 DEF Vars
        <5> QED
          BY <1>2, <3>1, <5>2, <5>3
      <4> QED
        BY <4>1, <4>2
    <3>5. u # v /\ Fn(l) \in Functions /\ Fn(h) \in Functions
      BY <3>3, SlabFns DEF Vars
    <3> QED
      BY <3>3, <3>4, <3>5, ShannonIndependent
  <2> QED
    BY <2>2, <2>3
<1>3. Nat \subseteq N
  <2> HIDE DEF N
  <2> QED
    BY <1>1, <1>2, SetInduction
<1>4. r \in Int
  BY SlabNode DEF SlabRefs, Terminals, FalseRef, TrueRef
<1>5. CASE r < 0
  BY <1>1, <1>5
<1>6. CASE r >= 0
  <2>1. r + 1 \in N /\ r < r + 1
    BY <1>3, <1>4, <1>6
  <2> QED
    BY <2>1
<1> QED
  BY <1>4, <1>5, <1>6

\* A node depends on its own variable and on what its children depend on.
LEMMA NodeDependence ==
  ASSUME slab \in Slabs, NEW o \in DOMAIN slab.bytes
  PROVE  Dependence(o) = {slab.bytes[o].var}
           \cup UNION {Dependence(c) : c \in NodeChildren(o)}
<1>1. PICK v, l, h : v = NodeAt(o).var /\ l = NodeAt(o).lo /\ h = NodeAt(o).hi
  OBVIOUS
<1>2. /\ v \in Vars /\ v = slab.bytes[o].var
      /\ l \in SlabRefs /\ h \in SlabRefs /\ l # h
      /\ Fn(o) = Shannon(v, Fn(l), Fn(h))
      /\ \A c \in NodeChildren(o) : c \in DOMAIN slab.bytes /\ NodeAt(c).var > v
  BY <1>1, SlabNode
<1>3. ASSUME NEW c \in {l, h}
      PROVE  /\ c \in SlabRefs /\ Fn(c) \in Functions
             /\ \A u \in 0 .. v : IndependentOf(Fn(c), u)
             /\ c \in Terminals => \A u \in Vars : IndependentOf(Fn(c), u)
             /\ c \notin Terminals => c \in NodeChildren(o)
  <2>1. c \in SlabRefs /\ Fn(c) \in Functions
    BY <1>2, SlabFns
  <2>2. ASSUME c \notin Terminals
        PROVE  c \in NodeChildren(o) /\ NodeAt(c).var > v /\ NodeAt(c).var \in Vars
    <3>1. c \in NodeChildren(o)
      BY <1>1, <2>2 DEF NodeChildren
    <3> QED
      BY <1>2, <3>1, SlabNode
  <2>3. ASSUME NEW u \in Vars, c \in Terminals \/ u <= v
        PROVE  IndependentOf(Fn(c), u)
    <3>1. IsNode(c) => u < NodeAt(c).var
      BY <1>2, <2>2, <2>3 DEF IsNode, Vars
    <3> QED
      BY <2>1, <3>1, FnIndependent
  <2>4. \A u \in 0 .. v : u \in Vars /\ u <= v
    BY <1>2, MaxVarsAssumption DEF Vars
  <2> QED
    BY <2>1, <2>2, <2>3, <2>4
<1>4. Fn(l) # Fn(h)
  BY <1>2, SlabFns
<1>5. v \in Dependence(o)
  <2>1. v \in 0 .. v
    BY <1>2 DEF Vars
  <2>2. IndependentOf(Fn(l), v) /\ IndependentOf(Fn(h), v)
    BY <1>3, <2>1
  <2>3. ~ IndependentOf(Fn(o), v)
    BY <1>2, <1>3, <1>4, <2>2, ShannonDepends
  <2> QED
    BY <1>2, <2>3 DEF Dependence
<1>6. ASSUME NEW u \in Vars, u # v
      PROVE  IndependentOf(Fn(o), u)
               <=> IndependentOf(Fn(l), u) /\ IndependentOf(Fn(h), u)
  <2>1. v \in 0 .. v
    BY <1>2 DEF Vars
  <2>2. IndependentOf(Fn(l), v) /\ IndependentOf(Fn(h), v)
    BY <1>3, <2>1
  <2>3. Fn(l) \in Functions /\ Fn(h) \in Functions
    BY <1>3
  <2> QED
    BY <1>2, <1>6, <2>2, <2>3, ShannonIndependent, ShannonKeeps
<1>7. NodeChildren(o) = {l, h} \ Terminals
  BY <1>1 DEF NodeChildren
<1>8. ASSUME NEW u \in Vars, NEW c \in {l, h}
      PROVE  ~ IndependentOf(Fn(c), u) => u # v /\ c \in NodeChildren(o)
  <2>1. v \in 0 .. v
    BY <1>2 DEF Vars
  <2> QED
    BY <1>3, <2>1
<1> QED
  BY <1>2, <1>5, <1>6, <1>7, <1>8 DEF Dependence
-----------------------------------------------------------------------------
(* The walk. *)

SupportInv == slab \in Slabs /\ pc \in {"idle", "support"} /\ WalkInv

LEMMA OneInSeq ==
  ASSUME NEW T, NEW x \in T
  PROVE  <<x>> \in Seq(T) /\ Len(<<x>>) = 1 /\ Range(<<x>>) = {x}
<1>1. <<x>> \in Seq(T) /\ Len(<<x>>) = 1 /\ DOMAIN <<x>> = {1} /\ <<x>>[1] = x
  OBVIOUS
<1> QED
  BY <1>1 DEF Range

LEMMA JoinedFacts ==
  ASSUME NEW T, NEW p \in Seq(T), NEW q \in Seq(T)
  PROVE  /\ p \o q \in Seq(T)
         /\ Len(p \o q) = Len(p) + Len(q)
         /\ Range(p \o q) = Range(p) \cup Range(q)
<1> PICK s : s = p \o q
  OBVIOUS
<1>1. /\ Len(p) \in Nat /\ Len(q) \in Nat
      /\ DOMAIN p = 1 .. Len(p) /\ DOMAIN q = 1 .. Len(q)
      /\ s \in Seq(T) /\ Len(s) = Len(p) + Len(q)
      /\ DOMAIN s = 1 .. Len(p) + Len(q)
      /\ \A i \in 1 .. Len(p) + Len(q) :
           s[i] = IF i <= Len(p) THEN p[i] ELSE q[i - Len(p)]
  OBVIOUS
<1>2. \A i \in DOMAIN p : i \in DOMAIN s /\ s[i] = p[i]
  BY <1>1
<1>3. ASSUME NEW i \in DOMAIN q PROVE \E j \in DOMAIN s : s[j] = q[i]
  <2>1. i + Len(p) \in 1 .. Len(p) + Len(q) /\ ~ (i + Len(p) <= Len(p))
        /\ (i + Len(p)) - Len(p) = i
    BY <1>1
  <2> QED
    BY <1>1, <2>1
<1>4. ASSUME NEW i \in DOMAIN s
      PROVE  s[i] \in Range(p) \cup Range(q)
  <2>1. CASE i <= Len(p)
    <3>1. i \in DOMAIN p /\ s[i] = p[i]
      BY <1>1, <2>1
    <3> QED
      BY <3>1 DEF Range
  <2>2. CASE ~ (i <= Len(p))
    <3>1. i - Len(p) \in DOMAIN q /\ s[i] = q[i - Len(p)]
      BY <1>1, <2>2
    <3> QED
      BY <3>1 DEF Range
  <2> QED
    BY <2>1, <2>2
<1>5. Range(p) \cup Range(q) \subseteq Range(s)
  <2>1. \A i \in DOMAIN p : p[i] \in Range(s)
    BY <1>2 DEF Range
  <2>2. \A i \in DOMAIN q : q[i] \in Range(s)
    BY <1>3 DEF Range
  <2> QED
    BY <2>1, <2>2 DEF Range
<1>6. Range(s) \subseteq Range(p) \cup Range(q)
  BY <1>4 DEF Range
<1>7. Range(s) = Range(p) \cup Range(q)
  BY <1>5, <1>6
<1> QED
  BY <1>1, <1>7

LEMMA InitSupport == Init => SupportInv
<1> SUFFICES ASSUME Init PROVE SupportInv
  OBVIOUS
<1> USE DEF Init
<1>1. Reached = {}
  BY DEF Reached, Range
<1>2. Cardinality({}) = 0
  BY FS_EmptySet
<1> QED
  BY <1>1, <1>2 DEF SupportInv, WalkInv, IsNode, Terminals

LEMMA SupportStarts ==
  ASSUME SupportInv, NEW r \in Terminals \cup slab.roots, Support(r)
  PROVE  SupportInv'
<1> USE DEF Support
<1>1. r \in SlabRefs /\ slab \in Slabs
  BY SlabFns DEF SupportInv, SlabRefs
<1>2. Cardinality({}) = 0
  BY FS_EmptySet
<1>3. CASE IsNode(r)
  <2>1. stack' = <<r>> /\ visited' = {} /\ r \in DOMAIN slab.bytes
    BY <1>1, <1>3 DEF SlabRefs, IsNode
  <2>2. Range(stack') = {r}
    BY <2>1 DEF Range
  <2>3. Reached' = {r}
    BY <2>1, <2>2 DEF Reached
  <2>4. stack' \in Seq(DOMAIN slab.bytes) /\ Len(stack') = 1
    <3> PICK T : T = DOMAIN slab.bytes
      OBVIOUS
    <3>1. r \in T /\ stack' = <<r>>
      BY <2>1
    <3>2. stack' \in Seq(T) /\ Len(stack') = 1
      BY ONLY <3>1, OneInSeq
    <3> QED
      BY <3>2
  <2>5. out' = {} /\ reads' = 0 /\ slab' = slab /\ root' = r /\ pc' = "support"
    OBVIOUS
  <2> QED
    BY <1>1, <1>2, <1>3, <2>1, <2>3, <2>4, <2>5 DEF SupportInv, WalkInv
<1>4. CASE ~ IsNode(r)
  <2>1. stack' = <<>> /\ visited' = {}
    BY <1>4
  <2>2. Range(stack') = {}
    BY <2>1 DEF Range
  <2>3. Reached' = {}
    BY <2>1, <2>2 DEF Reached
  <2>4. out' = {} /\ reads' = 0 /\ slab' = slab /\ root' = r /\ pc' = "support"
    OBVIOUS
  <2> QED
    BY <1>1, <1>2, <1>4, <2>1, <2>3, <2>4 DEF SupportInv, WalkInv
<1> QED
  BY <1>3, <1>4

\* Taking the last element off a sequence.
LEMMA FrontFacts ==
  ASSUME NEW T, NEW s \in Seq(T), s # <<>>
  PROVE  /\ Last(s) \in T
         /\ Front(s) \in Seq(T) /\ Len(Front(s)) = Len(s) - 1
         /\ Range(s) = Range(Front(s)) \cup {Last(s)}
<1>1. Len(s) \in Nat \ {0} /\ DOMAIN s = 1 .. Len(s)
  OBVIOUS
<1>2. Front(s) = [i \in 1 .. Len(s) - 1 |-> s[i]]
  BY <1>1 DEF Front
<1>3. Front(s) \in Seq(T) /\ Len(Front(s)) = Len(s) - 1
  BY <1>1 DEF Front
<1>4. Last(s) = s[Len(s)] /\ Last(s) \in T
  BY <1>1 DEF Last
<1>5. \A i \in DOMAIN s : i = Len(s) \/ i \in 1 .. Len(s) - 1
  BY <1>1
<1> QED
  BY <1>1, <1>2, <1>3, <1>4, <1>5 DEF Range

\* What is pushed for a node's children.
LEMMA ChildrenFacts ==
  ASSUME slab \in Slabs, NEW o \in DOMAIN slab.bytes,
         NEW s \in Seq(DOMAIN slab.bytes)
  PROVE  /\ s \o Children(NodeAt(o)) \in Seq(DOMAIN slab.bytes)
         /\ Len(s \o Children(NodeAt(o))) <= Len(s) + 2
         /\ Range(s \o Children(NodeAt(o))) = Range(s) \cup NodeChildren(o)
<1> PICK T : T = DOMAIN slab.bytes
  OBVIOUS
<1>1. PICK l, h : l = NodeAt(o).lo /\ h = NodeAt(o).hi
  OBVIOUS
<1>2. NodeChildren(o) = {l, h} \ Terminals /\ NodeChildren(o) \subseteq T
  BY <1>1, SlabNode DEF NodeChildren
<1>3. Children(NodeAt(o)) = Push(l) \o Push(h)
  BY <1>1 DEF Children
<1>4. ASSUME NEW c \in {l, h}
      PROVE  /\ Push(c) \in Seq(T) /\ Len(Push(c)) <= 1
             /\ Range(Push(c)) = {c} \ Terminals
  <2>1. CASE c \in Terminals
    BY <2>1 DEF Push, IsNode, Range
  <2>2. CASE c \notin Terminals
    <3>1. Push(c) = <<c>> /\ c \in T
      BY <1>2, <2>2 DEF Push, IsNode
    <3>2. Push(c) \in Seq(T) /\ Len(Push(c)) = 1 /\ Range(Push(c)) = {c}
      BY ONLY <3>1, OneInSeq
    <3> QED
      BY <2>2, <3>2
  <2> QED
    BY <2>1, <2>2
<1> PICK p, q : p = Push(l) /\ q = Push(h)
  OBVIOUS
<1>5. /\ p \in Seq(T) /\ Len(p) <= 1 /\ Range(p) = {l} \ Terminals
      /\ q \in Seq(T) /\ Len(q) <= 1 /\ Range(q) = {h} \ Terminals
  BY <1>4
<1>6. /\ p \o q \in Seq(T) /\ Len(p \o q) <= 2
      /\ Range(p \o q) = {l, h} \ Terminals
  BY <1>5, JoinedFacts
<1>7. /\ s \o (p \o q) \in Seq(T)
      /\ Len(s \o (p \o q)) = Len(s) + Len(p \o q)
      /\ Range(s \o (p \o q)) = Range(s) \cup ({l, h} \ Terminals)
  <2>1. s \in Seq(T)
    OBVIOUS
  <2> PICK z : z = p \o q
    OBVIOUS
  <2>2. z \in Seq(T) /\ Range(z) = {l, h} \ Terminals
    BY <1>6
  <2>3. /\ s \o z \in Seq(T) /\ Len(s \o z) = Len(s) + Len(z)
        /\ Range(s \o z) = Range(s) \cup Range(z)
    BY ONLY <2>1, <2>2, JoinedFacts
  <2> QED
    BY <2>2, <2>3
<1> QED
  BY <1>2, <1>3, <1>6, <1>7

\* A turn of the walk: what it takes from the stack stays reached.
LEMMA TurnInv == SupportInv /\ SupportTurn => SupportInv'
<1> SUFFICES ASSUME SupportInv, SupportTurn PROVE SupportInv'
  OBVIOUS
<1>1. /\ slab \in Slabs /\ pc = "support" /\ stack # <<>>
      /\ slab' = slab /\ pc' = pc /\ root' = root
      /\ WalkInv
  BY DEF SupportInv, SupportTurn
<1>2. PICK o, f : o = Last(stack) /\ f = Front(stack)
  OBVIOUS
<1>3. /\ o \in DOMAIN slab.bytes
      /\ f \in Seq(DOMAIN slab.bytes) /\ Len(f) = Len(stack) - 1
      /\ Range(stack) = Range(f) \cup {o}
  BY <1>1, <1>2, FrontFacts DEF WalkInv
<1>4. CASE o \in visited
  <2>1. stack' = f /\ visited' = visited /\ reads' = reads /\ out' = out
    BY <1>2, <1>4 DEF SupportTurn, Visited, Popped
  <2>2. Reached' = Reached
    BY <1>3, <1>4, <2>1 DEF Reached
  <2>3. Len(stack) \in Nat /\ reads \in Nat /\ Len(stack') <= reads' + 1
    BY <1>1, <1>3, <2>1, SlabFns, FS_Subset, FS_CardinalityType DEF WalkInv
  <2>4. /\ stack' \in Seq(DOMAIN slab'.bytes) /\ visited' \subseteq DOMAIN slab'.bytes
        /\ out' = {slab'.bytes[q].var : q \in visited'}
        /\ reads' = Cardinality(visited')
        /\ IF IsNode(root') THEN root' \in Reached' ELSE Reached' = {}
    BY <1>1, <1>3, <2>1, <2>2 DEF WalkInv
  <2>5. \A q : NodeChildren(q)' = NodeChildren(q)
    BY <1>1 DEF NodeChildren, NodeAt
  <2> QED
    BY <1>1, <2>1, <2>2, <2>3, <2>4, <2>5 DEF SupportInv, WalkInv
<1>5. CASE o \notin visited
  <2>1. /\ visited' = visited \cup {o} /\ reads' = reads + 1
        /\ out' = out \cup {NodeAt(o).var}
        /\ stack' = f \o Children(NodeAt(o))
    BY <1>2, <1>5 DEF SupportTurn, Visited, Popped
  <2>2. /\ stack' \in Seq(DOMAIN slab.bytes) /\ Len(stack') <= Len(f) + 2
        /\ Range(stack') = Range(f) \cup NodeChildren(o)
    BY <1>1, <1>3, <2>1, ChildrenFacts
  <2>3. Reached' = Reached \cup NodeChildren(o)
    BY <1>3, <2>1, <2>2 DEF Reached
  <2>4. IsFiniteSet(visited) /\ Cardinality(visited) \in Nat
        /\ Cardinality(visited \cup {o}) = Cardinality(visited) + 1
    BY <1>1, <1>5, SlabFns, FS_Subset, FS_CardinalityType, FS_AddElement DEF WalkInv
  <2>5. reads' = Cardinality(visited') /\ Len(stack') <= reads' + 1
    BY <1>1, <1>3, <2>1, <2>2, <2>4 DEF WalkInv
  <2>6. \A q : NodeChildren(q)' = NodeChildren(q)
    BY <1>1 DEF NodeChildren, NodeAt
  <2>7. out' = {slab'.bytes[q].var : q \in visited'}
    <3>1. NodeAt(o).var = slab.bytes[o].var
      BY DEF NodeAt, Decode
    <3>2. out = {slab.bytes[q].var : q \in visited} /\ slab' = slab
      BY <1>1 DEF WalkInv
    <3> QED
      BY <2>1, <3>1, <3>2
  <2>8. IF IsNode(root') THEN root' \in Reached' ELSE Reached' = {}
    BY <1>1, <1>3, <2>3 DEF WalkInv, Reached
  <2>9. /\ \A q \in visited' : NodeChildren(q)' \subseteq Reached'
        /\ \A q \in Reached' :
             q = root' \/ \E p \in visited' : q \in NodeChildren(p)'
    BY <1>1, <2>1, <2>3, <2>6 DEF WalkInv
  <2> QED
    BY <1>1, <1>3, <2>1, <2>2, <2>5, <2>7, <2>8, <2>9 DEF SupportInv, WalkInv
<1> QED
  BY <1>4, <1>5

LEMMA NextSupport == SupportInv /\ [Next]_vars => SupportInv'
<1> SUFFICES ASSUME SupportInv, [Next]_vars PROVE SupportInv'
  OBVIOUS
<1>1. ASSUME UNCHANGED <<slab, pc, root, stack, visited, out, reads>>
      PROVE  SupportInv'
  BY <1>1 DEF SupportInv, WalkInv, Reached, NodeChildren, NodeAt
<1>2. ASSUME NEW r \in Terminals \cup slab.roots, Support(r) PROVE SupportInv'
  BY <1>2, SupportStarts
<1>3. ASSUME NEW r \in Terminals \cup slab.roots, NEW n \in Spaces, SatCount(r, n)
      PROVE  SupportInv'
  BY <1>1, <1>3 DEF SatCount
<1>4. CASE SupportTurn
  BY <1>4, TurnInv
<1>5. CASE SupportReturn
  <2>1. stack = <<>> /\ pc' = "idle" /\ UNCHANGED <<slab, root, stack, visited, out, reads>>
    BY <1>5 DEF SupportReturn
  <2> QED
    BY <2>1 DEF SupportInv, WalkInv, Reached, NodeChildren, NodeAt
<1>6. CASE UNCHANGED vars
  BY <1>1, <1>6 DEF vars
<1> QED
  BY <1>2, <1>3, <1>4, <1>5, <1>6 DEF Next
-----------------------------------------------------------------------------
(* The results. *)

\* The walk reaches the root and what it branches on, once, and nothing else.
THEOREM WalkInvariance == Spec => [](slab \in Slabs /\ WalkInv)
<1>1. Init => SupportInv
  BY InitSupport
<1>2. SupportInv /\ [Next]_vars => SupportInv'
  BY NextSupport
<1>3. SupportInv => slab \in Slabs /\ WalkInv
  BY DEF SupportInv
<1> QED
  BY <1>1, <1>2, <1>3, PTL DEF Spec

\* The walk decodes no node twice and its stack stays within one of what it has
\* decoded: it is linear in the slab (slab.rs:112, "runs in O(|reachable
\* nodes|)").
THEOREM WalkLinear == Spec => []WalkIsLinear
<1>1. slab \in Slabs /\ WalkInv => WalkIsLinear
  <2> SUFFICES ASSUME slab \in Slabs, WalkInv PROVE WalkIsLinear
    OBVIOUS
  <2>1. Cardinality(visited) <= Cardinality(DOMAIN slab.bytes)
    BY SlabFns, FS_Subset DEF WalkInv
  <2> QED
    BY <2>1 DEF WalkInv, WalkIsLinear
<1> QED
  BY <1>1, WalkInvariance, PTL

\* What is left of the walk: two for each node it has not decoded, and one for
\* each reference on its stack.
Left == 2 * (Cardinality(DOMAIN slab.bytes) - reads) + Len(stack)

\* Every turn of the walk's loop leaves less to do, so that support returns
\* whatever nodes its slab shares (slab.rs:121, "while let Some(off)").
THEOREM SupportProgress == Spec => [][SupportTurn => Left \in Nat /\ Left' \in 0 .. Left - 1]_vars
<1>1. ASSUME SupportInv, SupportTurn
      PROVE  Left \in Nat /\ Left' \in 0 .. Left - 1
  <2>1. /\ slab \in Slabs /\ stack # <<>> /\ slab' = slab /\ WalkInv
        /\ SupportInv'
    BY <1>1, TurnInv DEF SupportInv, SupportTurn
  <2>2. /\ reads \in Nat /\ Cardinality(DOMAIN slab.bytes) \in Nat
        /\ reads <= Cardinality(DOMAIN slab.bytes)
    BY <2>1, SlabFns, FS_Subset, FS_CardinalityType DEF WalkInv
  <2>3. /\ reads' \in Nat /\ reads' <= Cardinality(DOMAIN slab.bytes)
    <3>1. /\ IsFiniteSet(DOMAIN slab.bytes) /\ visited' \subseteq DOMAIN slab.bytes
          /\ reads' = Cardinality(visited')
      BY <2>1, SlabFns DEF SupportInv, WalkInv
    <3> QED
      BY <3>1, FS_Subset, FS_CardinalityType
  <2>4. PICK o, f : o = Last(stack) /\ f = Front(stack)
    OBVIOUS
  <2>5. /\ o \in DOMAIN slab.bytes /\ f \in Seq(DOMAIN slab.bytes)
        /\ Len(stack) \in Nat /\ Len(f) = Len(stack) - 1
    BY <2>1, <2>4, FrontFacts DEF WalkInv
  <2>6. \/ reads' = reads /\ stack' = f
        \/ reads' = reads + 1 /\ stack' = f \o Children(NodeAt(o))
    BY <1>1, <2>4 DEF SupportTurn, Popped
  <2>7. \/ reads' = reads /\ Len(stack') = Len(stack) - 1
        \/ reads' = reads + 1 /\ Len(stack') <= Len(stack) + 1
    BY <2>1, <2>5, <2>6, ChildrenFacts
  <2>8. Len(stack') \in Nat
    BY <2>1 DEF SupportInv, WalkInv
  <2>9. Left = 2 * (Cardinality(DOMAIN slab.bytes) - reads) + Len(stack)
        /\ Left' = 2 * (Cardinality(DOMAIN slab.bytes) - reads') + Len(stack')
    BY <2>1 DEF Left
  <2> PICK all, r, l, rr, ll :
        all = Cardinality(DOMAIN slab.bytes) /\ r = reads /\ l = Len(stack)
        /\ rr = reads' /\ ll = Len(stack')
    OBVIOUS
  <2>10. 2 * (all - r) + l \in Nat /\ 2 * (all - rr) + ll \in 0 .. (2 * (all - r) + l) - 1
    <3>1. /\ all \in Nat /\ r \in 0 .. all /\ l \in Nat /\ rr \in 0 .. all /\ ll \in Nat
          /\ (rr = r /\ ll = l - 1) \/ (rr = r + 1 /\ ll <= l + 1)
      BY <2>2, <2>3, <2>5, <2>7, <2>8
    <3>2. CASE rr = r /\ ll = l - 1
      BY <3>1, <3>2
    <3>3. CASE rr = r + 1 /\ ll <= l + 1
      BY <3>1, <3>3
    <3> QED
      BY <3>1, <3>2, <3>3
  <2> QED
    BY <2>9, <2>10
<1>2. Init => SupportInv
  BY InitSupport
<1>3. SupportInv /\ [Next]_vars => SupportInv'
  BY NextSupport
<1>4. SupportInv /\ [Next]_vars
        => [SupportTurn => Left \in Nat /\ Left' \in 0 .. Left - 1]_vars
  BY <1>1
<1> QED
  BY <1>2, <1>3, <1>4, PTL DEF Spec

\* What a closed set of decoded nodes depends on is in the answer.
LEMMA AnswerHasAll ==
  ASSUME slab \in Slabs, WalkInv, stack = <<>>, NEW r \in visited
  PROVE  Dependence(r) \subseteq out
<1>1. Reached = visited
  BY DEF Reached, Range
<1> DEFINE N == {n \in Nat : \A o \in visited : o < n => Dependence(o) \subseteq out}
<1>2. 0 \in N
  BY SlabNode DEF WalkInv
<1>3. ASSUME NEW n \in Nat, n \in N PROVE n + 1 \in N
  <2> SUFFICES ASSUME NEW o \in visited, o < n + 1 PROVE Dependence(o) \subseteq out
    OBVIOUS
  <2>1. o \in DOMAIN slab.bytes /\ o \in Nat /\ slab.bytes[o].var \in out
    BY SlabNode DEF WalkInv
  <2>2. ASSUME NEW c \in NodeChildren(o) PROVE Dependence(c) \subseteq out
    <3>1. c \in visited /\ c \in Nat /\ c < o
      BY <1>1, <2>1, SlabNode DEF WalkInv
    <3>2. c < n
      BY <2>1, <3>1
    <3> QED
      BY <1>3, <3>1, <3>2
  <2> QED
    BY <2>1, <2>2, NodeDependence
<1>4. Nat \subseteq N
  <2> HIDE DEF N
  <2> QED
    BY <1>2, <1>3, SetInduction
<1>5. r \in Nat /\ r + 1 \in N /\ r < r + 1
  BY <1>4, SlabNode DEF WalkInv
<1> QED
  BY <1>5

\* The root depends on whatever a reached node depends on.
LEMMA RootHasAll ==
  ASSUME slab \in Slabs, WalkInv, NEW r \in Reached
  PROVE  Dependence(r) \subseteq Dependence(root)
<1>1. \A o \in Reached : o \in DOMAIN slab.bytes /\ o \in 0 .. MaxOffset
  <2>1. CleanSlab(slab)
    BY QueriesAssumption
  <2>2. Range(stack) \subseteq DOMAIN slab.bytes
    BY DEF WalkInv, Range
  <2> QED
    BY <2>1, <2>2 DEF CleanSlab, Offsets, WalkInv, Reached
<1> DEFINE N == {n \in Nat : \A o \in Reached :
                   o + n >= MaxOffset => Dependence(o) \subseteq Dependence(root)}
<1>2. ASSUME NEW o \in Reached,
             \A q \in Reached : q > o => Dependence(q) \subseteq Dependence(root)
      PROVE  Dependence(o) \subseteq Dependence(root)
  <2>1. CASE o = root
    BY <2>1
  <2>2. CASE o # root
    <3>1. PICK p \in visited : o \in NodeChildren(p)
      BY <2>2 DEF WalkInv
    <3>2. p \in Reached /\ p \in DOMAIN slab.bytes
      BY DEF Reached, WalkInv
    <3>3. p > o
      BY <1>1, <3>1, <3>2, SlabNode
    <3>4. Dependence(o) \subseteq Dependence(p)
      BY <3>1, <3>2, NodeDependence
    <3> QED
      BY <1>2, <3>2, <3>3, <3>4
  <2> QED
    BY <2>1, <2>2
<1>3. MaxOffset \in Nat
  BY CodecAssumption
<1>4. 0 \in N
  BY <1>1, <1>2, <1>3
<1>5. ASSUME NEW n \in Nat, n \in N PROVE n + 1 \in N
  <2> SUFFICES ASSUME NEW o \in Reached, o + (n + 1) >= MaxOffset
               PROVE  Dependence(o) \subseteq Dependence(root)
    OBVIOUS
  <2>1. ASSUME NEW q \in Reached, q > o
        PROVE  Dependence(q) \subseteq Dependence(root)
    <3>1. q + n >= MaxOffset
      BY <1>1, <1>3, <2>1
    <3> QED
      BY <1>5, <3>1
  <2> QED
    BY <1>2, <2>1
<1>6. Nat \subseteq N
  <2> HIDE DEF N
  <2> QED
    BY <1>4, <1>5, SetInduction
<1>7. MaxOffset \in N /\ r + MaxOffset >= MaxOffset
  BY <1>1, <1>3, <1>6
<1> QED
  BY <1>7

\* On return the answer is the variables the root's function depends on, for
\* every clean slab and root: sharing loses none and no other root of the slab
\* adds one (slab.rs:109-135).
THEOREM SupportCorrect == Spec => []SupportIsDependence
<1>1. slab \in Slabs /\ WalkInv => SupportIsDependence
  <2> SUFFICES ASSUME slab \in Slabs, WalkInv, pc = "idle"
               PROVE  out = Dependence(root)
    BY DEF SupportIsDependence
  <2>1. stack = <<>> /\ Reached = visited
    BY DEF WalkInv, Reached, Range
  <2>2. ASSUME NEW o \in visited
        PROVE  slab.bytes[o].var \in Dependence(root)
    <3>1. slab.bytes[o].var \in Dependence(o)
      BY NodeDependence DEF WalkInv
    <3> QED
      BY <2>1, <3>1, RootHasAll
  <2>3. out \subseteq Dependence(root)
    BY <2>2 DEF WalkInv
  <2>4. Dependence(root) \subseteq out
    <3>1. CASE IsNode(root)
      BY <2>1, <3>1, AnswerHasAll DEF WalkInv
    <3>2. CASE ~ IsNode(root)
      <4>1. Fn(root) = FalseFn \/ Fn(root) = TrueFn
        BY <3>2 DEF Fn, FnIn, IsNode, Terminals
      <4>2. \A u \in Vars : IndependentOf(Fn(root), u)
        BY <4>1, ConstantsIndependent
      <4> QED
        BY <4>2 DEF Dependence
    <3> QED
      BY <3>1, <3>2
  <2> QED
    BY <2>3, <2>4
<1> QED
  BY <1>1, WalkInvariance, PTL
-----------------------------------------------------------------------------
(* Powers of two. *)

\* The equation of the powers of two has a solution.
LEMMA Pow2Def ==
  Pow2 = [e \in Nat |-> IF e = 0 THEN 1 ELSE 2 * Pow2[e - 1]]
<1> DEFINE Upto(n, g) == \A e \in 0 .. n :
             g[e] = IF e = 0 THEN 1 ELSE 2 * g[e - 1]
           N == {n \in Nat : \E g : Upto(n, g)}
           f == [n \in Nat |-> (CHOOSE g : Upto(n, g))[n]]
<1>1. 0 \in N
  <2>1. Upto(0, [e \in {0} |-> 1])
    OBVIOUS
  <2> QED
    BY <2>1
<1>2. ASSUME NEW n \in Nat, n \in N PROVE n + 1 \in N
  <2>1. PICK g : Upto(n, g)
    BY <1>2
  <2> DEFINE h == [e \in 0 .. n + 1 |-> IF e = n + 1 THEN 2 * g[n] ELSE g[e]]
  <2>2. ASSUME NEW e \in 0 .. n + 1
        PROVE  h[e] = IF e = 0 THEN 1 ELSE 2 * h[e - 1]
    <3>1. CASE e = n + 1
      BY <3>1
    <3>2. CASE e # n + 1
      <4>1. e \in 0 .. n /\ (e = 0 \/ e - 1 \in 0 .. n)
        BY <3>2
      <4> QED
        BY <2>1, <4>1
    <3> QED
      BY <3>1, <3>2
  <2>3. Upto(n + 1, h)
    BY ONLY <2>2
  <2>4. \E q : Upto(n + 1, q)
    <3> HIDE DEF h, Upto
    <3> QED
      BY <2>3
  <2> QED
    BY <2>4
<1>3. Nat \subseteq N
  <2> HIDE DEF N
  <2> QED
    BY <1>1, <1>2, SetInduction
\* Two functions that follow the equation agree.
<1>4. ASSUME NEW m \in Nat, NEW n \in Nat, NEW g, NEW h, Upto(m, g), Upto(n, h)
      PROVE  \A e \in 0 .. m : e <= n => g[e] = h[e]
  <2> DEFINE A == {e \in Nat : e <= m /\ e <= n => g[e] = h[e]}
  <2>1. 0 \in A
    BY <1>4
  <2>2. ASSUME NEW e \in Nat, e \in A PROVE e + 1 \in A
    <3> SUFFICES ASSUME e + 1 <= m, e + 1 <= n PROVE g[e + 1] = h[e + 1]
      OBVIOUS
    <3>1. g[e] = h[e]
      BY <2>2
    <3>2. e + 1 \in 0 .. m /\ e + 1 \in 0 .. n /\ e + 1 # 0 /\ (e + 1) - 1 = e
      OBVIOUS
    <3>3. g[e + 1] = 2 * g[e] /\ h[e + 1] = 2 * h[e]
      BY <1>4, <3>2
    <3> QED
      BY <3>1, <3>3
  <2>3. Nat \subseteq A
    <3> HIDE DEF A
    <3> QED
      BY <2>1, <2>2, SetInduction
  <2> QED
    BY <2>3
<1>5. ASSUME NEW n \in Nat PROVE Upto(n, CHOOSE g : Upto(n, g))
  <2>1. \E g : Upto(n, g)
    BY <1>3
  <2> QED
    BY <2>1
<1>6. ASSUME NEW n \in Nat
      PROVE  f[n] = IF n = 0 THEN 1 ELSE 2 * f[n - 1]
  <2> PICK g : g = CHOOSE q : Upto(n, q)
    OBVIOUS
  <2>1. Upto(n, g) /\ f[n] = g[n]
    BY <1>5
  <2>2. CASE n = 0
    BY <2>1, <2>2
  <2>3. CASE n # 0
    <3>1. n - 1 \in Nat /\ n \in 0 .. n /\ n - 1 \in 0 .. n - 1 /\ n - 1 <= n
      BY <2>3
    <3> PICK h : h = CHOOSE q : Upto(n - 1, q)
      OBVIOUS
    <3>2. Upto(n - 1, h) /\ f[n - 1] = h[n - 1]
      BY <1>5, <3>1
    <3>3. h[n - 1] = g[n - 1]
      <4> HIDE DEF Upto
      <4> QED
        BY <1>4, <2>1, <3>1, <3>2
    <3> QED
      BY <2>1, <2>3, <3>1, <3>2, <3>3
  <2> QED
    BY <2>2, <2>3
<1>7. f = [n \in Nat |-> IF n = 0 THEN 1 ELSE 2 * f[n - 1]]
  BY <1>6
<1>8. \E d : d = [n \in Nat |-> IF n = 0 THEN 1 ELSE 2 * d[n - 1]]
  <2> HIDE DEF f
  <2> QED
    BY <1>7
<1> QED
  BY <1>8 DEF Pow2

LEMMA Pow2Facts ==
  /\ Pow2[0] = 1
  /\ \A k \in Nat : Pow2[k] \in Nat /\ Pow2[k] > 0 /\ Pow2[k + 1] = 2 * Pow2[k]
<1>1. Pow2[0] = 1
  BY Pow2Def
<1>2. ASSUME NEW k \in Nat PROVE Pow2[k + 1] = 2 * Pow2[k]
  <2>1. k + 1 \in Nat /\ k + 1 # 0 /\ (k + 1) - 1 = k
    OBVIOUS
  <2> QED
    BY <2>1, Pow2Def
<1> DEFINE N == {k \in Nat : Pow2[k] \in Nat /\ Pow2[k] > 0}
<1>3. 0 \in N
  BY <1>1
<1>4. ASSUME NEW k \in Nat, k \in N PROVE k + 1 \in N
  BY <1>2, <1>4
<1>5. Nat \subseteq N
  <2> HIDE DEF N
  <2> QED
    BY <1>3, <1>4, SetInduction
<1> QED
  BY <1>1, <1>2, <1>5

\* The powers of two multiply as their exponents add.
LEMMA Pow2Add ==
  ASSUME NEW i \in Nat, NEW j \in Nat
  PROVE  Pow2[i + j] = Pow2[i] * Pow2[j]
<1> DEFINE N == {k \in Nat : Pow2[i + k] = Pow2[i] * Pow2[k]}
<1>1. 0 \in N
  BY Pow2Facts
<1>2. ASSUME NEW k \in Nat, k \in N PROVE k + 1 \in N
  <2>0. i + k \in Nat
    OBVIOUS
  <2>1. PICK a \in Nat, b \in Nat, c \in Nat :
          a = Pow2[i] /\ b = Pow2[k] /\ c = Pow2[i + k]
    BY <2>0, Pow2Facts
  <2>2. c = a * b
    BY <1>2, <2>1
  <2>3. Pow2[k + 1] = 2 * b /\ Pow2[i + (k + 1)] = 2 * c
    <3>1. i + (k + 1) = (i + k) + 1 /\ i + k \in Nat
      OBVIOUS
    <3> QED
      BY <2>1, <3>1, Pow2Facts
  <2>4. 2 * (a * b) = a * (2 * b)
    OBVIOUS
  <2> QED
    BY <2>1, <2>2, <2>3, <2>4
<1>3. Nat \subseteq N
  <2> HIDE DEF N
  <2> QED
    BY <1>1, <1>2, SetInduction
<1> QED
  BY <1>3

\* They grow.
LEMMA Pow2Less ==
  ASSUME NEW i \in Nat, NEW j \in Nat, i < j
  PROVE  Pow2[i] < Pow2[j]
<1> DEFINE N == {k \in Nat : Pow2[i] < Pow2[i + (k + 1)]}
<1>1. 0 \in N
  BY Pow2Facts
<1>2. ASSUME NEW k \in Nat, k \in N PROVE k + 1 \in N
  <2>1. i + ((k + 1) + 1) = (i + (k + 1)) + 1 /\ i + (k + 1) \in Nat
    OBVIOUS
  <2>2. Pow2[i + ((k + 1) + 1)] = 2 * Pow2[i + (k + 1)]
    BY <2>1, Pow2Facts
  <2> QED
    BY <1>2, <2>1, <2>2, Pow2Facts
<1>3. Nat \subseteq N
  <2> HIDE DEF N
  <2> QED
    BY <1>1, <1>2, SetInduction
<1>4. (j - i) - 1 \in Nat /\ i + (((j - i) - 1) + 1) = j
  OBVIOUS
<1> QED
  BY <1>3, <1>4

\* What divides without remainder.
LEMMA DivExact ==
  ASSUME NEW u \in Nat \ {0}, NEW q \in Nat
  PROVE  (q * u) \div u = q /\ (q * u) % u = 0
<1>1. PICK x \in Nat : x = q * u
  OBVIOUS
<1>2. PICK d \in Int, r \in 0 .. u - 1 :
        d = x \div u /\ r = x % u /\ x = (u * d) + r
  OBVIOUS
<1>3. CASE d > q
  <2>1. u * d >= u * (q + 1)
    BY <1>3
  <2>2. u * (q + 1) = (q * u) + u
    OBVIOUS
  <2> QED
    BY <1>1, <1>2, <2>1, <2>2
<1>4. CASE d < q
  <2>1. u * (d + 1) <= u * q
    BY <1>4
  <2>2. u * (d + 1) = (u * d) + u /\ u * q = q * u
    BY <1>2
  <2> QED
    BY <1>1, <1>2, <2>1, <2>2
<1>5. CASE d = q
  <2>1. u * d = q * u
    BY <1>5
  <2> QED
    BY <1>1, <1>2, <1>5, <2>1
<1> QED
  BY <1>3, <1>4, <1>5

LEMMA MulLess ==
  ASSUME NEW a \in Nat, NEW b \in Nat, NEW w \in Nat \ {0}, a < b
  PROVE  a * w < b * w
<1>1. b = a + (b - a) /\ b - a \in Nat /\ b - a >= 1
  OBVIOUS
<1>2. (b - a) * w >= 1 * w
  BY <1>1
<1>3. b * w = (a * w) + ((b - a) * w)
  BY <1>1
<1> QED
  BY <1>2, <1>3

LEMMA MulAssoc ==
  ASSUME NEW a \in Nat, NEW b \in Nat, NEW c \in Nat
  PROVE  a * (b * c) = (a * b) * c /\ a * b \in Nat
OBVIOUS
-----------------------------------------------------------------------------
(* The numbers a float holds. *)

Above(x) == {b \in 1 .. MaxVars + 1 : x >= Pow2[b + Precision - 1]}

\* Few bits from 2^k on need no unit that does not divide them.
LEMMA UnitDivides ==
  ASSUME NEW m \in Nat, NEW k \in 0 .. MaxVars, m <= Pow2[Precision]
  PROVE  \E e \in Nat, q \in Nat :
           e = Cardinality(Above(m * Pow2[k])) /\ m * Pow2[k] = q * Pow2[e]
<1>0. /\ k \in Nat /\ k <= MaxVars /\ MaxVars \in Nat
      /\ Precision \in Nat \ {0} /\ Precision + k \in Nat
  BY MaxVarsAssumption, QueriesAssumption
<1>1. PICK w \in Nat \ {0}, p \in Nat \ {0} : w = Pow2[k] /\ p = Pow2[Precision]
  BY <1>0, Pow2Facts
<1>2. Pow2[Precision + k] = p * w
  BY <1>0, <1>1, Pow2Add
<1>3. PICK x \in Nat : x = m * w
  OBVIOUS
<1>4. m <= p
  BY <1>1
\* The unit is at most 2^K.
<1>5. ASSUME NEW c \in Nat, \A b \in Above(x) : b <= c
      PROVE  Cardinality(Above(x)) \in Nat /\ Cardinality(Above(x)) <= c
  <2>1. Above(x) \subseteq 1 .. c
    BY <1>0, <1>5 DEF Above
  <2>2. IsFiniteSet(1 .. c) /\ Cardinality(1 .. c) = c
    BY FS_Interval
  <2> QED
    BY <2>1, <2>2, FS_Subset, FS_CardinalityType
<1>6. CASE m < p
  <2>1. x < Pow2[Precision + k]
    BY <1>1, <1>2, <1>3, <1>6, MulLess
  <2>2. ASSUME NEW b \in Above(x) PROVE b <= k
    <3> SUFFICES ASSUME b > k PROVE FALSE
      BY <1>0 DEF Above
    <3>1. /\ b \in Nat /\ x >= Pow2[b + Precision - 1]
          /\ b + Precision - 1 \in Nat /\ b + Precision - 1 >= Precision + k
      BY <1>0 DEF Above
    <3>2. PICK i \in Nat, j \in Nat :
            i = Precision + k /\ j = b + Precision - 1 /\ i <= j
      BY <1>0, <3>1
    <3>3. i = j \/ Pow2[i] < Pow2[j]
      BY <3>2, Pow2Less
    <3>4. Pow2[i] \in Nat /\ Pow2[j] \in Nat /\ x < Pow2[i] /\ x >= Pow2[j]
      BY <2>1, <3>1, <3>2, Pow2Facts
    <3> QED
      BY <3>3, <3>4
  <2>3. PICK e \in Nat : e = Cardinality(Above(x)) /\ e <= k
    BY <1>0, <1>5, <2>2
  <2>4. PICK d \in Nat : d = k - e /\ d + e = k
    BY <1>0, <2>3
  <2>5. PICK y \in Nat, z \in Nat : y = Pow2[d] /\ z = Pow2[e] /\ w = y * z
    <3>1. Pow2[k] = Pow2[d] * Pow2[e]
      BY <2>4, Pow2Add
    <3> QED
      BY <1>1, <3>1, Pow2Facts
  <2>6. x = (m * y) * z /\ m * y \in Nat
    BY <1>3, <2>5, MulAssoc
  <2> QED
    BY <1>1, <1>3, <2>3, <2>5, <2>6
<1>7. CASE m = p
  <2>1. x = Pow2[Precision + k]
    BY <1>2, <1>3, <1>7
  <2>2. ASSUME NEW b \in Above(x) PROVE b <= k + 1
    <3> SUFFICES ASSUME b > k + 1 PROVE FALSE
      BY <1>0 DEF Above
    <3>1. /\ b \in Nat /\ x >= Pow2[b + Precision - 1]
          /\ b + Precision - 1 \in Nat /\ b + Precision - 1 > Precision + k
      BY <1>0 DEF Above
    <3>2. Pow2[b + Precision - 1] > Pow2[Precision + k]
      BY <1>0, <3>1, Pow2Less, Pow2Facts
    <3> QED
      BY <1>0, <2>1, <3>1, <3>2, Pow2Facts
  <2>3. PICK e \in Nat : e = Cardinality(Above(x)) /\ e <= k + 1
    BY <1>0, <1>5, <2>2
  <2>4. PICK d \in Nat : d + e = Precision + k
    <3>1. (Precision + k) - e \in Nat /\ ((Precision + k) - e) + e = Precision + k
      BY <1>0, <2>3
    <3> QED
      BY <3>1
  <2>5. x = Pow2[d] * Pow2[e]
    BY <2>1, <2>4, Pow2Add
  <2> QED
    BY <1>1, <1>3, <2>3, <2>5, Pow2Facts
<1> QED
  BY <1>4, <1>6, <1>7

\* So rounding changes nothing.
LEMMA FloatExact ==
  ASSUME NEW m \in Nat, NEW k \in 0 .. MaxVars, m <= Pow2[Precision]
  PROVE  ToFloat(m * Pow2[k]) = m * Pow2[k]
<1>1. PICK x : x = m * Pow2[k]
  OBVIOUS
<1>2. PICK e \in Nat, q \in Nat : e = Cardinality(Above(x)) /\ x = q * Pow2[e]
  BY <1>1, UnitDivides
<1>3. PICK u \in Nat \ {0} : u = Pow2[e]
  BY Pow2Facts
<1>4. x \div u = q /\ x % u = 0
  BY <1>2, <1>3, DivExact
<1>5. ToFloat(x) =
        IF 2 * (x % u) > u \/ (2 * (x % u) = u /\ (x \div u) % 2 = 1)
        THEN ((x \div u) + 1) * u ELSE (x \div u) * u
  BY <1>2, <1>3 DEF ToFloat, Above
<1>6. ~ (2 * (x % u) > u) /\ 2 * (x % u) # u
  BY <1>4
<1> QED
  BY <1>1, <1>2, <1>3, <1>4, <1>5, <1>6
-----------------------------------------------------------------------------
(* The assignments that satisfy a function. *)

\* Those to the variables from v up to n that do.
Part(D, v, n) == {a \in SUBSET (v .. n - 1) : a \in D}

LEMMA PartFinite ==
  ASSUME NEW D, NEW v \in Int, NEW n \in Int
  PROVE  IsFiniteSet(Part(D, v, n)) /\ Cardinality(Part(D, v, n)) \in Nat
<1>1. IsFiniteSet(v .. n - 1)
  BY FS_Interval
<1>2. IsFiniteSet(SUBSET (v .. n - 1))
  BY <1>1, FS_SUBSET
<1>3. Part(D, v, n) \in SUBSET (SUBSET (v .. n - 1))
  BY DEF Part
<1> QED
  BY <1>2, <1>3, FS_Subset, FS_CardinalityType

\* The sets of S with v.
Raised(S, v) == {a \cup {v} : a \in S}

\* Adding an element none of them has to sets leaves as many.
LEMMA RaisedCount ==
  ASSUME NEW S, IsFiniteSet(S), NEW v, \A a \in S : v \notin a
  PROVE  IsFiniteSet(Raised(S, v)) /\ Cardinality(Raised(S, v)) = Cardinality(S)
<1> DEFINE T == {a \cup {v} : a \in S}
           f == [a \in S |-> a \cup {v}]
<1>1. f \in [S -> T]
  OBVIOUS
<1>2. \A t \in T : \E a \in S : f[a] = t
  OBVIOUS
<1>3. \A a, b \in S : f[a] = f[b] => a = b
  <2> TAKE a \in S, b \in S
  <2>1. v \notin a /\ v \notin b /\ f[a] = a \cup {v} /\ f[b] = b \cup {v}
    OBVIOUS
  <2>2. a = (a \cup {v}) \ {v} /\ b = (b \cup {v}) \ {v}
    BY <2>1
  <2> HIDE DEF f
  <2> QED
    BY <2>1, <2>2
<1>4. ExistsBijection(S, T)
  <2> HIDE DEF f, T
  <2>1. f \in Injection(S, T)
    BY <1>1, <1>3 DEF Injection, IsInjective
  <2>2. f \in Surjection(S, T)
    BY <1>1, <1>2 DEF Surjection
  <2> QED
    BY <2>1, <2>2 DEF ExistsBijection, Bijection
<1> HIDE DEF f, T
<1> QED
  BY <1>4, FS_Bijection DEF T, Raised

\* Where v is decided, those that leave it out and those that have it add up.
LEMMA PartSplit ==
  ASSUME NEW D, NEW L, NEW H, NEW v \in Int, NEW n \in Int, v < n,
         \A a \in SUBSET (v + 1 .. n - 1) :
           (a \in D <=> a \in L) /\ (a \cup {v} \in D <=> a \in H)
  PROVE  Cardinality(Part(D, v, n)) =
           Cardinality(Part(L, v + 1, n)) + Cardinality(Part(H, v + 1, n))
<1> DEFINE A == Part(L, v + 1, n)
           B == Part(H, v + 1, n)
           C == Raised(B, v)
<1>1. v .. n - 1 = (v + 1 .. n - 1) \cup {v} /\ v \notin v + 1 .. n - 1
  OBVIOUS
<1>2. \A a \in A \cup B : a \in SUBSET (v + 1 .. n - 1) /\ v \notin a
  BY <1>1 DEF Part
<1>3. ASSUME NEW a \in Part(D, v, n) PROVE a \in A \cup C
  <2>1. a \subseteq (v + 1 .. n - 1) \cup {v} /\ a \in D
    BY <1>1 DEF Part
  <2>2. CASE v \in a
    <3>1. a \ {v} \in SUBSET (v + 1 .. n - 1) /\ (a \ {v}) \cup {v} = a
      BY <2>1, <2>2
    <3>2. a \ {v} \in B
      BY <2>1, <3>1 DEF Part
    <3> QED
      BY <3>1, <3>2 DEF Raised
  <2>3. CASE v \notin a
    <3>1. a \in SUBSET (v + 1 .. n - 1)
      BY <2>1, <2>3
    <3> QED
      BY <2>1, <3>1 DEF Part
  <2> QED
    BY <2>2, <2>3
<1>4. ASSUME NEW a \in A PROVE a \in Part(D, v, n)
  <2>1. a \in SUBSET (v + 1 .. n - 1) /\ a \in L
    BY DEF Part
  <2>2. a \in SUBSET (v .. n - 1)
    BY <1>1, <2>1
  <2> QED
    BY <2>1, <2>2 DEF Part
<1>5. ASSUME NEW a \in B PROVE a \cup {v} \in Part(D, v, n)
  <2>1. a \in SUBSET (v + 1 .. n - 1) /\ a \in H
    BY DEF Part
  <2>2. a \cup {v} \in SUBSET (v .. n - 1)
    BY <1>1, <2>1
  <2> QED
    BY <2>1, <2>2 DEF Part
<1>6. Part(D, v, n) = A \cup C
  <2>1. Part(D, v, n) \subseteq A \cup C
    BY <1>3
  <2>2. A \subseteq Part(D, v, n) /\ C \subseteq Part(D, v, n)
    BY <1>4, <1>5 DEF Raised
  <2> HIDE DEF A, B, C
  <2> QED
    BY <2>1, <2>2
<1>7. A \cap C = {}
  BY <1>2 DEF Raised
<1>8. IsFiniteSet(A) /\ IsFiniteSet(B) /\ Cardinality(A) \in Nat /\ Cardinality(B) \in Nat
  BY PartFinite
<1>9. IsFiniteSet(C) /\ Cardinality(C) = Cardinality(B)
  <2>1. \A a \in B : v \notin a
    BY <1>2
  <2> HIDE DEF B
  <2> QED
    BY <1>8, <2>1, RaisedCount
<1> HIDE DEF A, B, C
<1>10. Cardinality(A \cup C) = Cardinality(A) + Cardinality(C) - Cardinality({})
  BY <1>7, <1>8, <1>9, FS_Union
<1> QED
  BY <1>6, <1>8, <1>9, <1>10, FS_EmptySet DEF A, B
-----------------------------------------------------------------------------
(* The fractions. *)

\* sat_frac's answer at r from its answers g below.
FracOf(g, r) ==
  CASE r = FalseRef -> 0
    [] r = TrueRef  -> One
    [] OTHER        -> Halves(g[NodeAt(r).lo], g[NodeAt(r).hi])

LEMMA FracBelow ==
  ASSUME slab \in Slabs, NEW r \in SlabRefs, NEW g, NEW h,
         \A q \in SlabRefs : q \in Terminals \/ q < r => g[q] = h[q]
  PROVE  FracOf(g, r) = FracOf(h, r)
<1>1. CASE r \in Terminals
  BY <1>1 DEF FracOf, Terminals
<1>2. CASE r \notin Terminals
  <2>1. r \in DOMAIN slab.bytes
    BY <1>2 DEF SlabRefs
  <2>2. PICK l \in SlabRefs, k \in SlabRefs : l = NodeAt(r).lo /\ k = NodeAt(r).hi
    BY <2>1, SlabNode
  <2>3. (l \in Terminals \/ l < r) /\ (k \in Terminals \/ k < r)
    BY <2>1, <2>2, SlabNode DEF NodeChildren
  <2>4. g[l] = h[l] /\ g[k] = h[k]
    BY <2>3
  <2> QED
    BY <2>2, <2>4 DEF FracOf
<1> QED
  BY <1>1, <1>2

\* The fractions of a clean slab are defined, each from those below it.
LEMMA SatFracDef ==
  ASSUME slab \in Slabs
  PROVE  \A r \in SlabRefs : SatFrac[r] = FracOf(SatFrac, r)
<1> DEFINE Solves(n, g) == \A r \in SlabRefs : r < n => g[r] = FracOf(g, r)
           N == {n \in Nat : \E g : Solves(n, g) /\ g = [r \in SlabRefs |-> g[r]]}
<1>0. /\ \A r \in SlabRefs : r \in Int
      /\ \A r \in SlabRefs : r < 0 <=> r \in Terminals
      /\ \A r \in SlabRefs : r \notin Terminals => r \in 0 .. MaxOffset
      /\ MaxOffset \in Nat
  <2>1. CleanSlab(slab) /\ MaxOffset \in Nat
    BY QueriesAssumption, CodecAssumption
  <2> QED
    BY <2>1 DEF CleanSlab, SlabRefs, Terminals, FalseRef, TrueRef, Offsets
<1>1. 0 \in N
  <2> DEFINE g == [r \in SlabRefs |-> IF r = FalseRef THEN 0 ELSE One]
  <2>1. ASSUME NEW r \in SlabRefs, r < 0 PROVE g[r] = FracOf(g, r)
    <3>1. r = FalseRef \/ r = TrueRef
      BY <1>0, <2>1 DEF Terminals
    <3>2. FalseRef # TrueRef
      BY DEF FalseRef, TrueRef
    <3> QED
      BY <3>1, <3>2 DEF FracOf
  <2>2. g = [r \in SlabRefs |-> g[r]]
    OBVIOUS
  <2> HIDE DEF g
  <2> QED
    BY <2>1, <2>2
<1>2. ASSUME NEW n \in Nat, n \in N PROVE n + 1 \in N
  <2>1. PICK g : Solves(n, g) /\ g = [r \in SlabRefs |-> g[r]]
    BY <1>2
  <2> DEFINE h == [r \in SlabRefs |-> IF r = n THEN FracOf(g, n) ELSE g[r]]
  <2>2. ASSUME NEW r \in SlabRefs, r < n + 1 PROVE h[r] = FracOf(h, r)
    <3>1. \A q \in SlabRefs : q \in Terminals \/ q < r => g[q] = h[q]
      BY <1>0, <2>2
    <3>2. h[r] = FracOf(g, r)
      <4>1. CASE r = n
        BY <4>1
      <4>2. CASE r # n
        <5>1. r < n
          BY <1>0, <2>2, <4>2
        <5> QED
          BY <2>1, <4>2, <5>1
      <4> QED
        BY <4>1, <4>2
    <3> HIDE DEF h
    <3> QED
      BY <3>1, <3>2, FracBelow
  <2>3. h = [r \in SlabRefs |-> h[r]]
    OBVIOUS
  <2> HIDE DEF h
  <2> QED
    BY <2>2, <2>3
<1>3. Nat \subseteq N
  <2> HIDE DEF N
  <2> QED
    BY <1>1, <1>2, SetInduction
<1>4. PICK g : Solves(MaxOffset + 1, g) /\ g = [r \in SlabRefs |-> g[r]]
  BY <1>0, <1>3
<1>5. g = [r \in SlabRefs |-> FracOf(g, r)]
  <2>1. \A r \in SlabRefs : g[r] = FracOf(g, r)
    BY <1>0, <1>4 DEF Terminals
  <2> QED
    BY <1>4, <2>1
<1>6. SatFrac = [r \in SlabRefs |-> FracOf(SatFrac, r)]
  <2>1. SatFrac = CHOOSE f : f = [r \in SlabRefs |-> FracOf(f, r)]
    BY DEF SatFrac, FracOf, SlabRefs
  <2> QED
    BY <1>5, <2>1
<1> QED
  BY <1>6
-----------------------------------------------------------------------------
(* The count. *)

\* The assignments to the last j of n variables that satisfy r.
Count(r, j, n) == Cardinality(Part(Fn(r), n - j, n))

\* r branches on none of the variables before the last j of n.
Within(r, j, n) == r \in SlabRefs /\ (IsNode(r) => NodeAt(r).var >= n - j)

\* Where r is not a node on the variable v, every assignment to those after it
\* counts twice.
LEMMA CountDoubles ==
  ASSUME slab \in Slabs, NEW n \in 0 .. MaxVars, NEW j \in Nat, j < n,
         NEW r, Within(r, j, n)
  PROVE  Count(r, j + 1, n) = Count(r, j, n) + Count(r, j, n)
<1>1. PICK v \in Vars : v = n - (j + 1) /\ v + 1 = n - j /\ v < n
  BY MaxVarsAssumption DEF Vars
<1>2. PICK D \in Functions : D = Fn(r)
  BY SlabFns DEF Within
<1>3. IndependentOf(D, v)
  <2>1. ASSUME IsNode(r) PROVE v < NodeAt(r).var
    <3>1. r \in DOMAIN slab.bytes
      BY <2>1 DEF Within, SlabRefs, IsNode
    <3>2. NodeAt(r).var \in Vars /\ NodeAt(r).var >= v + 1
      BY <1>1, <2>1, <3>1, SlabNode DEF Within
    <3> QED
      BY <3>2 DEF Vars
  <2> QED
    BY <1>2, <2>1, FnIndependent DEF Within
<1>4. ASSUME NEW a \in SUBSET (v + 1 .. n - 1)
      PROVE  a \cup {v} \in D <=> a \in D
  <2>1. a \in Assignments /\ a \ {v} = a
    BY MaxVarsAssumption DEF Assignments, Vars
  <2> QED
    BY <1>3, <2>1 DEF IndependentOf
<1>5. Cardinality(Part(D, v, n)) =
        Cardinality(Part(D, v + 1, n)) + Cardinality(Part(D, v + 1, n))
  BY <1>1, <1>4, PartSplit DEF Vars
<1> QED
  BY <1>1, <1>2, <1>5 DEF Count

\* Those of a node are those of its children.
LEMMA CountAdds ==
  ASSUME slab \in Slabs, NEW n \in 0 .. MaxVars, NEW j \in Nat, j < n,
         NEW o \in DOMAIN slab.bytes, NodeAt(o).var = n - (j + 1)
  PROVE  /\ Count(o, j + 1, n) =
              Count(NodeAt(o).lo, j, n) + Count(NodeAt(o).hi, j, n)
         /\ Within(NodeAt(o).lo, j, n) /\ Within(NodeAt(o).hi, j, n)
<1>1. PICK v, l, h :
        v = NodeAt(o).var /\ l = NodeAt(o).lo /\ h = NodeAt(o).hi
  OBVIOUS
<1>2. /\ v \in Vars /\ v = n - (j + 1) /\ v + 1 = n - j /\ v < n
      /\ l \in SlabRefs /\ h \in SlabRefs
      /\ Fn(o) = Shannon(v, Fn(l), Fn(h))
      /\ \A c \in NodeChildren(o) : c \in DOMAIN slab.bytes /\ NodeAt(c).var > v
  BY <1>1, SlabNode DEF Vars
<1>3. ASSUME NEW c \in {l, h} PROVE Within(c, j, n) /\ IndependentOf(Fn(c), v)
  <2>1. c \in SlabRefs
    BY <1>2
  <2>2. ASSUME IsNode(c) PROVE NodeAt(c).var > v /\ NodeAt(c).var >= v + 1
    <3>1. c \in NodeChildren(o)
      BY <1>1, <2>2 DEF NodeChildren, IsNode
    <3>2. NodeAt(c).var \in Vars /\ NodeAt(c).var > v
      BY <1>2, <3>1, SlabNode
    <3> QED
      BY <1>2, <3>2 DEF Vars
  <2>3. IndependentOf(Fn(c), v)
    BY <1>2, <2>1, <2>2, FnIndependent
  <2> QED
    BY <1>2, <2>1, <2>2, <2>3 DEF Within
<1>4. PICK D, L, H : D = Fn(o) /\ L = Fn(l) /\ H = Fn(h)
  OBVIOUS
<1>5. D = Shannon(v, L, H) /\ IndependentOf(H, v)
  BY <1>2, <1>3, <1>4
<1>6. ASSUME NEW a \in SUBSET (v + 1 .. n - 1)
      PROVE  (a \in D <=> a \in L) /\ (a \cup {v} \in D <=> a \in H)
  <2>1. a \in Assignments /\ a \ {v} = a /\ v \notin a
    BY <1>2, MaxVarsAssumption DEF Assignments, Vars
  <2>2. a \cup {v} \in Assignments
    BY <1>2, <2>1 DEF Assignments
  <2>3. a \cup {v} \in H <=> a \in H
    BY <1>5, <2>1 DEF IndependentOf
  <2> QED
    BY <1>5, <2>1, <2>2, <2>3 DEF Shannon
<1>7. Cardinality(Part(D, v, n)) =
        Cardinality(Part(L, v + 1, n)) + Cardinality(Part(H, v + 1, n))
  <2>1. v \in Int /\ n \in Int /\ v < n
    BY <1>2 DEF Vars
  <2> QED
    BY <1>6, <2>1, PartSplit
<1>8. Count(o, j + 1, n) = Count(l, j, n) + Count(h, j, n)
  BY <1>2, <1>4, <1>7 DEF Count
<1> QED
  BY <1>1, <1>3, <1>8

\* Of a terminal over no variables there is one assignment, or none.
LEMMA CountTerminal ==
  ASSUME NEW n \in Nat
  PROVE  Count(FalseRef, 0, n) = 0 /\ Count(TrueRef, 0, n) = 1
<1>1. n - 0 = n /\ n .. n - 1 = {} /\ SUBSET {} = {{}}
  OBVIOUS
<1>2. Fn(FalseRef) = {} /\ Fn(TrueRef) = Assignments
  BY DEF Fn, FnIn, FalseFn, TrueFn, FalseRef, TrueRef
<1>3. Part({}, n, n) = {} /\ Part(Assignments, n, n) = {{}}
  BY <1>1 DEF Part, Assignments
<1> QED
  BY <1>1, <1>2, <1>3, FS_EmptySet, FS_Singleton DEF Count

\* A fraction whose count fits the significand is exact.
LEMMA FractionExact ==
  ASSUME slab \in Slabs, NEW n \in Spaces, NEW r \in SlabRefs,
         Count(r, n, n) <= Pow2[Precision]
  PROVE  SatFrac[r] = Count(r, n, n) * Pow2[MaxVars - n]
<1>0. n \in 0 .. MaxVars /\ MaxVars \in Nat /\ n \in Nat
  BY MaxVarsAssumption DEF Spaces
<1>1. \A q \in SlabRefs : Within(q, n, n) /\ (Within(q, 0, n) => q \in Terminals)
  <2> TAKE q \in SlabRefs
  <2>1. CASE q \in Terminals
    BY <2>1 DEF Within, IsNode
  <2>2. CASE q \notin Terminals
    <3>1. q \in DOMAIN slab.bytes
      BY <2>2 DEF SlabRefs
    <3>2. NodeAt(q).var \in Vars /\ NodeAt(q).var < n
      BY <3>1, SlabNode DEF Spaces
    <3>3. NodeAt(q).var >= n - n /\ ~ (NodeAt(q).var >= n - 0)
      BY <1>0, <3>2 DEF Vars
    <3> QED
      BY <2>2, <3>3 DEF Within, IsNode
  <2> QED
    BY <2>1, <2>2
<1>2. \A q, j : Count(q, j, n) = Cardinality(Part(Fn(q), n - j, n))
  BY DEF Count
<1> DEFINE Exact(q, j) == Count(q, j, n) <= Pow2[Precision]
                            => SatFrac[q] = Count(q, j, n) * Pow2[MaxVars - j]
           N == {j \in Nat : j <= n => \A q : Within(q, j, n) => Exact(q, j)}
<1>3. 0 \in N
  <2> SUFFICES ASSUME NEW q, Within(q, 0, n)
               PROVE  SatFrac[q] = Count(q, 0, n) * Pow2[MaxVars - 0]
    OBVIOUS
  <2>1. q \in Terminals /\ q \in SlabRefs
    BY <1>1 DEF Within
  <2>2. SatFrac[q] = FracOf(SatFrac, q)
    BY <2>1, SatFracDef
  <2>3. MaxVars - 0 = MaxVars /\ Pow2[MaxVars] \in Nat
    BY <1>0, Pow2Facts
  <2>4. CASE q = FalseRef
    <3>1. SatFrac[q] = 0 /\ Count(q, 0, n) = 0
      BY <1>0, <2>2, <2>4, CountTerminal DEF FracOf
    <3> QED
      BY <2>3, <3>1
  <2>5. CASE q = TrueRef
    <3>1. SatFrac[q] = One /\ Count(q, 0, n) = 1
      BY <1>0, <2>2, <2>5, CountTerminal DEF FracOf, FalseRef, TrueRef
    <3> QED
      BY <2>3, <3>1 DEF One
  <2> QED
    BY <2>1, <2>4, <2>5 DEF Terminals
<1>4. ASSUME NEW j \in Nat, j \in N PROVE j + 1 \in N
  <2> SUFFICES ASSUME j + 1 <= n, NEW q, Within(q, j + 1, n),
                      Count(q, j + 1, n) <= Pow2[Precision]
               PROVE  SatFrac[q] = Count(q, j + 1, n) * Pow2[MaxVars - (j + 1)]
    OBVIOUS
  <2>1. j < n /\ j <= n
    BY <1>0
  <2>2. PICK k \in 0 .. MaxVars : k = MaxVars - (j + 1) /\ k + 1 = MaxVars - j
    BY <1>0, <2>1
  <2>3. PICK w \in Nat, p \in Nat :
          w = Pow2[k] /\ 2 * w = Pow2[MaxVars - j] /\ p = Pow2[Precision]
    <3>1. k \in Nat /\ Precision \in Nat
      BY <2>2, QueriesAssumption
    <3> QED
      BY <2>2, <3>1, Pow2Facts
  <2>4. \A c : Within(c, j, n) => Exact(c, j)
    BY <1>4, <2>1
  <2>5. ASSUME NEW c, Within(c, j, n) PROVE Count(c, j, n) \in Nat
    <3>1. n - j \in Int /\ n \in Int
      BY <1>0
    <3>2. Cardinality(Part(Fn(c), n - j, n)) \in Nat
      BY <3>1, PartFinite
    <3> QED
      BY <3>2 DEF Count
  <2>6. CASE Within(q, j, n)
    <3>1. PICK c \in Nat : c = Count(q, j, n)
      BY <2>5, <2>6
    <3>2. Count(q, j + 1, n) = c + c /\ c <= p
      BY <1>0, <2>1, <2>3, <2>6, <3>1, CountDoubles
    <3>3. SatFrac[q] = c * (2 * w)
      BY <2>3, <2>4, <2>6, <3>1, <3>2
    <3>4. c * (2 * w) = (c + c) * w
      OBVIOUS
    <3> QED
      BY <2>2, <2>3, <3>2, <3>3, <3>4
  <2>7. CASE ~ Within(q, j, n)
    <3>1. q \in DOMAIN slab.bytes /\ NodeAt(q).var = n - (j + 1)
      <4>1. q \in SlabRefs /\ IsNode(q) /\ NodeAt(q).var >= n - (j + 1)
            /\ ~ (NodeAt(q).var >= n - j)
        BY <2>7 DEF Within
      <4>2. q \in DOMAIN slab.bytes /\ NodeAt(q).var \in Vars
        BY <4>1, SlabNode DEF SlabRefs, IsNode
      <4> QED
        BY <1>0, <4>1, <4>2 DEF Vars
    <3>2. PICK l, h : l = NodeAt(q).lo /\ h = NodeAt(q).hi
      OBVIOUS
    <3>3. /\ Count(q, j + 1, n) = Count(l, j, n) + Count(h, j, n)
          /\ Within(l, j, n) /\ Within(h, j, n)
      BY <1>0, <2>1, <3>1, <3>2, CountAdds
    <3>4. PICK a \in Nat, b \in Nat : a = Count(l, j, n) /\ b = Count(h, j, n)
      BY <2>5, <3>3
    <3>5. Count(q, j + 1, n) = a + b /\ a + b <= p /\ a <= p /\ b <= p
      BY <2>3, <3>3, <3>4
    <3>6. SatFrac[l] = a * (2 * w) /\ SatFrac[h] = b * (2 * w)
      BY <2>3, <2>4, <3>3, <3>4, <3>5
    <3>7. (a * (2 * w)) + (b * (2 * w)) = ((a + b) * w) * 2
      OBVIOUS
    <3>8. (((a + b) * w) * 2) \div 2 = (a + b) * w
      <4>1. (a + b) * w \in Nat /\ 2 \in Nat \ {0}
        OBVIOUS
      <4> QED
        BY <4>1, DivExact
    <3>9. SatFrac[q] = ToFloat((a + b) * w)
      <4>1. q # FalseRef /\ q # TrueRef /\ q \in SlabRefs
        BY <3>1, SlabNode DEF SlabRefs, FalseRef, TrueRef
      <4>2. SatFrac[q] = Halves(SatFrac[l], SatFrac[h])
        BY <3>2, <4>1, SatFracDef DEF FracOf
      <4> QED
        BY <3>6, <3>7, <3>8, <4>2 DEF Halves
    <3>10. a + b \in Nat /\ a + b <= Pow2[Precision]
      BY <2>3, <3>5
    <3> QED
      BY <2>2, <2>3, <3>5, <3>9, <3>10, FloatExact
  <2> QED
    BY <2>6, <2>7
<1>5. Nat \subseteq N
  <2> HIDE DEF N
  <2> QED
    BY <1>3, <1>4, SetInduction
<1>6. Exact(r, n)
  BY <1>0, <1>1, <1>5
<1> QED
  BY <1>6

\* What sat_count answers over fewer variables than the shift has bits.
LEMMA CountAnswer ==
  ASSUME slab \in Slabs, NEW n \in Spaces, n < ShiftBits, NEW r \in SlabRefs,
         Count(r, n, n) <= Pow2[Precision]
  PROVE  /\ ~ ShiftOverflows(n)
         /\ SatFrac[r] * Shifted(n) = Count(r, n, n) * One
<1>1. /\ n \in Nat /\ MaxVars \in Nat /\ ShiftBits \in Nat \ {0}
      /\ MaxVars - n \in Nat /\ (MaxVars - n) + n = MaxVars /\ n - n \in Int
  BY MaxVarsAssumption, QueriesAssumption DEF Spaces
<1>2. PICK c \in Nat : c = Count(r, n, n)
  BY <1>1, PartFinite DEF Count
<1>3. PICK a \in Nat, b \in Nat : a = Pow2[MaxVars - n] /\ b = Pow2[n] /\ a * b = One
  <2>1. Pow2[(MaxVars - n) + n] = Pow2[MaxVars - n] * Pow2[n]
    BY <1>1, Pow2Add
  <2> QED
    BY <1>1, <2>1, Pow2Facts DEF One
<1>4. n % ShiftBits = n
  BY <1>1
<1>5. Shifted(n) = b
  BY <1>3, <1>4 DEF Shifted
<1>6. SatFrac[r] = c * a
  BY <1>2, <1>3, FractionExact
<1>7. (c * a) * b = c * (a * b)
  OBVIOUS
<1> QED
  BY <1>1, <1>2, <1>3, <1>5, <1>6, <1>7 DEF ShiftOverflows

\* The count at hand is over declared variables, and right if they are fewer
\* than the shift's bits.
CountInv ==
  /\ slab \in Slabs
  /\ counted.nvars \in 0 .. MaxVars
  /\ counted.nvars < ShiftBits => SatCountExact

LEMMA CountInvariance == Spec => []CountInv
<1>1. Init => CountInv
  BY MaxVarsAssumption DEF Init, NoCount, CountInv, SatCountExact
<1>2. CountInv /\ [Next]_vars => CountInv'
  <2> SUFFICES ASSUME CountInv, [Next]_vars PROVE CountInv'
    OBVIOUS
  <2>1. ASSUME UNCHANGED <<slab, counted>> PROVE CountInv'
    BY <2>1 DEF CountInv, SatCountExact, Models, Fn
  <2>2. ASSUME NEW r \in Terminals \cup slab.roots, NEW n \in Spaces, SatCount(r, n)
        PROVE  CountInv'
    <3>1. slab' = slab /\ slab' \in Slabs /\ r \in SlabRefs
      BY <2>2, SlabFns DEF CountInv, SatCount, SlabRefs
    <3>2. /\ counted'.of = r /\ counted'.nvars = n
          /\ counted'.panic = (DebugBuild /\ ShiftOverflows(n))
          /\ counted'.answer = IF DebugBuild /\ ShiftOverflows(n) THEN 0
                               ELSE SatFrac[r] * Shifted(n)
      BY <2>2 DEF SatCount
    <3>3. SUFFICES ASSUME n < ShiftBits,
                          Cardinality(Models(r, n))' <= Pow2[Precision]
                   PROVE  /\ ~ counted'.panic
                          /\ counted'.answer = Cardinality(Models(r, n))' * One
      BY <3>1, <3>2 DEF CountInv, Spaces, SatCountExact, Models, Fn
    <3>4. Cardinality(Models(r, n))' = Count(r, n, n)
      <4>1. n - n = 0
        BY MaxVarsAssumption DEF Spaces
      <4> QED
        BY <3>1, <4>1 DEF Models, Count, Part, Fn
    <3>5. ~ ShiftOverflows(n) /\ SatFrac[r] * Shifted(n) = Count(r, n, n) * One
      BY <3>1, <3>3, <3>4, CountAnswer
    <3> QED
      BY <3>2, <3>4, <3>5
  <2>3. ASSUME NEW r \in Terminals \cup slab.roots, Support(r) PROVE CountInv'
    BY <2>1, <2>3 DEF Support
  <2>4. CASE SupportTurn
    BY <2>1, <2>4 DEF SupportTurn
  <2>5. CASE SupportReturn
    BY <2>1, <2>5 DEF SupportReturn
  <2>6. CASE UNCHANGED vars
    BY <2>1, <2>6 DEF vars
  <2> QED
    BY <2>2, <2>3, <2>4, <2>5, <2>6 DEF Next
<1> QED
  BY <1>1, <1>2, PTL DEF Spec

\* A count up to 2^Precision over fewer variables than a shift has bits is
\* exact, of any clean slab, whatever was rounded at the nodes beside it
\* (slab.rs:137-142, "exact up to 2^53").
THEOREM SatCountCorrect ==
  Spec => [](counted.nvars < ShiftBits => SatCountExact)
<1>1. CountInv => (counted.nvars < ShiftBits => SatCountExact)
  BY DEF CountInv
<1> QED
  BY <1>1, CountInvariance, PTL
=============================================================================
