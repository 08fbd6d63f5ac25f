--------------------------- MODULE Manager_proofs ---------------------------
(***************************************************************************)
(* Proofs about Manager for every number of variables, handles and cache   *)
(* slots, every slot function and every bound: first the arena and its     *)
(* unique table, then ite, which never panics, whose cache never lies, and *)
(* which to its caller is one step of BoolFns.                             *)
(***************************************************************************)
EXTENDS Manager, Diagram_proofs, FiniteSetTheorems

\* The arena's type is that of its bytes and that of the table over them.
USE DEF ArenaTypeOK
-----------------------------------------------------------------------------
(* The codec. *)

\* A child code read where it was written gives the child back.
LEMMA RoundTrip ==
  ASSUME NEW cur \in Nat, NEW r \in Terminals \cup Nat, r < cur
  PROVE  /\ RefToCode(r, cur) \in Nat
         /\ CodeToRef(RefToCode(r, cur), cur) = r
BY DEF RefToCode, CodeToRef, Terminals, FalseRef, TrueRef

\* A code takes at least one byte.
LEMMA LebLenType ==
  ASSUME NEW code \in Nat
  PROVE  LebLen(code) \in Nat \ {0}
<1> DEFINE enc == CHOOSE f : f = [x \in Nat |-> IF x < Radix THEN <<x>>
                                   ELSE <<Radix + (x % Radix)>> \o f[x \div Radix]]
<1>1. Radix \in Nat \ {0, 1}
  BY CodecAssumption
<1>2. enc = [x \in Nat |-> IF x < Radix THEN <<x>>
                           ELSE <<Radix + (x % Radix)>> \o enc[x \div Radix]]
  BY <1>1, GroupsDefined
<1>3. EncodeU128(code) = enc[code]
  BY DEF EncodeU128
<1> HIDE DEF enc
<1>4. \A x \in Nat : enc[x] = IF x < Radix THEN <<x>>
                              ELSE <<Radix + (x % Radix)>> \o enc[x \div Radix]
  BY <1>2
<1>5. Len(enc[code]) \in Nat \ {0}
  BY <1>1, <1>4, GroupsType
<1> QED
  BY <1>3, <1>5 DEF LebLen

LEMMA NodeSizeType ==
  ASSUME NEW raw \in RawNodes
  PROVE  NodeSize(raw) \in Nat \ {0}
BY LebLenType DEF NodeSize, RawNodes
-----------------------------------------------------------------------------
(* References and what they mean. *)

LEMMA DenType ==
  ASSUME BytesTypeOK, NEW r \in Nodes
  PROVE  Den(r) \in Functions
BY DEF ArenaTypeOK, BytesTypeOK, Den, Nodes, Headers, Terminals, FalseRef, TrueRef,
       Functions, FalseFn, TrueFn

\* A reference whose node comes after u in the order does not depend on u.
LEMMA DenIndependent ==
  ASSUME BytesTypeOK, Meaning, NEW r \in Nodes, NEW u \in Vars,
         IsNode(r) => u < VarOf(r)
  PROVE  IndependentOf(Den(r), u)
<1>1. CASE r \in Terminals
  BY <1>1, ConstantsIndependent DEF Den, Terminals, FalseRef, TrueRef
<1>2. CASE r \notin Terminals
  <2>1. r \in Headers /\ u \in 0 .. VarOf(r) - 1
    BY <1>2 DEF Nodes, IsNode, Vars, ArenaTypeOK, BytesTypeOK, RawNodes, VarOf, Headers
  <2>2. Den(r) = den[r]
    BY <1>2 DEF Den, Terminals
  <2> QED
    BY <2>1, <2>2 DEF Meaning
<1> QED
  BY <1>1, <1>2

\* Every node has its place: an arena offset and a variable of the order.
LEMMA HeaderType ==
  ASSUME BytesTypeOK, Reduced, NEW o \in Headers
  PROVE  /\ o \in Nat /\ o < bufLen
         /\ o \notin Terminals
         /\ VarOf(o) \in Vars
BY MaxVarsAssumption
   DEF ArenaTypeOK, BytesTypeOK, Reduced, Node, Decode, VarOf, Vars, Terminals, FalseRef,
       TrueRef, RawNodes, Headers
-----------------------------------------------------------------------------
(* Appending a node. *)

\* The var byte holds v when the radix has room for it, and never more than v.
LEMMA VarByte ==
  ASSUME NEW v \in Nat
  PROVE  v % VarRadix \in 0 .. v /\ (v < VarRadix => v % VarRadix = v)
BY CodecAssumption

\* What encode_node writes, and what it leaves as it was.
LEMMA EncodeFacts ==
  ASSUME BytesTypeOK, Reduced, NEW v \in 0 .. numVars - 1,
         NEW lo \in Nodes, NEW hi \in Nodes, EncodeNode(v, lo, hi),
         NEW n, n = bufLen
  PROVE  /\ n \in Nat /\ n \notin Headers /\ n \notin Terminals
         /\ Headers' = Headers \cup {n}
         /\ lo < n /\ hi < n
         /\ buf'[n] = Encode(v, lo, hi, n)
         /\ buf'[n] \in RawNodes
         /\ bufLen' \in n + 1 .. MaxOffset
         /\ \A o \in Headers : buf'[o] = buf[o]
         /\ \A r \in Nodes : Den(r)' = Den(r)
         /\ Den(n)' = Shannon(v % VarRadix, Den(lo), Den(hi))
<1> DEFINE raw == Encode(v, lo, hi, n)
<1>1. n \in Nat /\ n \notin Headers /\ n \notin Terminals
  BY DEF BytesTypeOK, Terminals, FalseRef, TrueRef
<1>2. v \in Nat /\ lo < n /\ hi < n /\ lo \in Terminals \cup Nat
      /\ hi \in Terminals \cup Nat
  BY <1>1, HeaderType DEF Nodes, Terminals, FalseRef, TrueRef, BytesTypeOK
<1>3. raw \in RawNodes
  BY <1>1, <1>2, RoundTrip, VarByte DEF Encode, RawNodes
<1>4. NodeSize(raw) \in Nat \ {0}
  BY <1>3, NodeSizeType
<1>5. /\ bufLen + NodeSize(raw) <= MaxOffset
      /\ buf' = Extend(buf, n, raw)
      /\ bufLen' = bufLen + NodeSize(raw)
      /\ den' = Extend(den, n, Shannon(raw.var, Den(lo), Den(hi)))
  BY DEF EncodeNode
<1>6. Headers' = Headers \cup {n} /\ buf'[n] = raw
      /\ \A o \in Headers : buf'[o] = buf[o]
  BY <1>1, <1>5 DEF Extend, Headers
<1>7. bufLen' \in n + 1 .. MaxOffset
  BY <1>1, <1>4, <1>5, CodecAssumption
<1>8. den'[n] = Shannon(v % VarRadix, Den(lo), Den(hi))
      /\ \A o \in Headers : den'[o] = den[o]
  BY <1>1, <1>5 DEF Extend, Encode, BytesTypeOK
<1>9. \A r \in Nodes : Den(r)' = Den(r)
  BY <1>8 DEF Den, Nodes, Terminals
<1>10. Den(n)' = den'[n]
  BY <1>1 DEF Den, Terminals
<1> QED
  BY <1>1, <1>2, <1>3, <1>5, <1>6, <1>7, <1>8, <1>9, <1>10

\* The new node decodes to what make_node was asked for, and the old nodes to
\* what they were.
LEMMA EncodeDecodes ==
  ASSUME BytesTypeOK, Reduced, NEW v \in 0 .. numVars - 1,
         NEW lo \in Nodes, NEW hi \in Nodes, EncodeNode(v, lo, hi),
         NEW n, n = bufLen
  PROVE  /\ Node(n)' = [var |-> v % VarRadix, lo |-> lo, hi |-> hi]
         /\ VarOf(n)' = v % VarRadix
         /\ \A o \in Headers : Node(o)' = Node(o) /\ VarOf(o)' = VarOf(o)
<1>1. n \in Nat /\ buf'[n] = Encode(v, lo, hi, n) /\ lo < n /\ hi < n
  BY EncodeFacts
<1>2. CodeToRef(RefToCode(lo, n), n) = lo /\ CodeToRef(RefToCode(hi, n), n) = hi
  BY <1>1, RoundTrip, HeaderType DEF Nodes
<1>3. \A o \in Headers : buf'[o] = buf[o]
  BY EncodeFacts
<1> QED
  BY <1>1, <1>2, <1>3 DEF Node, Decode, VarOf, Encode

\* A node on v whose children come after v keeps the arena's type, order and meaning.
LEMMA EncodeStructure ==
  ASSUME BytesTypeOK, Reduced, Meaning, numVars' = numVars,
         NEW v \in 0 .. numVars - 1, NEW lo \in Nodes, NEW hi \in Nodes,
         lo # hi, \A c \in {lo, hi} : IsNode(c) => VarOf(c) > v,
         EncodeNode(v, lo, hi)
  PROVE  BytesTypeOK' /\ Reduced' /\ Meaning'
<1> PICK n : n = bufLen
  OBVIOUS
<1> PICK w : w = v % VarRadix
  OBVIOUS
<1>0. v \in Nat /\ w \in 0 .. v /\ v \in Vars /\ w \in Vars
  BY VarByte, MaxVarsAssumption DEF BytesTypeOK, Vars
<1>1. /\ n \in Nat /\ n \notin Headers /\ n \notin Terminals
      /\ Headers' = Headers \cup {n}
      /\ lo < n /\ hi < n
      /\ buf'[n] = Encode(v, lo, hi, n)
      /\ buf'[n] \in RawNodes
      /\ bufLen' \in n + 1 .. MaxOffset
      /\ \A o \in Headers : buf'[o] = buf[o]
      /\ \A r \in Nodes : Den(r)' = Den(r)
      /\ Den(n)' = Shannon(w, Den(lo), Den(hi))
  BY EncodeFacts
<1>2. /\ Node(n)' = [var |-> w, lo |-> lo, hi |-> hi]
      /\ VarOf(n)' = w
      /\ \A o \in Headers : Node(o)' = Node(o) /\ VarOf(o)' = VarOf(o)
  BY EncodeDecodes
<1>3. Nodes' = Nodes \cup {n}
  BY <1>1 DEF Nodes
<1>4. BytesTypeOK'
  <2>1. Headers' \subseteq 0 .. bufLen' - 1
    <3>1. bufLen \in Nat /\ bufLen' \in Int /\ bufLen < bufLen'
      BY <1>1, CodecAssumption DEF BytesTypeOK
    <3>2. ASSUME NEW o \in Headers' PROVE o \in 0 .. bufLen' - 1
      <4>1. o = bufLen \/ o \in 0 .. bufLen - 1
        BY <1>1 DEF BytesTypeOK
      <4> QED
        BY <3>1, <4>1
    <3> QED
      BY <3>2
  <2>2. buf' \in [Headers' -> RawNodes]
    BY <1>1 DEF BytesTypeOK, EncodeNode, Extend, Headers
  <2>4. den' \in [Headers' -> Functions]
    BY <1>1 DEF BytesTypeOK, EncodeNode, Extend, Headers,
               Shannon, Functions
  <2>5. bufLen' \in 0 .. MaxOffset
    BY <1>1
  <2> QED
    BY <2>1, <2>2, <2>4, <2>5 DEF BytesTypeOK
<1>5. Reduced'
  <2> SUFFICES ASSUME NEW o \in Headers'
               PROVE  /\ (Node(o)').var < numVars
                      /\ (Node(o)').lo # (Node(o)').hi
                      /\ \A c \in {(Node(o)').lo, (Node(o)').hi} :
                           c \in Nodes' /\ c < o
                           /\ (IsNode(c) => VarOf(c)' > (Node(o)').var)
    BY DEF Reduced, IsNode
  <2>1. CASE o = n
    <3>1. w < numVars
      BY <1>0 DEF BytesTypeOK
    <3>2. \A c \in {lo, hi} : IsNode(c) => VarOf(c)' > w
      <4> SUFFICES ASSUME NEW c \in {lo, hi}, IsNode(c) PROVE VarOf(c)' > w
        OBVIOUS
      <4>1. c \in Headers
        BY DEF Nodes, IsNode
      <4>2. VarOf(c)' = VarOf(c) /\ VarOf(c) > v /\ VarOf(c) \in Nat
        BY <1>2, <4>1, HeaderType DEF Vars
      <4> QED
        BY <1>0, <4>2
    <3> QED
      BY <1>1, <1>2, <1>3, <2>1, <3>1, <3>2
  <2>2. CASE o \in Headers
    <3>1. Node(o)' = Node(o)
      BY <1>2, <2>2
    <3>2. \A c \in {Node(o).lo, Node(o).hi} :
             c \in Nodes /\ c < o /\ (IsNode(c) => VarOf(c) > Node(o).var)
      BY <2>2 DEF Reduced
    <3>3. \A c \in Nodes : IsNode(c) => VarOf(c)' = VarOf(c)
      BY <1>2 DEF Nodes, IsNode
    <3>4. Node(o).var < numVars /\ Node(o).lo # Node(o).hi
      BY <2>2 DEF Reduced
    <3> QED
      BY <1>3, <3>1, <3>2, <3>3, <3>4
  <2> QED
    BY <1>1, <2>1, <2>2
<1>6. Meaning'
  <2> SUFFICES ASSUME NEW o \in Headers'
               PROVE  /\ Den(o)' = Shannon(VarOf(o), Den(Node(o).lo), Den(Node(o).hi))'
                      /\ \A u \in 0 .. VarOf(o)' - 1 : IndependentOf(Den(o)', u)
    <3>1. \A o_1 \in Headers' : Den(o_1)' = den'[o_1]
      BY <1>1, HeaderType DEF Den, Terminals
    <3> QED
      BY <3>1 DEF Meaning
  <2>1. CASE o = n
    <3>1. ASSUME NEW u \in 0 .. w - 1
          PROVE  IndependentOf(Shannon(w, Den(lo), Den(hi)), u)
      <4>1. u \in Vars /\ u # w /\ u < v
        BY <1>0, <3>1, MaxVarsAssumption DEF Vars
      <4>2. (IsNode(lo) => u < VarOf(lo)) /\ (IsNode(hi) => u < VarOf(hi))
        BY <1>0, <4>1, HeaderType DEF Nodes, IsNode, Vars
      <4>3. IndependentOf(Den(lo), u) /\ IndependentOf(Den(hi), u)
        BY <4>1, <4>2, DenIndependent
      <4> QED
        BY <1>0, <4>1, <4>3, DenType, ShannonIndependent
    <3>2. Den(lo)' = Den(lo) /\ Den(hi)' = Den(hi)
      BY <1>1
    <3> QED
      BY <1>1, <1>2, <2>1, <3>1, <3>2
  <2>2. CASE o \in Headers
    <3>1. Node(o).lo \in Nodes /\ Node(o).hi \in Nodes /\ o \in Nodes
      BY <2>2 DEF Reduced, Nodes
    <3>2. Den(o) = den[o]
      BY <2>2, HeaderType DEF Den, Terminals
    <3> QED
      BY <1>1, <1>2, <2>2, <3>1, <3>2 DEF Meaning
  <2> QED
    BY <1>1, <2>1, <2>2
<1> QED
  BY <1>4, <1>5, <1>6

\* A new node, and its entry in v's table.
LEMMA AppendFacts ==
  ASSUME ArenaTypeOK, Reduced, NEW v \in 0 .. numVars - 1,
         NEW lo \in Nodes, NEW hi \in Nodes, AppendNode(v, lo, hi),
         NEW n, n = bufLen
  PROVE  /\ n \in Nat /\ n \notin Headers /\ n \notin Terminals
         /\ Headers' = Headers \cup {n}
         /\ VarOf(n)' = v % VarRadix
         /\ \A o \in Headers : VarOf(o)' = VarOf(o)
         /\ \A r \in Nodes : Den(r)' = Den(r)
         /\ Den(n)' = Shannon(v % VarRadix, Den(lo), Den(hi))
         /\ unique' = [unique EXCEPT ![v] = @ \cup {n}]
<1>1. EncodeNode(v, lo, hi) /\ unique' = [unique EXCEPT ![v] = @ \cup {n}]
  BY DEF AppendNode
<1> QED
  BY <1>1, EncodeFacts, EncodeDecodes

\* The function of a new node is no node's: a node before it in the order
\* depends on a variable the new one does not, one after it does not depend on
\* v, and one on v itself would have the same children and be found by lookup.
LEMMA NewFunction ==
  ASSUME ArenaInv, NEW v \in 0 .. numVars - 1,
         NEW lo \in Nodes, NEW hi \in Nodes, lo # hi,
         \A c \in {lo, hi} : IsNode(c) => VarOf(c) > v,
         Lookup(v, lo, hi) = {},
         NEW s \in Nodes, Den(s) = Shannon(v, Den(lo), Den(hi))
  PROVE  FALSE
<1> USE DEF ArenaInv
<1> DEFINE D == Shannon(v, Den(lo), Den(hi))
<1>1. v \in Vars
  BY MaxVarsAssumption DEF ArenaTypeOK, BytesTypeOK, Vars
<1>2. \A c \in Headers : VarOf(c) \in Vars
  BY HeaderType
<1>3. \A u \in Vars : u <= v => IndependentOf(Den(lo), u) /\ IndependentOf(Den(hi), u)
  <2> SUFFICES ASSUME NEW u \in Vars, u <= v
               PROVE  IndependentOf(Den(lo), u) /\ IndependentOf(Den(hi), u)
    OBVIOUS
  <2>1. (IsNode(lo) => u < VarOf(lo)) /\ (IsNode(hi) => u < VarOf(hi))
    BY <1>1, <1>2, MaxVarsAssumption DEF Nodes, IsNode, Vars
  <2> QED
    BY <2>1, DenIndependent
<1>4. Den(lo) \in Functions /\ Den(hi) \in Functions
  BY DenType
<1>5. Den(lo) # Den(hi)
  BY DEF Canonical
<1>6. ~ IndependentOf(D, v)
  BY <1>1, <1>3, <1>4, <1>5, ShannonDepends DEF Vars
<1>7. s \notin Terminals
  BY <1>1, <1>6, ConstantsIndependent DEF Den, Terminals, FalseRef, TrueRef
<1>8. s \in Headers
  BY <1>7 DEF Nodes
<1> DEFINE u == VarOf(s)
           l == Node(s).lo
           h == Node(s).hi
<1>9. /\ u \in Vars /\ l \in Nodes /\ h \in Nodes /\ l # h
      /\ IsNode(l) => VarOf(l) > u
      /\ IsNode(h) => VarOf(h) > u
  BY <1>2, <1>8 DEF Reduced, Node, Decode, VarOf
<1>10. Den(s) = Shannon(u, Den(l), Den(h))
  BY <1>7, <1>8 DEF Meaning, Den, Terminals
<1>11. IndependentOf(Den(l), u) /\ IndependentOf(Den(h), u)
  BY <1>9, DenIndependent DEF Vars
<1>12. Den(l) \in Functions /\ Den(h) \in Functions
  BY <1>9, DenType
<1>13. ~ IndependentOf(Den(s), u)
  <2>1. Den(l) # Den(h)
    BY <1>9 DEF Canonical
  <2> QED
    BY <1>9, <1>10, <1>11, <1>12, <2>1, ShannonDepends
<1>14. CASE u < v
  <2>1. IndependentOf(Den(lo), u) /\ IndependentOf(Den(hi), u)
    BY <1>1, <1>3, <1>9, <1>14 DEF Vars
  <2>2. u # v
    BY <1>1, <1>9, <1>14, MaxVarsAssumption DEF Vars
  <2>3. IndependentOf(D, u)
    BY <1>1, <1>4, <1>9, <2>1, <2>2, ShannonIndependent
  <2> QED
    BY <1>13, <2>3
<1>15. CASE u > v
  <2>1. IsNode(s) => v < VarOf(s)
    BY <1>15, <1>1, <1>9, MaxVarsAssumption DEF Vars
  <2> QED
    BY <1>1, <1>6, <2>1, DenIndependent
<1>16. CASE u = v
  <2>1. Den(l) = Den(lo) /\ Den(h) = Den(hi)
    <3>1. IndependentOf(Den(lo), v) /\ IndependentOf(Den(hi), v)
      BY <1>1, <1>3 DEF Vars
    <3>2. IndependentOf(Den(l), v) /\ IndependentOf(Den(h), v)
      BY <1>11, <1>16
    <3>3. Shannon(v, Den(l), Den(h)) = Shannon(v, Den(lo), Den(hi))
      BY <1>10, <1>16
    <3> HIDE DEF l, h
    <3> QED
      BY <1>1, <1>4, <1>12, <3>1, <3>2, <3>3, ShannonInjective
  <2>2. l = lo /\ h = hi
    BY <1>9, <2>1 DEF Canonical
  <2>3. Node(s) = [var |-> v, lo |-> lo, hi |-> hi]
    BY <1>16, <2>2 DEF Node, Decode, VarOf
  <2>4. s \in unique[v]
    BY <1>8, <1>16 DEF UniqueExact, ArenaTypeOK, BytesTypeOK
  <2> QED
    BY <2>3, <2>4 DEF Lookup
<1> QED
  BY <1>1, <1>9, <1>14, <1>15, <1>16, MaxVarsAssumption DEF Vars

\* A node make_node appends keeps the whole invariant of the arena.
LEMMA AppendInv ==
  ASSUME ArenaInv, numVars' = numVars,
         NEW v \in 0 .. numVars - 1, NEW lo \in Nodes, NEW hi \in Nodes,
         lo # hi, \A c \in {lo, hi} : IsNode(c) => VarOf(c) > v,
         Lookup(v, lo, hi) = {}, v < VarRadix,
         AppendNode(v, lo, hi)
  PROVE  ArenaInv'
<1> USE DEF ArenaInv
<1> PICK n : n = bufLen
  OBVIOUS
<1>1. BytesTypeOK' /\ Reduced' /\ Meaning'
  BY EncodeStructure DEF AppendNode
<1>2. v % VarRadix = v
  BY VarByte DEF ArenaTypeOK, BytesTypeOK
<1>3. /\ n \notin Headers /\ n \notin Terminals
      /\ Headers' = Headers \cup {n}
      /\ \A r \in Nodes : Den(r)' = Den(r)
      /\ Den(n)' = Shannon(v, Den(lo), Den(hi))
      /\ unique' = [unique EXCEPT ![v] = @ \cup {n}]
      /\ VarOf(n)' = v
      /\ \A o \in Headers : VarOf(o)' = VarOf(o)
  BY <1>2, AppendFacts
<1>4. ArenaTypeOK'
  BY <1>1, <1>3
<1>5. UniqueExact'
  <2> SUFFICES ASSUME NEW x \in DOMAIN unique'
               PROVE  unique'[x] = {o \in Headers' : VarOf(o)' = x}
    BY DEF UniqueExact
  <2>1. x \in DOMAIN unique /\ unique[x] = {o \in Headers : VarOf(o) = x}
    BY <1>3 DEF UniqueExact
  <2>2. unique'[x] = IF x = v THEN unique[x] \cup {n} ELSE unique[x]
    BY <1>3, <2>1
  <2> QED
    BY <1>3, <2>1, <2>2
<1>6. Canonical'
  <2> SUFFICES ASSUME NEW r \in Nodes', NEW s \in Nodes', Den(r)' = Den(s)'
               PROVE  r = s
    BY DEF Canonical
  <2>1. Nodes' = Nodes \cup {n}
    BY <1>3 DEF Nodes
  <2>2. \A t \in Nodes : Den(t)' # Den(n)'
    BY <1>3, NewFunction
  <2>3. \A p, q \in Nodes : Den(p) = Den(q) => p = q
    BY DEF Canonical
  <2> QED
    BY <1>3, <2>1, <2>2, <2>3
<1> QED
  BY <1>1, <1>4, <1>5, <1>6
-----------------------------------------------------------------------------
(* make_node. *)

LEMMA NodesAreRefs ==
  ASSUME BytesTypeOK
  PROVE  Nodes \subseteq Refs
<1>1. bufLen \in 0 .. MaxOffset /\ MaxOffset \in Nat
  BY CodecAssumption DEF ArenaTypeOK, BytesTypeOK
<1>2. ASSUME NEW o \in Headers PROVE o \in Offsets
  <2>1. o \in 0 .. bufLen - 1
    BY DEF ArenaTypeOK, BytesTypeOK
  <2> QED
    BY <1>1, <2>1 DEF Offsets
<1> QED
  BY <1>2 DEF Nodes, Refs

\* An arena left alone keeps its invariant, and its references their meaning.
LEMMA SameArena ==
  ASSUME UNCHANGED <<arenaVars, numVars>>
  PROVE  /\ Nodes' = Nodes
         /\ \A r : Den(r)' = Den(r)
         /\ ArenaInv => ArenaInv'
<1>1. /\ buf' = buf /\ bufLen' = bufLen /\ unique' = unique /\ den' = den
      /\ numVars' = numVars
  BY DEF arenaVars
<1>2. Headers' = Headers /\ Nodes' = Nodes
  BY <1>1 DEF Headers, Nodes
<1>3. \A r : Den(r)' = Den(r) /\ Node(r)' = Node(r) /\ VarOf(r)' = VarOf(r)
  BY <1>1 DEF Den, Node, Decode, VarOf
<1>4. ArenaTypeOK => ArenaTypeOK'
  BY <1>1, <1>2 DEF ArenaTypeOK, BytesTypeOK
<1>5. Reduced => Reduced'
  BY <1>1, <1>2, <1>3 DEF Reduced
<1>6. Meaning => Meaning'
  BY <1>1, <1>2 DEF Meaning, Den, Node, Decode, VarOf
<1>7. UniqueExact => UniqueExact'
  BY <1>1, <1>2, <1>3 DEF UniqueExact
<1>8. Canonical => Canonical'
  BY <1>2, <1>3 DEF Canonical
<1> QED
  BY <1>2, <1>3, <1>4, <1>5, <1>6, <1>7, <1>8 DEF ArenaInv

\* make_node returns a live reference to the function of its node, and keeps
\* the invariant and every function there was.
LEMMA MakeNodeInv ==
  ASSUME ArenaInv, VarsFit, numVars' = numVars,
         NEW v \in Nat, NEW lo \in Nodes, NEW hi \in Nodes,
         NEW r \in Refs, ~ MakeNodePanics(v, lo, hi), MakeNode(v, lo, hi, r)
  PROVE  /\ ArenaInv'
         /\ Nodes \subseteq Nodes'
         /\ r \in Nodes'
         /\ \A x \in Nodes : Den(x)' = Den(x)
         /\ Den(r)' = Shannon(v, Den(lo), Den(hi))
<1> USE DEF ArenaInv
<1>1. v \in 0 .. numVars - 1 /\ v \in Vars
  BY MaxVarsAssumption DEF MakeNodePanics, EncodePanics, ArenaTypeOK, BytesTypeOK, Vars
<1>2. CASE lo = hi /\ r = lo /\ UNCHANGED arenaVars
  <2>1. Nodes' = Nodes /\ (\A x : Den(x)' = Den(x)) /\ ArenaInv'
    BY <1>2, SameArena
  <2>2. Shannon(v, Den(lo), Den(lo)) = Den(lo)
    BY DenType DEF Shannon, Functions
  <2> QED
    BY <1>2, <2>1, <2>2
<1>3. CASE lo # hi /\ r \in Lookup(v, lo, hi) /\ UNCHANGED arenaVars
  <2>1. Nodes' = Nodes /\ (\A x : Den(x)' = Den(x)) /\ ArenaInv'
    BY <1>3, SameArena
  <2>2. r \in Headers /\ Node(r) = [var |-> v, lo |-> lo, hi |-> hi]
    BY <1>1, <1>3 DEF Lookup, ArenaTypeOK, BytesTypeOK
  <2>3. Den(r) = Shannon(v, Den(lo), Den(hi))
    <3>1. VarOf(r) = v /\ Node(r).lo = lo /\ Node(r).hi = hi
      BY <2>2 DEF Node, Decode, VarOf
    <3>2. Den(r) = den[r]
      BY <2>2, HeaderType DEF Den, Terminals
    <3> QED
      BY <2>2, <3>1, <3>2 DEF Meaning
  <2> QED
    BY <2>1, <2>2, <2>3 DEF Nodes
<1>4. CASE lo # hi /\ Lookup(v, lo, hi) = {} /\ r = bufLen /\ AppendNode(v, lo, hi)
  <2>1. \A c \in {lo, hi} : IsNode(c) => VarOf(c) > v
    <3> SUFFICES ASSUME NEW c \in {lo, hi}, IsNode(c) PROVE VarOf(c) > v
      OBVIOUS
    <3>1. VarOf(c) \in Vars
      BY HeaderType DEF Nodes, IsNode
    <3>2. ~ (VarOf(c) <= v)
      BY <1>4 DEF MakeNodePanics, EncodePanics
    <3> QED
      BY <1>1, <3>1, <3>2, MaxVarsAssumption DEF Vars
  <2>2. v < VarRadix
    <3>1. CASE MaxVars <= VarRadix
      BY <1>1, <3>1, MaxVarsAssumption, CodecAssumption DEF Vars
    <3>2. CASE DebugBuild
      <4>1. ~ (v >= VarRadix)
        BY <1>4, <3>2 DEF MakeNodePanics, EncodePanics
      <4> QED
        BY <1>1, <4>1, CodecAssumption
    <3> QED
      BY <3>1, <3>2 DEF VarsFit
  <2>3. ArenaInv'
    BY <1>1, <1>4, <2>1, <2>2, AppendInv
  <2>4. /\ Headers' = Headers \cup {r}
        /\ \A x \in Nodes : Den(x)' = Den(x)
        /\ Den(r)' = Shannon(v % VarRadix, Den(lo), Den(hi))
    BY <1>1, <1>4, AppendFacts
  <2>5. v % VarRadix = v
    BY <2>2, VarByte
  <2> QED
    BY <2>3, <2>4, <2>5 DEF Nodes
<1> QED
  BY <1>2, <1>3, <1>4 DEF MakeNode
-----------------------------------------------------------------------------
(* What the calls keep. *)

\* References stay live while nodes are only added.
LEMMA TypesGrow ==
  ASSUME Nodes \subseteq Nodes'
  PROVE  /\ Entries \subseteq Entries'
         /\ Calls \subseteq Calls'
         /\ Frames \subseteq Frames'
         /\ Seq(Frames) \subseteq Seq(Frames')
         /\ Seq(Nodes) \subseteq Seq(Nodes')
<1>1. Entries \subseteq Entries'
  BY DEF Entries
<1>2. Calls \subseteq Calls'
  BY DEF Calls
<1>3. Frames \subseteq Frames'
  BY DEF Frames
<1> QED
  BY <1>1, <1>2, <1>3

\* What ite knows without expanding is a live reference.
LEMMA KnownType ==
  ASSUME ArenaTypeOK, CallTypeOK,
         NEW f \in Nodes, NEW g \in Nodes, NEW h \in Nodes
  PROVE  Known(f, g, h) \subseteq Nodes
<1>1. IteSlot(f, g, h) \in 0 .. CacheSlots - 1
  BY NodesAreRefs, ManagerAssumption
<1>2. cache[IteSlot(f, g, h)] \in Entries
  BY <1>1 DEF CallTypeOK
<1>3. EmptyRef \notin Nodes
  BY DEF EmptyRef, Nodes, Terminals, FalseRef, TrueRef, ArenaTypeOK, BytesTypeOK
<1>4. CacheGet(f, g, h) \subseteq Nodes
  BY <1>2, <1>3 DEF CacheGet, Entries, EmptyEntry
<1>5. Trivial(f, g, h) \subseteq Nodes
  BY DEF Trivial
<1> QED
  BY <1>4, <1>5 DEF Known

\* The cofactors of a live reference are live.
LEMMA CofactorType ==
  ASSUME Reduced, NEW r \in Nodes, NEW v \in Vars, NEW val \in BOOLEAN
  PROVE  Cofactor(r, v, val) \in Nodes
BY DEF Cofactor, Reduced, Nodes, IsNode

\* An expanded frame has a node among its operands, and so a top variable.
LEMMA TopVarType ==
  ASSUME BytesTypeOK, Reduced,
         NEW f \in Nodes, NEW g \in Nodes, NEW h \in Nodes,
         Trivial(f, g, h) = {}
  PROVE  /\ TopVar({f, g, h}) \in Vars
         /\ \A r \in {f, g, h} : ~ CofactorPanics(r, TopVar({f, g, h}))
<1> DEFINE vs == {VarOf(r) : r \in {f, g, h} \ Terminals}
<1>1. f \notin Terminals
  BY DEF Trivial, Terminals, FalseRef, TrueRef
<1>2. vs \subseteq Vars /\ VarOf(f) \in vs
  BY <1>1, HeaderType DEF Nodes
<1>3. \E v \in vs : \A u \in vs : v <= u
  <2> DEFINE a == VarOf(f)
             b == IF g \in Terminals THEN a ELSE VarOf(g)
             c == IF h \in Terminals THEN a ELSE VarOf(h)
  <2>1. vs = {a, b, c}
    BY <1>1
  <2>2. a \in Nat /\ b \in Nat /\ c \in Nat
    BY <1>2, <2>1 DEF Vars
  <2> HIDE DEF a, b, c, vs
  <2>3. CASE a <= b /\ a <= c
    BY <2>1, <2>2, <2>3
  <2>4. CASE b <= a /\ b <= c
    BY <2>1, <2>2, <2>4
  <2>5. CASE c <= a /\ c <= b
    BY <2>1, <2>2, <2>5
  <2> QED
    BY <2>2, <2>3, <2>4, <2>5
<1>4. TopVar({f, g, h}) \in vs /\ \A u \in vs : TopVar({f, g, h}) <= u
  BY <1>3 DEF TopVar
<1>5. ASSUME NEW r \in {f, g, h} PROVE ~ CofactorPanics(r, TopVar({f, g, h}))
  <2>1. IsNode(r) => TopVar({f, g, h}) <= VarOf(r)
    BY <1>4 DEF IsNode
  <2>2. IsNode(r) => VarOf(r) \in vs
    BY DEF IsNode
  <2> PICK t : t = TopVar({f, g, h})
    OBVIOUS
  <2>3. t \in Nat /\ (IsNode(r) => VarOf(r) \in Nat)
    <3>1. \A v \in Vars : v \in Nat
      BY DEF Vars
    <3> QED
      BY <1>2, <1>4, <2>2, <3>1
  <2> QED
    BY <2>1, <2>3 DEF CofactorPanics
<1> QED
  BY <1>2, <1>4, <1>5

LEMMA FrameTopVar ==
  ASSUME BytesTypeOK, Reduced, NEW e, e.f \in Nodes, e.g \in Nodes, e.h \in Nodes,
         Trivial(e.f, e.g, e.h) = {}, NEW tv, tv = TopVar({e.f, e.g, e.h})
  PROVE  tv \in Vars /\ \A r \in {e.f, e.g, e.h} : ~ CofactorPanics(r, tv)
<1> PICK f, g, h : f = e.f /\ g = e.g /\ h = e.h
  OBVIOUS
<1>1. f \in Nodes /\ g \in Nodes /\ h \in Nodes /\ Trivial(f, g, h) = {}
  OBVIOUS
<1>2. /\ TopVar({f, g, h}) \in Vars
      /\ \A r \in {f, g, h} : ~ CofactorPanics(r, TopVar({f, g, h}))
  BY ONLY BytesTypeOK, Reduced, <1>1, TopVarType
<1> QED
  BY <1>2
-----------------------------------------------------------------------------
(* The actions. *)

LEMMA InitInv == Init => IInv
<1> SUFFICES ASSUME Init PROVE IInv
  OBVIOUS
<1>1. Headers = {} /\ Nodes = Terminals
  BY DEF Init, Headers, Nodes
<1>2. ArenaTypeOK
  BY <1>1, MaxVarsAssumption, CodecAssumption DEF Init, ArenaTypeOK, BytesTypeOK
<1>3. Reduced /\ Meaning /\ UniqueExact
  BY <1>1 DEF Init, Reduced, Meaning, UniqueExact
<1>4. Canonical
  <2>1. {} \in Assignments
    BY DEF Assignments
  <2>2. FalseFn # TrueFn
    BY <2>1 DEF FalseFn, TrueFn
  <2> QED
    BY <1>1, <2>2 DEF Canonical, Den, Terminals, FalseRef, TrueRef
<1>5. CallTypeOK
  BY <1>1 DEF Init, CallTypeOK, Entries, Nodes, Terminals
<1> QED
  BY <1>2, <1>3, <1>4, <1>5 DEF IInv, ArenaInv

LEMMA OperandsLive ==
  ASSUME CallTypeOK
  PROVE  Operands \subseteq Nodes
BY DEF Operands, CallTypeOK, Nodes

LEMMA NewVarInv == IInv /\ NewVar => IInv'
<1> SUFFICES ASSUME IInv, NewVar PROVE IInv'
  OBVIOUS
<1> USE DEF IInv, ArenaInv
<1>1. /\ buf' = buf /\ bufLen' = bufLen /\ den' = den
      /\ numVars' = numVars + 1 /\ numVars < MaxVars
      /\ EnsureVar(numVars)
      /\ UNCHANGED <<cacheVars, held, loopVars>>
  BY DEF NewVar
<1>2. Headers' = Headers /\ Nodes' = Nodes
  BY <1>1 DEF Headers, Nodes
<1>3. \A r : Den(r)' = Den(r) /\ Node(r)' = Node(r) /\ VarOf(r)' = VarOf(r)
  BY <1>1 DEF Den, Node, Decode, VarOf
<1>4. numVars \in Nat /\ DOMAIN unique \cup (0 .. numVars) = 0 .. numVars
      /\ \A v \in 0 .. numVars : v \notin DOMAIN unique => v = numVars
  BY MaxVarsAssumption DEF ArenaTypeOK, BytesTypeOK
<1>5. ArenaTypeOK'
  <2>1. /\ unique' \in [0 .. numVars' - 1 -> SUBSET Headers]
        /\ DOMAIN unique' = 0 .. numVars' - 1
    <3>1. DOMAIN unique \cup (0 .. numVars) = 0 .. numVars' - 1
      BY <1>1, <1>4
    <3> QED
      BY <1>1, <1>4, <3>1 DEF EnsureVar, ArenaTypeOK, BytesTypeOK
  <2>2. numVars' \in 0 .. MaxVars
    BY <1>1, <1>4, MaxVarsAssumption
  <2> QED
    BY <1>1, <1>2, <2>1, <2>2 DEF ArenaTypeOK, BytesTypeOK
<1>6. Reduced'
  <2>1. \A o \in Headers : Node(o).var < numVars'
    <3> SUFFICES ASSUME NEW o \in Headers PROVE Node(o).var < numVars'
      OBVIOUS
    <3>1. Node(o).var < numVars /\ Node(o).var \in Nat
      BY HeaderType DEF Reduced, Node, Decode, VarOf, Vars
    <3> QED
      BY <1>1, <1>4, <3>1
  <2> QED
    BY <1>1, <1>2, <1>3, <2>1 DEF Reduced
<1>7. Meaning'
  BY <1>1, <1>2 DEF Meaning, Den, Node, Decode, VarOf
<1>8. UniqueExact'
  <2>1. \A o \in Headers : VarOf(o) # numVars
    BY <1>4, HeaderType DEF Reduced, Node, Decode, VarOf, Vars
  <2> QED
    BY <1>1, <1>2, <1>3, <1>4, <2>1 DEF UniqueExact, EnsureVar
<1>9. Canonical'
  BY <1>2, <1>3 DEF Canonical
<1>10. CallTypeOK'
  BY <1>1, <1>2 DEF CallTypeOK, cacheVars, loopVars, Entries, Calls, Frames
<1> QED
  BY <1>5, <1>6, <1>7, <1>8, <1>9, <1>10

LEMMA ConstantInv ==
  ASSUME IInv, NEW k \in Handles, Constant(k)
  PROVE  IInv'
<1> USE DEF IInv
<1>1. UNCHANGED <<arenaVars, numVars>>
  BY DEF Constant
<1>2. ArenaInv' /\ Nodes' = Nodes
  BY <1>1, SameArena
<1>3. Terminals \subseteq Nodes
  BY DEF Nodes
<1>4. CallTypeOK'
  BY <1>2, <1>3
     DEF CallTypeOK, Constant, cacheVars, loopVars, Entries, Calls, Frames
<1> QED
  BY <1>2, <1>4

LEMMA CallMakeNodeInv ==
  ASSUME IInv, VarsFit, NEW k \in Handles, CallMakeNode(k)
  PROVE  IInv'
<1> USE DEF IInv
<1>1. PICK v \in 0 .. numVars - 1, lo \in Operands, hi \in Operands, r \in Refs :
        /\ ~ MakeNodePanics(v, lo, hi)
        /\ MakeNode(v, lo, hi, r)
        /\ held' = [held EXCEPT ![k] = r]
  BY DEF CallMakeNode
<1>2. UNCHANGED <<numVars, cacheVars, loopVars>>
  BY DEF CallMakeNode
<1>3. v \in Nat /\ lo \in Nodes /\ hi \in Nodes
  BY <1>1, OperandsLive
<1>4. ArenaInv' /\ Nodes \subseteq Nodes' /\ r \in Nodes'
  BY <1>1, <1>2, <1>3, MakeNodeInv
<1>5. CallTypeOK'
  <2>1. held' \in [Handles -> Nodes']
    BY <1>1, <1>4 DEF CallTypeOK
  <2>2. /\ Entries \subseteq Entries'
        /\ Calls \subseteq Calls'
        /\ Seq(Frames) \subseteq Seq(Frames')
        /\ Seq(Nodes) \subseteq Seq(Nodes')
    BY <1>4, TypesGrow
  <2> QED
    BY <1>2, <2>1, <2>2 DEF CallTypeOK, cacheVars, loopVars
<1> QED
  BY <1>4, <1>5

LEMMA StartIteInv ==
  ASSUME IInv, NEW k \in Handles, NEW f \in Operands, NEW g \in Operands,
         NEW h \in Operands,
         NEW then \in {<<>>} \cup {<<p>> : p \in [f : Nodes, h : Nodes]},
         NEW D \in Functions, StartIte(k, f, g, h, then, D)
  PROVE  IInv'
<1> USE DEF IInv
<1>1. UNCHANGED <<arenaVars, numVars>>
  BY DEF StartIte
<1>2. ArenaInv' /\ Nodes' = Nodes
  BY <1>1, SameArena
<1>3. f \in Nodes /\ g \in Nodes /\ h \in Nodes
  BY OperandsLive
<1>4. call' \in Calls
  BY <1>3 DEF StartIte, Calls
<1>5. CallTypeOK'
  BY <1>2, <1>4 DEF CallTypeOK, StartIte, cacheVars, Entries, Calls, Frames
<1> QED
  BY <1>2, <1>5

\* Returning a live reference, to the caller or to xor, keeps the types.
LEMMA ReturnType ==
  ASSUME CallTypeOK, pc \in {"probe", "loop"}, NEW r \in Nodes, Return(r)
  PROVE  /\ held' \in [Handles -> Nodes]
         /\ pc' \in {"idle", "probe"}
         /\ call' \in Calls \cup {NoCall}
         /\ pc' = "probe" => call' \in Calls
<1>1. call \in Calls /\ held \in [Handles -> Nodes]
  BY DEF CallTypeOK
<1>2. CASE call.then = <<>>
  BY <1>1, <1>2 DEF Return
<1>3. CASE call.then # <<>>
  <2>1. PICK p \in [f : Nodes, h : Nodes] : call.then = <<p>>
    BY <1>1, <1>3 DEF Calls
  <2>2. call.then[1] = p
    BY <2>1
  <2>3. call' = [call EXCEPT !.f = p.f, !.g = r, !.h = p.h, !.then = <<>>]
    BY <1>3, <2>2 DEF Return
  <2>4. call' \in Calls
    BY <1>1, <2>3 DEF Calls
  <2> QED
    BY <1>1, <1>3, <2>4 DEF Return
<1> QED
  BY <1>2, <1>3

LEMMA IteKnownInv == IInv /\ IteKnown => IInv'
<1> SUFFICES ASSUME IInv, IteKnown PROVE IInv'
  OBVIOUS
<1> USE DEF IInv
<1>1. /\ pc = "probe" /\ call \in Calls
      /\ UNCHANGED <<arenaVars, numVars, cacheVars, stack, results>>
  BY DEF IteKnown, CallTypeOK
<1>2. ArenaInv' /\ Nodes' = Nodes
  BY <1>1, SameArena
<1>3. PICK r \in Known(call.f, call.g, call.h) : Return(r)
  BY DEF IteKnown
<1>4. r \in Nodes
  BY <1>1, <1>3, KnownType DEF Calls, ArenaInv
<1>5. CallTypeOK'
  BY <1>1, <1>2, <1>3, <1>4, ReturnType
     DEF CallTypeOK, cacheVars, Entries, Calls, Frames
<1> QED
  BY <1>2, <1>5

LEMMA IteBeginInv == IInv /\ IteBegin => IInv'
<1> SUFFICES ASSUME IInv, IteBegin PROVE IInv'
  OBVIOUS
<1> USE DEF IInv
<1>1. /\ pc = "probe" /\ call \in Calls /\ pc' = "loop"
      /\ stack' = <<Enter(call.f, call.g, call.h)>>
      /\ UNCHANGED <<arenaVars, numVars, cacheVars, held, call, results>>
  BY DEF IteBegin, CallTypeOK
<1>2. ArenaInv' /\ Nodes' = Nodes
  BY <1>1, SameArena
<1>3. Enter(call.f, call.g, call.h) \in Frames
  BY <1>1 DEF Enter, Calls, Frames
<1>4. CallTypeOK'
  BY <1>1, <1>2, <1>3 DEF CallTypeOK, cacheVars, Entries, Calls, Frames
<1> QED
  BY <1>2, <1>4

\* What a turn of the loop pops.
LEMMA HeadType ==
  ASSUME CallTypeOK, stack # <<>>
  PROVE  /\ Tail(stack) \in Seq(Frames)
         /\ Head(stack).kind \in {"enter", "combine"}
         /\ Head(stack).f \in Nodes
         /\ Head(stack).g \in Nodes
         /\ Head(stack).h \in Nodes
         /\ Head(stack).kind = "combine" => Head(stack).tv \in Vars
<1>1. Head(stack) \in Frames /\ Tail(stack) \in Seq(Frames)
  BY DEF CallTypeOK
<1> QED
  BY <1>1 DEF Frames

LEMMA IteEnterKnownInv == IInv /\ IteEnterKnown => IInv'
<1> SUFFICES ASSUME IInv, IteEnterKnown PROVE IInv'
  OBVIOUS
<1> USE DEF IInv
<1>1. /\ pc = "loop" /\ stack # <<>> /\ pc' = pc /\ stack' = Tail(stack)
      /\ UNCHANGED <<arenaVars, numVars, cacheVars, held, call>>
  BY DEF IteEnterKnown, PopEnter
<1>2. ArenaInv' /\ Nodes' = Nodes
  BY <1>1, SameArena
<1>3. PICK r \in Known(Head(stack).f, Head(stack).g, Head(stack).h) :
        results' = <<r>> \o results
  BY DEF IteEnterKnown
<1>4. r \in Nodes
  BY <1>1, <1>3, HeadType, KnownType DEF ArenaInv
<1>5. results' \in Seq(Nodes)
  BY <1>3, <1>4 DEF CallTypeOK
<1>6. stack' \in Seq(Frames)
  BY <1>1, HeadType
<1>7. CallTypeOK'
  BY <1>1, <1>2, <1>5, <1>6 DEF CallTypeOK, cacheVars, Entries, Calls, Frames
<1> QED
  BY <1>2, <1>7

LEMMA ThreeInSeq ==
  ASSUME NEW S, NEW a \in S, NEW b \in S, NEW c \in S
  PROVE  <<a, b, c>> \in Seq(S)
OBVIOUS

LEMMA OverwriteType ==
  ASSUME NEW S, NEW T, NEW f \in [S -> T], NEW x, NEW y \in T
  PROVE  [f EXCEPT ![x] = y] \in [S -> T]
OBVIOUS

LEMMA IteExpandInv == IInv /\ IteExpand => IInv'
<1> SUFFICES ASSUME IInv, IteExpand PROVE IInv'
  OBVIOUS
<1> USE DEF IInv
<1> DEFINE e == Head(stack)
           tv == TopVar({e.f, e.g, e.h})
<1>1. /\ pc = "loop" /\ stack # <<>> /\ results' = results
      /\ UNCHANGED <<arenaVars, numVars, cacheVars, held, call>>
      /\ Known(e.f, e.g, e.h) = {}
      /\ \/ pc' = "panic" /\ stack' = stack
         \/ /\ pc' = pc
            /\ stack' = <<EnterCofactors(e, tv, FALSE),
                          EnterCofactors(e, tv, TRUE),
                          Combine(e.f, e.g, e.h, tv)>> \o Tail(stack)
  BY DEF IteExpand, PopEnter
<1>2. ArenaInv' /\ Nodes' = Nodes
  BY <1>1, SameArena
<1>3. /\ e.f \in Nodes /\ e.g \in Nodes /\ e.h \in Nodes
      /\ Tail(stack) \in Seq(Frames)
  BY <1>1, HeadType
<1>4. Trivial(e.f, e.g, e.h) = {}
  BY <1>1 DEF Known
<1> HIDE DEF e, tv
<1>5. tv \in Vars
  BY <1>3, <1>4, TopVarType DEF ArenaInv, tv
<1>6. \A val \in BOOLEAN : EnterCofactors(e, tv, val) \in Frames
  BY <1>3, <1>5, CofactorType DEF ArenaInv, EnterCofactors, Enter, Frames
<1>7. Combine(e.f, e.g, e.h, tv) \in Frames
  BY <1>3, <1>5 DEF Combine, Frames
<1>8. stack' \in Seq(Frames)
  <2> DEFINE new == <<EnterCofactors(e, tv, FALSE), EnterCofactors(e, tv, TRUE),
                      Combine(e.f, e.g, e.h, tv)>>
  <2>1. new \in Seq(Frames)
    <3>1. EnterCofactors(e, tv, FALSE) \in Frames /\ EnterCofactors(e, tv, TRUE) \in Frames
      BY <1>6
    <3> QED
      BY <1>7, <3>1, ThreeInSeq
  <2>2. stack' = stack \/ stack' = new \o Tail(stack)
    BY <1>1
  <2>3. stack \in Seq(Frames)
    BY DEF CallTypeOK
  <2> HIDE DEF new
  <2>4. new \o Tail(stack) \in Seq(Frames)
    BY <1>3, <2>1
  <2> QED
    BY <2>2, <2>3, <2>4
<1>9. CallTypeOK'
  BY <1>1, <1>2, <1>8 DEF CallTypeOK, cacheVars, Entries, Calls, Frames
<1> QED
  BY <1>2, <1>9

LEMMA IteCombineInv == VarsFit /\ IInv /\ IteCombine => IInv'
<1> SUFFICES ASSUME VarsFit, IInv, IteCombine PROVE IInv'
  OBVIOUS
<1> USE DEF IInv
<1> DEFINE c == Head(stack)
<1>1. /\ pc = "loop" /\ stack # <<>> /\ c.kind = "combine"
      /\ numVars' = numVars
  BY DEF IteCombine
<1>2. CASE Len(results) < 2 \/ MakeNodePanics(c.tv, results[2], results[1])
  <2>1. UNCHANGED <<arenaVars, numVars, cacheVars, held, call, stack, results>>
        /\ pc' = "panic"
    BY <1>2 DEF IteCombine, Panic
  <2>2. ArenaInv' /\ Nodes' = Nodes
    BY <2>1, SameArena
  <2>3. CallTypeOK'
    BY <2>1, <2>2 DEF CallTypeOK, cacheVars, Entries, Calls, Frames
  <2> QED
    BY <2>2, <2>3
<1>3. CASE ~ (Len(results) < 2 \/ MakeNodePanics(c.tv, results[2], results[1]))
  <2>1. PICK r \in Refs :
          /\ MakeNode(c.tv, results[2], results[1], r)
          /\ CachePut(c.f, c.g, c.h, r)
          /\ results' = <<r>> \o Tail(Tail(results))
          /\ stack' = Tail(stack)
          /\ UNCHANGED <<pc, held, call>>
    BY <1>3 DEF IteCombine
  <2>2. /\ results \in Seq(Nodes) /\ results[1] \in Nodes /\ results[2] \in Nodes
        /\ Tail(Tail(results)) \in Seq(Nodes)
    <3>1. results \in Seq(Nodes) /\ Len(results) \in Nat /\ Len(results) >= 2
      BY <1>3 DEF CallTypeOK
    <3>2. results[1] \in Nodes /\ results[2] \in Nodes /\ results # <<>>
      BY <3>1
    <3>3. Tail(results) \in Seq(Nodes) /\ Len(Tail(results)) = Len(results) - 1
      BY <3>1, <3>2
    <3>4. Tail(results) # <<>>
      BY <3>1, <3>3
    <3>5. Tail(Tail(results)) \in Seq(Nodes)
      BY <3>3, <3>4
    <3> QED
      BY <3>1, <3>2, <3>5
  <2>3. /\ c.f \in Nodes /\ c.g \in Nodes /\ c.h \in Nodes /\ c.tv \in Nat
        /\ Tail(stack) \in Seq(Frames)
    BY <1>1, HeadType DEF Vars
  <2> HIDE DEF c
  <2>4. ArenaInv' /\ Nodes \subseteq Nodes' /\ r \in Nodes'
    BY <1>1, <1>3, <2>1, <2>2, <2>3, MakeNodeInv
  <2>5. /\ Entries \subseteq Entries'
        /\ Calls \subseteq Calls'
        /\ Seq(Frames) \subseteq Seq(Frames')
        /\ Seq(Nodes) \subseteq Seq(Nodes')
    BY <2>4, TypesGrow
  <2>6. cache' \in [0 .. CacheSlots - 1 -> Entries'] /\ cacheLen' \in Nat
    <3>1. [f |-> c.f, g |-> c.g, h |-> c.h, r |-> r] \in Entries'
      BY <2>3, <2>4 DEF Entries
    <3>2. /\ cache \in [0 .. CacheSlots - 1 -> Entries'] /\ cacheLen \in Nat
      BY <2>5 DEF CallTypeOK
    <3>3. /\ cache' = [cache EXCEPT ![IteSlot(c.f, c.g, c.h)] =
                        [f |-> c.f, g |-> c.g, h |-> c.h, r |-> r]]
          /\ cacheLen' = cacheLen \/ cacheLen' = cacheLen + 1
      BY <2>1, <3>2 DEF CachePut
    <3>4. cache' \in [0 .. CacheSlots - 1 -> Entries']
      BY <3>1, <3>2, <3>3, OverwriteType
    <3> QED
      BY <3>2, <3>3, <3>4
  <2>7. results' \in Seq(Nodes')
    <3>1. Tail(Tail(results)) \in Seq(Nodes')
      BY <2>2, <2>5
    <3> QED
      BY <2>1, <2>4, <3>1
  <2>8. CallTypeOK'
    BY <2>1, <2>3, <2>4, <2>5, <2>6, <2>7 DEF CallTypeOK
  <2> QED
    BY <2>4, <2>8
<1> QED
  BY <1>2, <1>3

LEMMA IteReturnInv == IInv /\ IteReturn => IInv'
<1> SUFFICES ASSUME IInv, IteReturn PROVE IInv'
  OBVIOUS
<1> USE DEF IInv
<1>1. /\ pc = "loop"
      /\ UNCHANGED <<arenaVars, numVars, cacheVars>>
  BY DEF IteReturn
<1>2. ArenaInv' /\ Nodes' = Nodes
  BY <1>1, SameArena
<1>3. CASE results = <<>> \/ (DebugBuild /\ Len(results) # 1)
  BY <1>1, <1>2, <1>3
     DEF IteReturn, Panic, CallTypeOK, cacheVars, Entries, Calls, Frames
<1>4. CASE ~ (results = <<>> \/ (DebugBuild /\ Len(results) # 1))
  <2>1. Return(Head(results)) /\ results' = <<>> /\ stack' = stack
    BY <1>4 DEF IteReturn
  <2>2. Head(results) \in Nodes
    BY <1>4 DEF CallTypeOK
  <2> QED
    BY <1>1, <1>2, <2>1, <2>2, ReturnType
       DEF CallTypeOK, cacheVars, Entries, Calls, Frames
<1> QED
  BY <1>3, <1>4
-----------------------------------------------------------------------------
(* The theorems. *)

LEMMA CallsInv ==
  ASSUME IInv, VarsFit, NEW k \in Handles,
         Not(k) \/ And(k) \/ Or(k) \/ Xor(k) \/ Ite(k)
  PROVE  IInv'
<1>1. TrueRef \in Operands /\ FalseRef \in Operands
  BY DEF Operands, Terminals
<1>2. \A f \in Operands : f \in Nodes /\ Den(f) \in Functions
  BY OperandsLive, DenType DEF IInv, ArenaInv
<1>3. \A F, G, H \in Functions :
        {TrueFn \ F, F \cap G, F \cup G, XorFn(F, G), IteFn(F, G, H)}
          \subseteq Functions
  BY DEF Functions, TrueFn, XorFn, IteFn
<1>4. CASE Not(k)
  <2>1. PICK f \in Operands :
          StartIte(k, f, FalseRef, TrueRef, <<>>, TrueFn \ Den(f))
    BY <1>4 DEF Not
  <2>2. TrueFn \ Den(f) \in Functions
    BY <1>2, <1>3
  <2> QED
    BY <1>1, <2>1, <2>2, StartIteInv
<1>5. CASE And(k)
  <2>1. PICK f \in Operands, g \in Operands :
          StartIte(k, f, g, FalseRef, <<>>, Den(f) \cap Den(g))
    BY <1>5 DEF And
  <2>2. Den(f) \cap Den(g) \in Functions
    BY <1>2, <1>3
  <2> QED
    BY <1>1, <2>1, <2>2, StartIteInv
<1>6. CASE Or(k)
  <2>1. PICK f \in Operands, g \in Operands :
          StartIte(k, f, TrueRef, g, <<>>, Den(f) \cup Den(g))
    BY <1>6 DEF Or
  <2>2. Den(f) \cup Den(g) \in Functions
    BY <1>2, <1>3
  <2> QED
    BY <1>1, <2>1, <2>2, StartIteInv
<1>7. CASE Xor(k)
  <2>1. PICK f \in Operands, g \in Operands :
          StartIte(k, g, FalseRef, TrueRef, <<[f |-> f, h |-> g]>>,
                   XorFn(Den(f), Den(g)))
    BY <1>7 DEF Xor
  <2>2. XorFn(Den(f), Den(g)) \in Functions
    BY <1>2, <1>3
  <2>3. [f |-> f, h |-> g] \in [f : Nodes, h : Nodes]
    BY <1>2
  <2> QED
    BY <1>1, <2>1, <2>2, <2>3, StartIteInv
<1>8. CASE Ite(k)
  <2>1. PICK f \in Operands, g \in Operands, h \in Operands :
          StartIte(k, f, g, h, <<>>, IteFn(Den(f), Den(g), Den(h)))
    BY <1>8 DEF Ite
  <2>2. IteFn(Den(f), Den(g), Den(h)) \in Functions
    BY <1>2, <1>3
  <2> QED
    BY <2>1, <2>2, StartIteInv
<1> QED
  BY <1>4, <1>5, <1>6, <1>7, <1>8

\* Every step of the engine keeps the invariant.
LEMMA NextInv == VarsFit /\ IInv /\ [Next]_vars => IInv'
<1> SUFFICES ASSUME VarsFit, IInv, [Next]_vars PROVE IInv'
  OBVIOUS
<1>1. CASE NewVar
  BY <1>1, NewVarInv
<1>2. ASSUME NEW k \in Handles, Constant(k) PROVE IInv'
  BY <1>2, ConstantInv
<1>3. ASSUME NEW k \in Handles, CallMakeNode(k) PROVE IInv'
  BY <1>3, CallMakeNodeInv
<1>4. ASSUME NEW k \in Handles, Not(k) \/ And(k) \/ Or(k) \/ Xor(k) \/ Ite(k)
      PROVE  IInv'
  BY <1>4, CallsInv
<1>5. CASE IteStep
  BY <1>5, IteKnownInv, IteBeginInv, IteEnterKnownInv, IteExpandInv,
     IteCombineInv, IteReturnInv DEF IteStep
<1>6. CASE UNCHANGED vars
  <2>1. UNCHANGED <<arenaVars, numVars>>
    BY <1>6 DEF vars
  <2>2. ArenaInv' /\ Nodes' = Nodes
    BY <2>1, SameArena DEF IInv
  <2> QED
    BY <1>6, <2>2 DEF IInv, vars, CallTypeOK, cacheVars, loopVars, Entries,
                      Calls, Frames
<1> QED
  BY <1>1, <1>2, <1>3, <1>4, <1>5, <1>6 DEF Next

\* The engine keeps its invariant, whatever its caller builds.
THEOREM Invariance ==
  ASSUME VarsFit
  PROVE  Spec => []IInv
<1>1. Init => IInv
  BY InitInv
<1>2. IInv /\ [Next]_vars => IInv'
  BY NextInv
<1> QED
  BY <1>1, <1>2, PTL DEF Spec

\* Every reference the manager or its caller has is live and every variable of
\* the manager has its type, at every turn of ite.
THEOREM TypeCorrect ==
  ASSUME VarsFit
  PROVE  Spec => []TypeOK
<1>1. IInv => TypeOK
  BY DEF IInv, ArenaInv, TypeOK
<1> QED
  BY <1>1, Invariance, PTL

\* The arena is canonical: two references are equal exactly when they stand for
\* the same Boolean function.
THEOREM Canonicity ==
  ASSUME VarsFit
  PROVE  Spec => []Canonical
<1>1. IInv => Canonical
  BY DEF IInv, ArenaInv
<1> QED
  BY <1>1, Invariance, PTL

\* The unique table holds exactly the arena's nodes, each under its variable.
THEOREM TableExact ==
  ASSUME VarsFit
  PROVE  Spec => []UniqueExact
<1>1. IInv => UniqueExact
  BY DEF IInv, ArenaInv
<1> QED
  BY <1>1, Invariance, PTL

LEMMA TripleGivesOffset == ArenaInv => SameTripleSameOffset
<1> SUFFICES ASSUME ArenaInv, NEW o \in Headers, NEW q \in Headers,
                    Node(o) = Node(q)
             PROVE  o = q
  BY DEF SameTripleSameOffset
<1> USE DEF ArenaInv
<1>1. VarOf(o) = VarOf(q) /\ Node(o).lo = Node(q).lo /\ Node(o).hi = Node(q).hi
  BY DEF Node, Decode, VarOf
<1>2. Den(o) = den[o] /\ Den(q) = den[q]
  BY HeaderType DEF Den, Terminals
<1>3. Den(o) = Den(q)
  BY <1>1, <1>2 DEF Meaning
<1> QED
  BY <1>3 DEF Canonical, Nodes

\* One triple has one offset, as long as every variable fits the var byte: the
\* condition the violation of the same property shows to be needed.
THEOREM OneOffsetPerTriple ==
  ASSUME VarsFit
  PROVE  Spec => []SameTripleSameOffset
<1>1. IInv => SameTripleSameOffset
  BY TripleGivesOffset DEF IInv
<1> QED
  BY <1>1, Invariance, PTL
-----------------------------------------------------------------------------
(* Boolean functions. *)

LEMMA ShannonType ==
  ASSUME NEW v, NEW lo \in Functions, NEW hi \in Functions
  PROVE  Shannon(v, lo, hi) \in Functions
BY DEF Shannon, Functions

LEMMA IteFnType ==
  ASSUME NEW F \in Functions, NEW G \in Functions, NEW H \in Functions
  PROVE  IteFn(F, G, H) \in Functions
BY DEF IteFn, Functions

\* A function is its own expansion when its cofactors are equal.
LEMMA ShannonSame ==
  ASSUME NEW v, NEW F \in Functions
  PROVE  Shannon(v, F, F) = F
BY DEF Shannon, Functions

\* If-then-else works on the cofactors.
LEMMA IteOfShannon ==
  ASSUME NEW v,
         NEW F0 \in Functions, NEW F1 \in Functions,
         NEW G0 \in Functions, NEW G1 \in Functions,
         NEW H0 \in Functions, NEW H1 \in Functions
  PROVE  IteFn(Shannon(v, F0, F1), Shannon(v, G0, G1), Shannon(v, H0, H1))
           = Shannon(v, IteFn(F0, G0, H0), IteFn(F1, G1, H1))
BY DEF IteFn, Shannon, Functions

LEMMA IteIndependent ==
  ASSUME NEW u \in Vars,
         NEW F \in Functions, NEW G \in Functions, NEW H \in Functions,
         IndependentOf(F, u), IndependentOf(G, u), IndependentOf(H, u)
  PROVE  IndependentOf(IteFn(F, G, H), u)
BY DEF IteFn, IndependentOf
-----------------------------------------------------------------------------
(* References and the functions of their cofactors. *)

\* The children of a node are live, after it in the order, and decide it.
LEMMA NodeFacts ==
  ASSUME ArenaInv, NEW o \in Headers
  PROVE  /\ VarOf(o) \in Vars /\ VarOf(o) < numVars
         /\ Node(o).lo \in Nodes /\ Node(o).hi \in Nodes
         /\ Node(o).lo # Node(o).hi
         /\ IsNode(Node(o).lo) => VarOf(Node(o).lo) > VarOf(o)
         /\ IsNode(Node(o).hi) => VarOf(Node(o).hi) > VarOf(o)
         /\ Den(o) = Shannon(VarOf(o), Den(Node(o).lo), Den(Node(o).hi))
<1>1. VarOf(o) \in Vars /\ o \notin Terminals
  BY HeaderType DEF ArenaInv
<1>2. Node(o).var = VarOf(o)
  BY DEF Node, Decode, VarOf
<1>3. Den(o) = den[o]
  BY <1>1 DEF Den, Terminals
<1> QED
  BY <1>1, <1>2, <1>3 DEF ArenaInv, Reduced, Meaning

\* A node depends on its variable.
LEMMA DependsOnOwn ==
  ASSUME ArenaInv, NEW o \in Headers
  PROVE  ~ IndependentOf(Den(o), VarOf(o))
<1> DEFINE v == VarOf(o)
           l == Node(o).lo
           h == Node(o).hi
<1>1. /\ v \in Vars /\ l \in Nodes /\ h \in Nodes /\ l # h
      /\ IsNode(l) => VarOf(l) > v
      /\ IsNode(h) => VarOf(h) > v
      /\ Den(o) = Shannon(v, Den(l), Den(h))
  BY NodeFacts
<1> HIDE DEF v, l, h
<1>2. IndependentOf(Den(l), v) /\ IndependentOf(Den(h), v)
  BY <1>1, DenIndependent DEF ArenaInv, Vars
<1>3. Den(l) \in Functions /\ Den(h) \in Functions /\ Den(l) # Den(h)
  BY <1>1, DenType DEF ArenaInv, Canonical
<1>4. ~ IndependentOf(Den(o), v)
  BY <1>1, <1>2, <1>3, ShannonDepends
<1> QED
  BY <1>4 DEF v

\* A reference whose function depends on no variable up to v comes after v.
LEMMA AfterInOrder ==
  ASSUME ArenaInv, NEW r \in Nodes, NEW v \in Vars,
         \A u \in 0 .. v : IndependentOf(Den(r), u)
  PROVE  IsNode(r) => VarOf(r) > v
<1> SUFFICES ASSUME IsNode(r), ~ (VarOf(r) > v) PROVE FALSE
  OBVIOUS
<1>1. r \in Headers
  BY DEF Nodes, IsNode
<1>2. VarOf(r) \in Vars
  BY <1>1, NodeFacts
<1>3. VarOf(r) \in 0 .. v
  BY <1>2, MaxVarsAssumption DEF Vars
<1> QED
  BY <1>1, <1>3, DependsOnOwn

\* A reference is the expansion of its cofactors on a variable not after its
\* own, and they depend on no variable up to that one.
LEMMA CofactorFns ==
  ASSUME ArenaInv, NEW r \in Nodes, NEW v \in Vars, ~ CofactorPanics(r, v)
  PROVE  /\ Den(r) = Shannon(v, Den(Cofactor(r, v, FALSE)),
                                Den(Cofactor(r, v, TRUE)))
         /\ \A val \in BOOLEAN, u \in 0 .. v :
              IndependentOf(Den(Cofactor(r, v, val)), u)
<1>0. \A u \in 0 .. v : u \in Vars
  BY MaxVarsAssumption DEF Vars
<1>1. CASE IsNode(r) /\ VarOf(r) = v
  <2> DEFINE l == Node(r).lo
             h == Node(r).hi
  <2>1. r \in Headers
    BY <1>1 DEF Nodes, IsNode
  <2>2. /\ l \in Nodes /\ h \in Nodes
        /\ IsNode(l) => VarOf(l) > v
        /\ IsNode(h) => VarOf(h) > v
        /\ Den(r) = Shannon(v, Den(l), Den(h))
    BY <1>1, <2>1, NodeFacts
  <2>3. Cofactor(r, v, FALSE) = l /\ Cofactor(r, v, TRUE) = h
    BY <1>1 DEF Cofactor
  <2> HIDE DEF l, h
  <2>4. ASSUME NEW u \in 0 .. v
        PROVE  IndependentOf(Den(l), u) /\ IndependentOf(Den(h), u)
    <3>1. (IsNode(l) => u < VarOf(l)) /\ (IsNode(h) => u < VarOf(h))
      <4>1. IsNode(l) => VarOf(l) \in Vars
        BY <2>2, NodeFacts DEF Nodes, IsNode
      <4>2. IsNode(h) => VarOf(h) \in Vars
        BY <2>2, NodeFacts DEF Nodes, IsNode
      <4> QED
        BY <2>2, <4>1, <4>2, MaxVarsAssumption DEF Vars
    <3> QED
      BY <1>0, <2>2, <3>1, DenIndependent DEF ArenaInv
  <2> QED
    BY <2>2, <2>3, <2>4
<1>2. CASE ~ (IsNode(r) /\ VarOf(r) = v)
  <2>1. \A val \in BOOLEAN : Cofactor(r, v, val) = r
    BY <1>2 DEF Cofactor
  <2>2. ASSUME NEW u \in 0 .. v PROVE IndependentOf(Den(r), u)
    <3>1. IsNode(r) => VarOf(r) \in Vars
      BY NodeFacts DEF Nodes, IsNode
    <3>2. IsNode(r) => u < VarOf(r)
      BY <1>2, <3>1, MaxVarsAssumption DEF CofactorPanics, Vars
    <3> QED
      BY <1>0, <3>2, DenIndependent DEF ArenaInv
  <2>3. Den(r) \in Functions
    BY DenType DEF ArenaInv
  <2> QED
    BY <2>1, <2>2, <2>3, ShannonSame
<1> QED
  BY <1>1, <1>2
-----------------------------------------------------------------------------
(* What ite knows without expanding. *)

LEMMA TrivialSound ==
  ASSUME ArenaTypeOK, NEW f \in Nodes, NEW g \in Nodes, NEW h \in Nodes,
         NEW r \in Trivial(f, g, h)
  PROVE  r \in Nodes /\ Den(r) = IteFn(Den(f), Den(g), Den(h))
<1>1. Den(f) \in Functions /\ Den(g) \in Functions /\ Den(h) \in Functions
  BY DenType
<1>2. Den(TrueRef) = TrueFn /\ Den(FalseRef) = FalseFn
  BY DEF Den, TrueRef, FalseRef
<1>3. \A F, G \in Functions :
        /\ IteFn(TrueFn, F, G) = F
        /\ IteFn(FalseFn, F, G) = G
        /\ IteFn(F, G, G) = G
        /\ IteFn(F, TrueFn, FalseFn) = F
  BY DEF Functions, IteFn, TrueFn, FalseFn
<1>4. CASE f = TrueRef
  BY <1>1, <1>2, <1>3, <1>4 DEF Trivial, TrueRef, FalseRef
<1>5. CASE f = FalseRef
  BY <1>1, <1>2, <1>3, <1>5 DEF Trivial, TrueRef, FalseRef
<1>6. CASE IsNode(f) /\ g = h
  <2>1. r = g
    BY <1>6 DEF Trivial, IsNode, Terminals, TrueRef, FalseRef
  <2>2. IteFn(Den(f), Den(g), Den(g)) = Den(g)
    BY <1>1, <1>3
  <2> QED
    BY <1>6, <2>1, <2>2
<1>7. CASE IsNode(f) /\ g # h /\ g = TrueRef /\ h = FalseRef
  <2>1. r = f
    BY <1>7 DEF Trivial, IsNode, Terminals, TrueRef, FalseRef
  <2>2. IteFn(Den(f), TrueFn, FalseFn) = Den(f)
    BY <1>1, <1>3
  <2> QED
    BY <1>2, <1>7, <2>1, <2>2
<1>8. CASE IsNode(f) /\ g # h /\ ~ (g = TrueRef /\ h = FalseRef)
  BY <1>8 DEF Trivial, IsNode, Terminals
<1> QED
  BY <1>4, <1>5, <1>6, <1>7, <1>8 DEF IsNode, Terminals

\* A cache hit, like a trivial case, is the function asked for.
LEMMA KnownSound ==
  ASSUME ArenaTypeOK, CallTypeOK, CacheSound,
         NEW f \in Nodes, NEW g \in Nodes, NEW h \in Nodes,
         NEW r \in Known(f, g, h)
  PROVE  r \in Nodes /\ Den(r) = IteFn(Den(f), Den(g), Den(h))
<1>1. CASE Trivial(f, g, h) # {}
  BY <1>1, TrivialSound DEF Known
<1>2. CASE Trivial(f, g, h) = {}
  <2> DEFINE s == IteSlot(f, g, h)
  <2>1. s \in DOMAIN cache
    BY NodesAreRefs, ManagerAssumption DEF CallTypeOK
  <2>2. cache[s].f = f /\ cache[s].g = g /\ cache[s].h = h /\ r = cache[s].r
    BY <1>2 DEF Known, CacheGet
  <2>3. EmptyRef \notin Nodes
    BY DEF EmptyRef, Nodes, Terminals, FalseRef, TrueRef, ArenaTypeOK, BytesTypeOK
  <2>4. cache[s] # EmptyEntry
    BY <2>2, <2>3 DEF EmptyEntry
  <2> QED
    BY <2>1, <2>2, <2>4 DEF CacheSound
<1> QED
  BY <1>1, <1>2

\* An expanded frame's top variable is that of one of its nodes.
LEMMA TopVarOfNode ==
  ASSUME ArenaTypeOK, Reduced,
         NEW f \in Nodes, NEW g \in Nodes, NEW h \in Nodes,
         Trivial(f, g, h) = {}
  PROVE  \E o \in Headers : o \in {f, g, h} /\ TopVar({f, g, h}) = VarOf(o)
<1> DEFINE vs == {VarOf(r) : r \in {f, g, h} \ Terminals}
<1>1. f \notin Terminals
  BY DEF Trivial, Terminals, FalseRef, TrueRef
<1>2. vs \subseteq Nat /\ VarOf(f) \in vs
  BY <1>1, HeaderType DEF Nodes, Vars
<1>3. \E v \in vs : \A u \in vs : v <= u
  BY <1>2, NatSetMin
<1>4. TopVar({f, g, h}) \in vs
  BY <1>3 DEF TopVar
<1> QED
  BY <1>4 DEF Nodes
-----------------------------------------------------------------------------
(* Working off the stack. *)

HasRun == \E w \in [0 .. Len(stack) -> Seq(Functions)] : WorksOff(w)

\* A run in mind is the one Pending computes.
LEMMA PendingIsRun ==
  ASSUME CallTypeOK, NEW w \in [0 .. Len(stack) -> Seq(Functions)], WorksOff(w)
  PROVE  Pending = w
<1> DEFINE n == Len(stack)
           Def(g) == [i \in 0 .. Len(stack) |->
                        IF i = 0
                        THEN [j \in DOMAIN results |-> Den(results[j])]
                        ELSE After(stack[i], g[i - 1])]
<1>1. n \in Nat
  BY DEF CallTypeOK
<1>2. w = Def(w)
  <2>1. \A i \in 0 .. Len(stack) : i = 0 \/ i \in 1 .. Len(stack)
    BY <1>1
  <2> QED
    BY <2>1 DEF WorksOff
<1>3. Pending = Def(Pending)
  <2>1. Pending = CHOOSE g : g = Def(g)
    BY DEF Pending
  <2> HIDE DEF Def
  <2> QED
    BY <1>2, <2>1
<1> DEFINE S == {i \in Nat : i <= n => Pending[i] = w[i]}
<1>4. 0 \in S
  <2>1. 0 \in 0 .. n
    BY <1>1
  <2> QED
    BY <1>2, <1>3, <2>1
<1>5. ASSUME NEW i \in Nat, i \in S PROVE i + 1 \in S
  <2> SUFFICES ASSUME i + 1 <= n PROVE Pending[i + 1] = w[i + 1]
    OBVIOUS
  <2>1. i + 1 \in 0 .. n /\ i + 1 # 0 /\ (i + 1) - 1 = i /\ i <= n
    BY <1>1
  <2>2. Pending[i] = w[i]
    BY <1>5, <2>1
  <2>3. Pending[i + 1] = After(stack[i + 1], Pending[i])
    BY <1>3, <2>1
  <2>4. w[i + 1] = After(stack[i + 1], w[i])
    BY <1>2, <2>1
  <2> QED
    BY <2>2, <2>3, <2>4
<1> HIDE DEF S
<1>6. Nat \subseteq S
  BY <1>4, <1>5, SetInduction
<1>7. \A i \in 0 .. n : Pending[i] = w[i]
  BY <1>6 DEF S
<1>8. DOMAIN Pending = 0 .. n
  BY <1>3
<1> HIDE DEF Def
<1>9. Pending = [i \in 0 .. n |-> Pending[i]]
  BY <1>3 DEF Def
<1> QED
  BY <1>7, <1>9

LEMMA FnOfType ==
  ASSUME ArenaTypeOK, NEW e, e.f \in Nodes, e.g \in Nodes, e.h \in Nodes
  PROVE  FnOf(e) \in Functions
BY DenType, IteFnType DEF FnOf

LEMMA IsASeq ==
  ASSUME NEW T, NEW n \in Nat, NEW f \in [1 .. n -> T]
  PROVE  f \in Seq(T) /\ Len(f) = n
OBVIOUS

\* Two results off the top.
LEMMA DropTwo ==
  ASSUME NEW T, NEW s \in Seq(T), Len(s) >= 2
  PROVE  /\ s[1] \in T /\ s[2] \in T
         /\ Tail(Tail(s)) \in Seq(T)
         /\ Len(Tail(Tail(s))) = Len(s) - 2
         /\ \A j \in 1 .. Len(s) - 2 : Tail(Tail(s))[j] = s[j + 2]
<1>1. Len(s) \in Nat /\ s[1] \in T /\ s[2] \in T /\ s # <<>>
  OBVIOUS
<1>2. /\ Tail(s) \in Seq(T) /\ Len(Tail(s)) = Len(s) - 1
      /\ \A j \in 1 .. Len(s) - 1 : Tail(s)[j] = s[j + 1]
  BY <1>1
<1>3. Tail(s) # <<>>
  <2>1. Len(Tail(s)) = Len(s) - 1
    BY <1>1
  <2>2. Len(Tail(s)) # 0
    BY <1>1, <2>1
  <2>3. Len(<< >>) = 0
    OBVIOUS
  <2> QED
    BY <2>2, <2>3
<1> PICK t : t = Tail(s)
  OBVIOUS
<1>4. /\ Tail(t) \in Seq(T) /\ Len(Tail(t)) = Len(t) - 1
      /\ \A j \in 1 .. Len(t) - 1 : Tail(t)[j] = t[j + 1]
  BY <1>2, <1>3
<1> QED
  BY <1>1, <1>2, <1>4

\* Working a frame off leaves functions on the result stack.
LEMMA AfterType ==
  ASSUME ArenaTypeOK, NEW e \in Frames, NEW rs \in Seq(Functions),
         e.kind = "combine" => Len(rs) >= 2
  PROVE  After(e, rs) \in Seq(Functions)
<1>1. FnOf(e) \in Functions
  BY FnOfType DEF Frames
<1>2. CASE e.kind = "enter"
  <2>1. <<FnOf(e)>> \in Seq(Functions)
    BY <1>1
  <2> HIDE DEF FnOf
  <2> QED
    BY <1>2, <2>1 DEF After
<1>3. CASE e.kind # "enter"
  <2>1. Len(rs) >= 2
    BY <1>3 DEF Frames
  <2>2. rs[1] \in Functions /\ rs[2] \in Functions
        /\ Tail(Tail(rs)) \in Seq(Functions)
    BY <2>1, DropTwo
  <2>6. <<Shannon(e.tv, rs[2], rs[1])>> \in Seq(Functions)
    BY <2>2, ShannonType
  <2>7. <<Shannon(e.tv, rs[2], rs[1])>> \o Tail(Tail(rs)) \in Seq(Functions)
    BY <2>2, <2>6
  <2> QED
    BY <1>3, <2>7 DEF After
<1> QED
  BY <1>2, <1>3

\* And what Pending computes, when it works off, is a run.
LEMMA RunFromPending ==
  ASSUME ArenaTypeOK, CallTypeOK, WorksOff(Pending)
  PROVE  HasRun
<1> DEFINE n == Len(stack)
           w == [i \in 0 .. n |-> Pending[i]]
<1>1. n \in Nat /\ stack \in Seq(Frames) /\ results \in Seq(Nodes)
  BY DEF CallTypeOK
<1>2. WorksOff(w)
  <2>1. 0 \in 0 .. n /\ n \in 0 .. n
    BY <1>1
  <2>2. \A i \in 1 .. n : i \in 0 .. n /\ i - 1 \in 0 .. n
    BY <1>1
  <2>3. w[0] = Pending[0] /\ w[n] = Pending[n]
        /\ \A i \in 1 .. n : w[i] = Pending[i] /\ w[i - 1] = Pending[i - 1]
    BY <2>1, <2>2
  <2> HIDE DEF w
  <2> QED
    BY <2>3 DEF WorksOff
<1> DEFINE S == {i \in Nat : i <= n => w[i] \in Seq(Functions)}
<1> HIDE DEF w
<1>3. 0 \in S
  <2>1. w[0] = [j \in DOMAIN results |-> Den(results[j])]
    BY <1>2 DEF WorksOff
  <2>2. DOMAIN results = 1 .. Len(results) /\ Len(results) \in Nat
        /\ \A j \in DOMAIN results : Den(results[j]) \in Functions
    BY <1>1, DenType
  <2>3. w[0] \in [1 .. Len(results) -> Functions]
    BY <2>1, <2>2
  <2>4. w[0] \in Seq(Functions)
    BY <2>2, <2>3, IsASeq
  <2> QED
    BY <2>4
<1>4. ASSUME NEW i \in Nat, i \in S PROVE i + 1 \in S
  <2> SUFFICES ASSUME i + 1 <= n PROVE w[i + 1] \in Seq(Functions)
    OBVIOUS
  <2>1. i + 1 \in 1 .. n /\ (i + 1) - 1 = i /\ i <= n
    BY <1>1
  <2>2. w[i] \in Seq(Functions)
    BY <1>4, <2>1
  <2>3. w[i + 1] = After(stack[i + 1], w[i])
        /\ (stack[i + 1].kind = "combine" => Len(w[i]) >= 2)
    BY <1>2, <2>1 DEF WorksOff, CombineReady
  <2>4. stack[i + 1] \in Frames
    BY <1>1, <2>1
  <2> QED
    BY <2>2, <2>3, <2>4, AfterType
<1> HIDE DEF S
<1>5. Nat \subseteq S
  BY <1>3, <1>4, SetInduction
<1>6. \A i \in 0 .. n : w[i] \in Seq(Functions)
  BY <1>1, <1>5 DEF S
<1>7. w = [i \in 0 .. n |-> w[i]]
  BY DEF w
<1>8. w \in [0 .. n -> Seq(Functions)]
  BY <1>6, <1>7
<1> QED
  BY <1>2, <1>8 DEF HasRun
-----------------------------------------------------------------------------
(* How a turn of the loop changes the run. *)

LEMMA ConsFacts ==
  ASSUME NEW T, NEW x \in T, NEW s \in Seq(T)
  PROVE  /\ <<x>> \o s \in Seq(T)
         /\ Len(<<x>> \o s) = Len(s) + 1
         /\ (<<x>> \o s)[1] = x
         /\ \A j \in 1 .. Len(s) : (<<x>> \o s)[j + 1] = s[j]
         /\ Tail(<<x>> \o s) = s
<1>1. Len(s) \in Nat /\ <<x>> \in Seq(T) /\ Len(<<x>>) = 1
  OBVIOUS
<1> PICK t : t = <<x>> \o s
  OBVIOUS
<1>2. /\ t \in Seq(T) /\ Len(t) = Len(s) + 1 /\ t[1] = x
      /\ \A j \in 1 .. Len(s) : t[j + 1] = s[j]
  BY <1>1
<1>3. t # <<>>
  <2>1. Len(t) # 0 /\ Len(<< >>) = 0
    BY <1>1, <1>2
  <2> QED
    BY <2>1
<1>4. /\ Tail(t) \in Seq(T) /\ Len(Tail(t)) = Len(s)
      /\ \A j \in 1 .. Len(s) : Tail(t)[j] = s[j]
  BY <1>1, <1>2, <1>3
<1>5. Tail(t) = s
  BY <1>1, <1>4
<1> QED
  BY <1>2, <1>5

LEMMA ConsTwice ==
  ASSUME NEW T, NEW x \in T, NEW y \in T, NEW s \in Seq(T)
  PROVE  LET r == <<y>> \o (<<x>> \o s) IN
         Len(r) >= 2 /\ r[1] = y /\ r[2] = x
<1> PICK t : t = <<x>> \o s
  OBVIOUS
<1> PICK r : r = <<y>> \o t
  OBVIOUS
<1>1. Len(s) \in Nat
  OBVIOUS
<1>2. t \in Seq(T) /\ Len(t) = Len(s) + 1 /\ t[1] = x
  BY ConsFacts
<1>3. /\ Len(r) = Len(t) + 1 /\ r[1] = y
      /\ \A j \in 1 .. Len(t) : r[j + 1] = t[j]
  BY <1>2, ConsFacts
<1>4. 1 \in 1 .. Len(t) /\ 1 + 1 = 2
  BY <1>1, <1>2
<1>5. r[2] = x
  BY <1>2, <1>3, <1>4
<1> QED
  BY <1>1, <1>2, <1>3, <1>5

ResultFns == [j \in DOMAIN results |-> Den(results[j])]

LEMMA ResultFnsType ==
  ASSUME ArenaTypeOK, CallTypeOK
  PROVE  /\ ResultFns \in Seq(Functions)
         /\ Len(ResultFns) = Len(results)
         /\ \A j \in 1 .. Len(results) : ResultFns[j] = Den(results[j])
<1>1. /\ Len(results) \in Nat /\ DOMAIN results = 1 .. Len(results)
      /\ \A j \in 1 .. Len(results) : results[j] \in Nodes
  BY DEF CallTypeOK
<1>2. ResultFns \in [1 .. Len(results) -> Functions]
  BY <1>1, DenType DEF ResultFns
<1> QED
  BY <1>1, <1>2, IsASeq DEF ResultFns

\* While references keep their functions, so do frames.
LEMMA FramesStable ==
  ASSUME \A r \in Nodes : Den(r)' = Den(r), numVars' = numVars
  PROVE  \A e \in Frames :
           /\ FnOf(e)' = FnOf(e)
           /\ \A rs : After(e, rs)' = After(e, rs)
           /\ \A rs : CombineReady(e, rs)' <=> CombineReady(e, rs)
<1> SUFFICES ASSUME NEW e \in Frames
             PROVE  /\ FnOf(e)' = FnOf(e)
                    /\ \A rs : After(e, rs)' = After(e, rs)
                    /\ \A rs : CombineReady(e, rs)' <=> CombineReady(e, rs)
  OBVIOUS
<1>1. e.f \in Nodes /\ e.g \in Nodes /\ e.h \in Nodes
  BY DEF Frames
<1>2. FnOf(e)' = FnOf(e)
  BY <1>1 DEF FnOf
<1> QED
  BY <1>2 DEF After, CombineReady

\* The frame on top is worked off: its function is on the result stack.
LEMMA PopRun ==
  ASSUME CallTypeOK, stack # <<>>, call \in Calls,
         \A r \in Nodes : Den(r)' = Den(r), numVars' = numVars,
         NEW w \in [0 .. Len(stack) -> Seq(Functions)], WorksOff(w),
         stack' = Tail(stack), call' = call, ResultFns' = w[1]
  PROVE  HasRun'
<1> PICK n : n = Len(stack)
  OBVIOUS
<1> DEFINE w2 == [i \in 0 .. n - 1 |-> w[i + 1]]
<1>1. n \in Nat /\ n >= 1 /\ stack \in Seq(Frames)
      /\ Len(stack') = n - 1
      /\ \A i \in 1 .. n - 1 : stack'[i] = stack[i + 1]
  BY DEF CallTypeOK
<1>2. w2 \in [0 .. Len(stack') -> Seq(Functions)]
  BY <1>1
<1>3. w2[0] = w[1] /\ w2[n - 1] = w[n]
      /\ \A i \in 1 .. n - 1 : w2[i] = w[i + 1] /\ w2[i - 1] = w[i]
  BY <1>1
<1> HIDE DEF w2
<1>4. ASSUME NEW i \in 1 .. Len(stack')
      PROVE  /\ w2[i] = After(stack[i], w2[i - 1])'
             /\ stack'[i].kind = "combine" => CombineReady(stack[i], w2[i - 1])'
  <2> PICK e : e = stack[i + 1]
    OBVIOUS
  <2> PICK rs : rs = w[i]
    OBVIOUS
  <2>1. i \in 1 .. n - 1 /\ i + 1 \in 1 .. n /\ (i + 1) - 1 = i
    BY <1>1
  <2>2. e \in Frames /\ stack'[i] = e
    BY <1>1, <2>1
  <2>3. w[i + 1] = After(e, rs) /\ (e.kind = "combine" => CombineReady(e, rs))
    BY <2>1 DEF WorksOff
  <2>4. After(e, rs)' = After(e, rs) /\ (CombineReady(e, rs)' <=> CombineReady(e, rs))
    BY <2>2, FramesStable
  <2>5. w2[i] = w[i + 1] /\ w2[i - 1] = rs
    BY <1>3, <2>1
  <2> QED
    BY <2>2, <2>3, <2>4, <2>5
<1>5. w[n] = <<FnOf(call)>>
  BY DEF WorksOff
<1>6. FnOf(call)' = FnOf(call)
  BY DEF FnOf, Calls
<1>7. WorksOff(w2)'
  BY <1>1, <1>3, <1>4, <1>5, <1>6 DEF WorksOff, ResultFns
<1> QED
  BY <1>2, <1>7 DEF HasRun

\* The frame on top becomes its cofactors and their Combine.
LEMMA ExpandRun ==
  ASSUME ArenaTypeOK, CallTypeOK, stack # <<>>, call \in Calls,
         UNCHANGED <<arenaVars, numVars, call, results>>,
         NEW w \in [0 .. Len(stack) -> Seq(Functions)], WorksOff(w),
         NEW a \in Frames, NEW b \in Frames, NEW c \in Frames,
         a.kind = "enter", b.kind = "enter", c.kind = "combine",
         Head(stack).kind = "enter", FnOf(Head(stack)) = FnOf(c),
         CombineReady(c, <<FnOf(b)>> \o (<<FnOf(a)>> \o w[0])),
         stack' = <<a, b, c>> \o Tail(stack)
  PROVE  HasRun'
<1> PICK n : n = Len(stack)
  OBVIOUS
<1> PICK rs : rs = w[0]
  OBVIOUS
<1> PICK r1 : r1 = <<FnOf(a)>> \o rs
  OBVIOUS
<1> PICK r2 : r2 = <<FnOf(b)>> \o r1
  OBVIOUS
<1>0. PICK w2 : w2 = [i \in 0 .. n + 2 |-> IF i = 0 THEN rs
                                       ELSE IF i = 1 THEN r1
                                       ELSE IF i = 2 THEN r2 ELSE w[i - 2]]
  OBVIOUS
<1>1. /\ n \in Nat /\ n >= 1 /\ stack \in Seq(Frames)
      /\ Len(stack') = n + 2
      /\ stack'[1] = a /\ stack'[2] = b /\ stack'[3] = c
      /\ \A i \in 4 .. n + 2 : stack'[i] = stack[i - 2]
  <2>1. n \in Nat /\ n >= 1 /\ stack \in Seq(Frames)
    BY DEF CallTypeOK
  <2> PICK t : t = Tail(stack)
    OBVIOUS
  <2>2. t \in Seq(Frames) /\ Len(t) = n - 1
        /\ \A i \in 1 .. n - 1 : t[i] = stack[i + 1]
    BY <2>1
  <2>3. <<a, b, c>> \in Seq(Frames) /\ Len(<<a, b, c>>) = 3
    OBVIOUS
  <2>4. Len(stack') = n + 2 /\ stack'[1] = a /\ stack'[2] = b /\ stack'[3] = c
        /\ \A i \in 4 .. n + 2 : stack'[i] = t[i - 3]
    BY <2>1, <2>2, <2>3
  <2> QED
    BY <2>1, <2>2, <2>4
<1>2. rs \in Seq(Functions) /\ FnOf(a) \in Functions /\ FnOf(b) \in Functions
  <2>1. 0 \in 0 .. Len(stack)
    BY <1>1
  <2>2. \A e \in Frames : FnOf(e) \in Functions
    BY FnOfType DEF Frames
  <2> QED
    BY <2>1, <2>2
<1>3. /\ r1 \in Seq(Functions) /\ r2 \in Seq(Functions)
      /\ r2[1] = FnOf(b) /\ r2[2] = FnOf(a) /\ Tail(Tail(r2)) = rs
  <2>1. r1 \in Seq(Functions) /\ Tail(r1) = rs /\ r1[1] = FnOf(a) /\ Len(r1) = Len(rs) + 1
    BY <1>2, ConsFacts, SMTT(20)
  <2>2. r2 \in Seq(Functions) /\ Tail(r2) = r1 /\ r2[1] = FnOf(b)
        /\ \A j \in 1 .. Len(r1) : r2[j + 1] = r1[j]
    BY <1>2, <2>1, ConsFacts, SMTT(20)
  <2>3. 1 \in 1 .. Len(r1) /\ 1 + 1 = 2
    BY <1>2, <2>1
  <2> QED
    BY <2>1, <2>2, <2>3
<1>4. w2 \in [0 .. Len(stack') -> Seq(Functions)]
  <2>1. ASSUME NEW i \in 0 .. n + 2 PROVE w2[i] \in Seq(Functions)
    <3>1. i > 2 => i - 2 \in 0 .. Len(stack)
      BY <1>1
    <3>2. i > 2 => w[i - 2] \in Seq(Functions)
      BY <3>1
    <3> QED
      BY <1>0, <1>1, <1>2, <1>3, <3>2
  <2>2. w2 = [i \in 0 .. n + 2 |-> w2[i]]
    BY <1>0
  <2> QED
    BY <1>1, <2>1, <2>2
<1>5. /\ w2[0] = rs /\ w2[1] = r1 /\ w2[2] = r2
      /\ \A i \in 3 .. n + 2 : w2[i] = w[i - 2]
  <2>1. n \in Nat
    BY <1>1
  <2> QED
    BY ONLY <1>0, <2>1
<1>6. \A r \in Nodes : Den(r)' = Den(r)
  BY SameArena
<1>7. \A e \in Frames :
        /\ FnOf(e)' = FnOf(e)
        /\ \A s : After(e, s)' = After(e, s)
        /\ \A s : CombineReady(e, s)' <=> CombineReady(e, s)
  BY <1>6, FramesStable
<1>8. w[1] = <<FnOf(c)>> \o rs
  <2>1. 1 \in 1 .. Len(stack) /\ 1 - 1 = 0 /\ stack[1] = Head(stack)
    BY <1>1
  <2>2. w[1] = After(stack[1], w[1 - 1])
    BY <2>1 DEF WorksOff
  <2>3. w[1] = After(Head(stack), rs)
    BY <2>1, <2>2
  <2> QED
    BY <2>3 DEF After
<1>9. ASSUME NEW i \in 1 .. Len(stack')
      PROVE  /\ w2[i] = After(stack[i], w2[i - 1])'
             /\ stack'[i].kind = "combine" => CombineReady(stack[i], w2[i - 1])'
  <2>1. CASE i = 1
    <3>1. After(a, rs) = r1 /\ After(a, rs)' = After(a, rs)
      BY <1>7 DEF After
    <3>2. i - 1 = 0 /\ w2[i] = r1 /\ w2[i - 1] = rs /\ stack'[i] = a
      BY ONLY <1>1, <1>5, <2>1
    <3>3. a.kind # "combine"
      OBVIOUS
    <3> QED
      BY <3>1, <3>2, <3>3
  <2>2. CASE i = 2
    <3>1. After(b, r1) = r2 /\ After(b, r1)' = After(b, r1)
      BY <1>7 DEF After
    <3>2. i - 1 = 1 /\ w2[i] = r2 /\ w2[i - 1] = r1 /\ stack'[i] = b
      BY <1>1, <1>5, <2>2
    <3> QED
      BY <3>1, <3>2
  <2>3. CASE i = 3
    <3>1. CombineReady(c, r2)
      OBVIOUS
    <3>2. After(c, r2) = <<FnOf(c)>> \o rs
      BY <1>3, <3>1 DEF After, CombineReady
    <3>3. After(c, r2)' = After(c, r2) /\ CombineReady(c, r2)'
      BY <1>7, <3>1
    <3>4. 3 \in 3 .. n + 2 /\ 3 - 2 = 1
      BY <1>1
    <3>5. w2[3] = w[1]
      BY <1>5, <3>4
    <3>6. i - 1 = 2 /\ w2[i] = w[1] /\ w2[i - 1] = r2 /\ stack'[i] = c
      BY ONLY <1>1, <1>5, <2>3, <3>5
    <3> QED
      BY <1>8, <3>2, <3>3, <3>6
  <2>4. CASE i >= 4
    <3> PICK e : e = stack[i - 2]
      OBVIOUS
    <3>0. PICK s : s = w[i - 3]
      OBVIOUS
    <3>1. i \in 4 .. n + 2 /\ i - 2 \in 1 .. n /\ (i - 2) - 1 = i - 3
          /\ i - 1 \in 3 .. n + 2 /\ (i - 1) - 2 = i - 3
      BY <1>1, <2>4
    <3>2. e \in Frames /\ stack'[i] = e
      BY <1>1, <3>1
    <3>3. w[i - 2] = After(e, s) /\ (e.kind = "combine" => CombineReady(e, s))
      BY <3>0, <3>1 DEF WorksOff
    <3>4. w2[i] = w[i - 2] /\ w2[i - 1] = s
      <4>1. i \in 3 .. n + 2
        BY <3>1
      <4> QED
        BY ONLY <1>5, <3>0, <3>1, <4>1
    <3> QED
      BY <1>7, <3>2, <3>3, <3>4
  <2> QED
    BY <1>1, <2>1, <2>2, <2>3, <2>4
<1>10. w2[n + 2] = <<FnOf(call)>>
  <2>1. n + 2 \in 3 .. n + 2 /\ (n + 2) - 2 = n
    BY <1>1
  <2>2. w2[n + 2] = w[n]
    BY <1>5, <2>1
  <2> QED
    BY <2>2 DEF WorksOff
<1>11. FnOf(call)' = FnOf(call)
  BY <1>6 DEF FnOf, Calls
<1>12. ResultFns' = rs
  <2>1. ResultFns' = ResultFns
    BY SameArena DEF ResultFns
  <2> QED
    BY <2>1 DEF WorksOff, ResultFns
<1>13. WorksOff(w2)'
  BY <1>1, <1>5, <1>9, <1>10, <1>11, <1>12 DEF WorksOff, ResultFns
<1> QED
  BY <1>4, <1>13 DEF HasRun
-----------------------------------------------------------------------------
(* The inductive invariant, and what keeps its parts. *)

CallInv ==
  /\ IInv
  /\ NoPanic
  /\ CacheSound
  /\ VarBytesFit
  /\ OnItsWay
  /\ pc = "loop" => HasRun

\* It is IInv with IteInv, the run in question being Pending.
LEMMA CallInvIsIteInv == CallInv <=> IInv /\ IteInv
<1>1. CallInv => IInv /\ IteInv
  BY PendingIsRun DEF CallInv, HasRun, IteInv, IInv
<1>2. IInv /\ IteInv => CallInv
  BY RunFromPending DEF CallInv, IteInv, IInv, ArenaInv
<1> QED
  BY <1>1, <1>2

LEMMA BytesKept ==
  ASSUME UNCHANGED <<arenaVars, numVars>>, VarBytesFit
  PROVE  VarBytesFit'
BY DEF arenaVars, VarBytesFit, Headers, VarOf

LEMMA CacheKept ==
  ASSUME CacheSound, Nodes \subseteq Nodes', \A r \in Nodes : Den(r)' = Den(r),
         UNCHANGED cache
  PROVE  CacheSound'
<1> SUFFICES ASSUME NEW s \in DOMAIN cache, cache[s] # EmptyEntry
             PROVE  /\ {cache[s].f, cache[s].g, cache[s].h, cache[s].r} \subseteq Nodes'
                    /\ Den(cache[s].r)'
                         = IteFn(Den(cache[s].f)', Den(cache[s].g)', Den(cache[s].h)')
  BY DEF CacheSound
<1> QED
  BY DEF CacheSound

\* A call goes on: nothing the call is to yield has moved.
LEMMA WayKept ==
  ASSUME CallTypeOK, OnItsWay, \A r \in Nodes : Den(r)' = Den(r),
         call' = call,
         \/ pc' = pc /\ (results' = results \/ pc = "loop")
         \/ pc = "probe" /\ pc' = "loop"
  PROVE  OnItsWay'
<1>1. CASE pc \in {"probe", "loop"}
  <2>1. call \in Calls
    BY <1>1 DEF CallTypeOK
  <2>2. FnOf(call)' = FnOf(call)
    BY <2>1 DEF FnOf, Calls
  <2>3. call.then # <<>> => call.then[1].f \in Nodes /\ call.then[1].h \in Nodes
    <3> SUFFICES ASSUME call.then # <<>>
                 PROVE  call.then[1].f \in Nodes /\ call.then[1].h \in Nodes
      OBVIOUS
    <3>1. PICK p \in [f : Nodes, h : Nodes] : call.then = <<p>>
      BY <2>1 DEF Calls
    <3>2. call.then[1] = p
      BY <3>1
    <3> QED
      BY <3>2
  <2>4. call.then # <<>> =>
          /\ Den(call.then[1].f)' = Den(call.then[1].f)
          /\ Den(call.then[1].h)' = Den(call.then[1].h)
    BY <2>3
  <2> QED
    BY <1>1, <2>2, <2>4 DEF OnItsWay
<1>2. CASE pc \notin {"probe", "loop"}
  BY <1>2 DEF OnItsWay
<1> QED
  BY <1>1, <1>2

\* A call that returns its function is answered, or is xor's and goes on to
\* the second call, which is to yield what was asked for.
LEMMA ReturnWay ==
  ASSUME CallTypeOK, OnItsWay, pc \in {"probe", "loop"},
         \A r \in Nodes : Den(r)' = Den(r),
         NEW r \in Nodes, Den(r) = FnOf(call), Return(r), results' = <<>>
  PROVE  OnItsWay' /\ pc' \in {"idle", "probe"}
<1>1. call \in Calls
  BY DEF CallTypeOK
<1>2. CASE call.then = <<>>
  BY <1>2 DEF Return, OnItsWay
<1>3. CASE call.then # <<>>
  <2>1. PICK p \in [f : Nodes, h : Nodes] : call.then = <<p>>
    BY <1>1, <1>3 DEF Calls
  <2>2. call.then[1] = p
    BY <2>1
  <2>3. /\ pc' = "probe"
        /\ call' = [call EXCEPT !.f = p.f, !.g = r, !.h = p.h, !.then = <<>>]
    BY <1>3, <2>2 DEF Return
  <2>4. /\ call'.f = p.f /\ call'.g = r /\ call'.h = p.h /\ call'.then = <<>>
        /\ call'.want = call.want
    BY <1>1, <2>3 DEF Calls
  <2>5. FnOf(call)' = IteFn(Den(p.f)', Den(r)', Den(p.h)')
    BY <2>4 DEF FnOf
  <2>6. FnOf(call)' = IteFn(Den(p.f), FnOf(call), Den(p.h))
    BY <2>5
  <2>7. call.want = IteFn(Den(p.f), FnOf(call), Den(p.h))
    BY <1>3, <2>2 DEF OnItsWay
  <2> QED
    BY <2>3, <2>4, <2>6, <2>7 DEF OnItsWay
<1> QED
  BY <1>2, <1>3
-----------------------------------------------------------------------------
(* The steps. *)

LEMMA InitCallInv == Init => CallInv
<1> SUFFICES ASSUME Init PROVE CallInv
  OBVIOUS
<1>1. IInv
  BY InitInv
<1>2. NoPanic /\ VarBytesFit /\ OnItsWay /\ pc # "loop"
  BY DEF Init, NoPanic, VarBytesFit, Headers, OnItsWay
<1>3. CacheSound
  BY DEF Init, CacheSound
<1> QED
  BY <1>1, <1>2, <1>3 DEF CallInv

LEMMA NewVarCallInv == CallInv /\ NewVar => CallInv'
<1> SUFFICES ASSUME CallInv, NewVar PROVE CallInv'
  OBVIOUS
<1> USE DEF CallInv
<1>1. /\ UNCHANGED <<buf, bufLen, den, cacheVars, held, loopVars>>
      /\ pc = "idle"
  BY DEF NewVar
<1>2. IInv'
  BY NewVarInv
<1>3. Nodes' = Nodes /\ \A r \in Nodes : Den(r)' = Den(r)
  BY <1>1 DEF Nodes, Headers, Den
<1>4. CacheSound'
  BY <1>1, <1>3, CacheKept DEF cacheVars
<1>5. VarBytesFit'
  BY <1>1 DEF VarBytesFit, Headers, VarOf
<1>6. OnItsWay'
  BY <1>1, <1>3, WayKept DEF IInv, loopVars
<1> QED
  BY <1>1, <1>2, <1>4, <1>5, <1>6 DEF NoPanic, loopVars

LEMMA ConstantCallInv ==
  ASSUME CallInv, NEW k \in Handles, Constant(k)
  PROVE  CallInv'
<1> USE DEF CallInv
<1>1. UNCHANGED <<arenaVars, numVars, cacheVars, loopVars>> /\ pc = "idle"
  BY DEF Constant
<1>2. IInv'
  BY ConstantInv
<1>3. Nodes' = Nodes /\ \A r \in Nodes : Den(r)' = Den(r)
  BY <1>1, SameArena
<1>4. CacheSound'
  BY <1>1, <1>3, CacheKept DEF cacheVars
<1>5. VarBytesFit'
  BY <1>1, BytesKept
<1>6. OnItsWay'
  BY <1>1, <1>3, WayKept DEF IInv, loopVars
<1> QED
  BY <1>1, <1>2, <1>4, <1>5, <1>6 DEF NoPanic, loopVars

\* The var byte of a node make_node appends fits.
LEMMA MakeNodeBytes ==
  ASSUME ArenaInv, VarBytesFit, NEW v \in 0 .. numVars - 1, NEW lo \in Nodes,
         NEW hi \in Nodes, NEW r, MakeNode(v, lo, hi, r)
  PROVE  VarBytesFit'
<1>1. CASE UNCHANGED arenaVars
  BY <1>1 DEF arenaVars, VarBytesFit, Headers, VarOf
<1>2. CASE AppendNode(v, lo, hi)
  <2> PICK n : n = bufLen
    OBVIOUS
  <2>1. /\ Headers' = Headers \cup {n}
        /\ VarOf(n)' = v % VarRadix
        /\ \A o \in Headers : VarOf(o)' = VarOf(o)
    BY <1>2, AppendFacts DEF ArenaInv
  <2>2. v % VarRadix < VarRadix
    BY CodecAssumption DEF ArenaInv, ArenaTypeOK, BytesTypeOK
  <2> QED
    BY <2>1, <2>2 DEF VarBytesFit
<1> QED
  BY <1>1, <1>2 DEF MakeNode

LEMMA CallMakeNodeCallInv ==
  ASSUME CallInv, VarsFit, NEW k \in Handles, CallMakeNode(k)
  PROVE  CallInv'
<1> USE DEF CallInv
<1>1. PICK v \in 0 .. numVars - 1, lo \in Operands, hi \in Operands, r \in Refs :
        ~ MakeNodePanics(v, lo, hi) /\ MakeNode(v, lo, hi, r)
  BY DEF CallMakeNode
<1>2. UNCHANGED <<numVars, cacheVars, loopVars>> /\ pc = "idle"
  BY DEF CallMakeNode, CanCall
<1>3. v \in Nat /\ lo \in Nodes /\ hi \in Nodes
  BY <1>1, OperandsLive DEF IInv
<1>4. Nodes \subseteq Nodes' /\ \A x \in Nodes : Den(x)' = Den(x)
  BY <1>1, <1>2, <1>3, MakeNodeInv DEF IInv
<1>5. IInv'
  BY CallMakeNodeInv
<1>6. CacheSound'
  BY <1>2, <1>4, CacheKept DEF cacheVars
<1>7. VarBytesFit'
  BY <1>1, <1>3, MakeNodeBytes DEF IInv
<1>8. OnItsWay'
  BY <1>2, <1>4, WayKept DEF IInv, loopVars
<1> QED
  BY <1>2, <1>5, <1>6, <1>7, <1>8 DEF NoPanic, loopVars

\* A call is on its way when its operands, or xor's second, give what is asked.
LEMMA StartIteCallInv ==
  ASSUME CallInv, NEW k \in Handles, NEW f \in Operands, NEW g \in Operands,
         NEW h \in Operands,
         NEW then \in {<<>>} \cup {<<p>> : p \in [f : Nodes, h : Nodes]},
         NEW D \in Functions, StartIte(k, f, g, h, then, D),
         D = IF then = <<>> THEN IteFn(Den(f), Den(g), Den(h))
             ELSE IteFn(Den(then[1].f), IteFn(Den(f), Den(g), Den(h)), Den(then[1].h))
  PROVE  CallInv'
<1> USE DEF CallInv
<1>1. /\ UNCHANGED <<arenaVars, numVars, cacheVars, held, stack, results>>
      /\ pc = "idle" /\ pc' = "probe"
      /\ call' = [dest |-> k, f |-> f, g |-> g, h |-> h, then |-> then, want |-> D]
  BY DEF StartIte, CanCall
<1>2. IInv'
  BY StartIteInv
<1>3. Nodes' = Nodes /\ \A r : Den(r)' = Den(r)
  BY <1>1, SameArena
<1>4. CacheSound'
  BY <1>1, <1>3, CacheKept DEF cacheVars
<1>5. VarBytesFit'
  BY <1>1, BytesKept
<1>6. OnItsWay'
  <2>1. /\ call'.f = f /\ call'.g = g /\ call'.h = h /\ call'.then = then
        /\ call'.want = D
    BY <1>1
  <2>2. FnOf(call)' = IteFn(Den(f)', Den(g)', Den(h)')
    BY <2>1 DEF FnOf
  <2>3. FnOf(call)' = IteFn(Den(f), Den(g), Den(h))
    BY <1>3, <2>2
  <2>4. results' = <<>>
    BY <1>1 DEF OnItsWay
  <2>5. call'.want = IF call'.then = <<>>
                     THEN FnOf(call)'
                     ELSE IteFn(Den(then[1].f)', FnOf(call)', Den(then[1].h)')
    BY <1>3, <2>1, <2>3
  <2> QED
    BY <1>1, <2>1, <2>4, <2>5 DEF OnItsWay
<1> QED
  BY <1>1, <1>2, <1>4, <1>5, <1>6 DEF NoPanic

\* NOT, AND, OR and XOR are the if-then-elses they are called with.
LEMMA OperatorsAreIte ==
  ASSUME NEW F \in Functions, NEW G \in Functions
  PROVE  /\ IteFn(F, FalseFn, TrueFn) = TrueFn \ F
         /\ IteFn(F, G, FalseFn) = F \cap G
         /\ IteFn(F, TrueFn, G) = F \cup G
         /\ IteFn(F, TrueFn \ G, G) = XorFn(F, G)
BY DEF IteFn, XorFn, FalseFn, TrueFn, Functions

LEMMA CallsCallInv ==
  ASSUME CallInv, NEW k \in Handles,
         Not(k) \/ And(k) \/ Or(k) \/ Xor(k) \/ Ite(k)
  PROVE  CallInv'
<1>1. TrueRef \in Operands /\ FalseRef \in Operands
  BY DEF Operands, Terminals
<1>2. \A f \in Operands : f \in Nodes /\ Den(f) \in Functions
  BY OperandsLive, DenType DEF CallInv, IInv, ArenaInv
<1>3. Den(TrueRef) = TrueFn /\ Den(FalseRef) = FalseFn
  BY DEF Den, TrueRef, FalseRef
<1>4. \A F, G, H \in Functions :
        {TrueFn \ F, F \cap G, F \cup G, XorFn(F, G), IteFn(F, G, H)}
          \subseteq Functions
  BY DEF Functions, TrueFn, XorFn, IteFn
<1>5. CASE Not(k)
  <2>1. PICK f \in Operands :
          StartIte(k, f, FalseRef, TrueRef, <<>>, TrueFn \ Den(f))
    BY <1>5 DEF Not
  <2>2. TrueFn \ Den(f) \in Functions
        /\ TrueFn \ Den(f) = IteFn(Den(f), Den(FalseRef), Den(TrueRef))
    BY <1>2, <1>3, <1>4, OperatorsAreIte
  <2> QED
    BY <1>1, <2>1, <2>2, StartIteCallInv
<1>6. CASE And(k)
  <2>1. PICK f \in Operands, g \in Operands :
          StartIte(k, f, g, FalseRef, <<>>, Den(f) \cap Den(g))
    BY <1>6 DEF And
  <2>2. Den(f) \cap Den(g) \in Functions
        /\ Den(f) \cap Den(g) = IteFn(Den(f), Den(g), Den(FalseRef))
    BY <1>2, <1>3, <1>4, OperatorsAreIte
  <2> QED
    BY <1>1, <2>1, <2>2, StartIteCallInv
<1>7. CASE Or(k)
  <2>1. PICK f \in Operands, g \in Operands :
          StartIte(k, f, TrueRef, g, <<>>, Den(f) \cup Den(g))
    BY <1>7 DEF Or
  <2>2. Den(f) \cup Den(g) \in Functions
        /\ Den(f) \cup Den(g) = IteFn(Den(f), Den(TrueRef), Den(g))
    BY <1>2, <1>3, <1>4, OperatorsAreIte
  <2> QED
    BY <1>1, <2>1, <2>2, StartIteCallInv
<1>8. CASE Xor(k)
  <2>1. PICK f \in Operands, g \in Operands :
          StartIte(k, g, FalseRef, TrueRef, <<[f |-> f, h |-> g]>>,
                   XorFn(Den(f), Den(g)))
    BY <1>8 DEF Xor
  <2> PICK then : then = <<[f |-> f, h |-> g]>>
    OBVIOUS
  <2>2. then \in {<<p>> : p \in [f : Nodes, h : Nodes]} /\ then # <<>>
        /\ then[1].f = f /\ then[1].h = g
    <3>1. [f |-> f, h |-> g] \in [f : Nodes, h : Nodes]
      BY <1>2
    <3> QED
      BY <3>1
  <2>3. XorFn(Den(f), Den(g)) \in Functions
    BY <1>2, <1>4
  <2>4. XorFn(Den(f), Den(g))
          = IteFn(Den(then[1].f), IteFn(Den(g), Den(FalseRef), Den(TrueRef)),
                  Den(then[1].h))
    <3>1. Den(f) \in Functions /\ Den(g) \in Functions
      BY <1>2
    <3>2. IteFn(Den(g), FalseFn, TrueFn) = TrueFn \ Den(g)
      BY <3>1, OperatorsAreIte
    <3>3. IteFn(Den(f), TrueFn \ Den(g), Den(g)) = XorFn(Den(f), Den(g))
      BY <3>1, OperatorsAreIte
    <3> QED
      BY <1>3, <2>2, <3>2, <3>3
  <2> QED
    BY <1>1, <2>1, <2>2, <2>3, <2>4, StartIteCallInv
<1>9. CASE Ite(k)
  <2>1. PICK f \in Operands, g \in Operands, h \in Operands :
          StartIte(k, f, g, h, <<>>, IteFn(Den(f), Den(g), Den(h)))
    BY <1>9 DEF Ite
  <2>2. IteFn(Den(f), Den(g), Den(h)) \in Functions
    BY <1>2, <1>4
  <2> QED
    BY <2>1, <2>2, StartIteCallInv
<1> QED
  BY <1>5, <1>6, <1>7, <1>8, <1>9

LEMMA IteKnownCallInv == CallInv /\ IteKnown => CallInv'
<1> SUFFICES ASSUME CallInv, IteKnown PROVE CallInv'
  OBVIOUS
<1> USE DEF CallInv
<1>1. /\ pc = "probe" /\ call \in Calls
      /\ UNCHANGED <<arenaVars, numVars, cacheVars, stack, results>>
  BY DEF IteKnown, IInv, CallTypeOK
<1>2. IInv'
  BY IteKnownInv
<1>3. Nodes' = Nodes /\ \A r \in Nodes : Den(r)' = Den(r)
  BY <1>1, SameArena
<1>4. CacheSound' /\ VarBytesFit'
  BY <1>1, <1>3, CacheKept, BytesKept DEF cacheVars
<1>5. PICK r \in Known(call.f, call.g, call.h) : Return(r)
  BY DEF IteKnown
<1>6. r \in Nodes /\ Den(r) = FnOf(call)
  BY <1>1, <1>5, KnownSound DEF Calls, FnOf, IInv, ArenaInv
<1>7. results' = <<>>
  BY <1>1 DEF OnItsWay
<1>8. OnItsWay' /\ pc' \in {"idle", "probe"}
  BY <1>1, <1>3, <1>5, <1>6, <1>7, ReturnWay DEF IInv
<1> QED
  BY <1>2, <1>4, <1>8 DEF NoPanic

LEMMA IteBeginCallInv == CallInv /\ IteBegin => CallInv'
<1> SUFFICES ASSUME CallInv, IteBegin PROVE CallInv'
  OBVIOUS
<1> USE DEF CallInv
<1>1. /\ pc = "probe" /\ call \in Calls /\ pc' = "loop"
      /\ stack' = <<Enter(call.f, call.g, call.h)>>
      /\ UNCHANGED <<arenaVars, numVars, cacheVars, held, call, results>>
  BY DEF IteBegin, IInv, CallTypeOK
<1>2. IInv'
  BY IteBeginInv
<1>3. Nodes' = Nodes /\ \A r \in Nodes : Den(r)' = Den(r)
  BY <1>1, SameArena
<1>4. CacheSound' /\ VarBytesFit'
  BY <1>1, <1>3, CacheKept, BytesKept DEF cacheVars
<1>5. results = <<>>
  BY <1>1 DEF OnItsWay
<1>6. FnOf(call)' = FnOf(call)
  BY <1>1, <1>3 DEF FnOf, Calls
<1>7. OnItsWay'
  BY <1>1, <1>3, WayKept DEF IInv
<1>8. HasRun'
  <2> PICK e : e = Enter(call.f, call.g, call.h)
    OBVIOUS
  <2> PICK D : D = FnOf(call)
    OBVIOUS
  <2> PICK w : w = [i \in 0 .. 1 |-> IF i = 0 THEN <<>> ELSE <<D>>]
    OBVIOUS
  <2>1. e.kind = "enter" /\ e.f = call.f /\ e.g = call.g /\ e.h = call.h
    BY DEF Enter
  <2>2. FnOf(e)' = IteFn(Den(e.f)', Den(e.g)', Den(e.h)')
    BY DEF FnOf
  <2>3. FnOf(e)' = D
    BY <1>1, <1>3, <2>1, <2>2 DEF FnOf, Calls
  <2>4. D \in Functions
    BY <1>1, FnOfType DEF IInv, ArenaInv, Calls
  <2>5. Len(stack') = 1 /\ stack'[1] = e
    BY <1>1
  <2>6. w[0] = <<>> /\ w[1] = <<D>>
    OBVIOUS
  <2>7. w \in [0 .. 1 -> Seq(Functions)]
    <3>1. << >> \in Seq(Functions)
      OBVIOUS
    <3>2. <<D>> \in Seq(Functions)
      BY <2>4
    <3> QED
      BY <3>1, <3>2
  <2>8. After(e, <<>>)' = <<D>>
    <3>1. <<D>> \o <<>> = <<D>>
      OBVIOUS
    <3> QED
      BY <2>1, <2>3, <3>1 DEF After
  <2>9. ResultFns' = <<>>
    BY <1>1, <1>5 DEF ResultFns
  <2>10. WorksOff(w)'
    <3>1. \A i \in 1 .. Len(stack') : i = 1 /\ i - 1 = 0
      BY <2>5
    <3>2. stack'[1].kind # "combine"
      BY <2>1, <2>5
    <3>3. w[1] = After(stack[1], w[0])'
      BY <2>5, <2>6, <2>8
    <3>4. w[0] = ResultFns'
      BY <2>6, <2>9
    <3>5. w[Len(stack')] = <<FnOf(call)'>>
      BY <1>6, <2>5, <2>6
    <3>6. ASSUME NEW i \in 1 .. Len(stack')
          PROVE  /\ w[i] = After(stack[i], w[i - 1])'
                 /\ stack'[i].kind = "combine" => CombineReady(stack[i], w[i - 1])'
      <4>1. i = 1 /\ i - 1 = 0
        BY <3>1
      <4> QED
        BY <3>2, <3>3, <4>1
    <3> QED
      BY <3>4, <3>5, <3>6 DEF WorksOff, ResultFns
  <2> QED
    BY <2>5, <2>7, <2>10 DEF HasRun
<1> QED
  BY <1>1, <1>2, <1>4, <1>7, <1>8 DEF NoPanic

LEMMA IteEnterKnownCallInv == CallInv /\ IteEnterKnown => CallInv'
<1> SUFFICES ASSUME CallInv, IteEnterKnown PROVE CallInv'
  OBVIOUS
<1> USE DEF CallInv
<1> DEFINE e == Head(stack)
<1>1. /\ pc = "loop" /\ stack # <<>> /\ pc' = pc /\ stack' = Tail(stack)
      /\ e.kind = "enter"
      /\ UNCHANGED <<arenaVars, numVars, cacheVars, held, call>>
  BY DEF IteEnterKnown, PopEnter
<1>2. IInv'
  BY IteEnterKnownInv
<1>3. Nodes' = Nodes /\ \A r \in Nodes : Den(r)' = Den(r)
  BY <1>1, SameArena
<1>4. CacheSound' /\ VarBytesFit'
  BY <1>1, <1>3, CacheKept, BytesKept DEF cacheVars
<1>5. OnItsWay'
  BY <1>1, <1>3, WayKept DEF IInv
<1>6. PICK r \in Known(e.f, e.g, e.h) : results' = <<r>> \o results
  BY DEF IteEnterKnown
<1>7. r \in Nodes /\ Den(r) = FnOf(e)
  <2>1. e.f \in Nodes /\ e.g \in Nodes /\ e.h \in Nodes
    BY <1>1, HeadType DEF IInv
  <2> QED
    BY <1>6, <2>1, KnownSound DEF FnOf, IInv, ArenaInv
<1> HIDE DEF e
<1>8. PICK w \in [0 .. Len(stack) -> Seq(Functions)] : WorksOff(w)
  BY <1>1 DEF HasRun
<1>9. ResultFns' = w[1]
  <2>1. results \in Seq(Nodes) /\ stack \in Seq(Frames) /\ Len(results) \in Nat
    BY DEF IInv, CallTypeOK
  <2> PICK D : D = Den(r)
    OBVIOUS
  <2> PICK rs : rs = ResultFns
    OBVIOUS
  <2>2. /\ rs \in Seq(Functions) /\ Len(rs) = Len(results) /\ D \in Functions
        /\ \A j \in 1 .. Len(results) : rs[j] = Den(results[j])
    BY <1>7, ResultFnsType, DenType DEF IInv, ArenaInv
  <2>3. w[1] = <<D>> \o rs
    <3>1. 1 \in 1 .. Len(stack) /\ 1 - 1 = 0 /\ stack[1] = e
      BY <1>1, <2>1 DEF e
    <3>2. w[0] = rs
      BY <1>8 DEF WorksOff, ResultFns
    <3>3. w[1] = After(e, rs)
      BY <1>8, <3>1, <3>2 DEF WorksOff
    <3> QED
      BY <1>1, <1>7, <3>3 DEF After, e
  <2> PICK d : d = <<D>> \o rs
    OBVIOUS
  <2>4. /\ d \in Seq(Functions) /\ Len(d) = Len(results) + 1 /\ d[1] = D
        /\ \A j \in 1 .. Len(results) : d[j + 1] = rs[j]
    BY <2>2, ConsFacts
  <2>5. /\ results' \in Seq(Nodes) /\ Len(results') = Len(results) + 1
        /\ results'[1] = r
        /\ \A j \in 1 .. Len(results) : results'[j + 1] = results[j]
    BY <1>6, <1>7, <2>1, ConsFacts
  <2>6. ASSUME NEW j \in 1 .. Len(results) + 1 PROVE Den(results[j])' = d[j]
    <3>1. CASE j = 1
      <4>1. Den(r)' = D
        BY <1>3, <1>7
      <4> QED
        BY <2>4, <2>5, <3>1, <4>1
    <3>2. CASE j # 1
      <4> PICK i : i = j - 1
        OBVIOUS
      <4> PICK x : x = results[i]
        OBVIOUS
      <4>1. i \in 1 .. Len(results) /\ i + 1 = j
        BY <2>1, <3>2
      <4>2. results'[j] = x /\ x \in Nodes /\ d[j] = Den(x)
        BY <2>1, <2>2, <2>4, <2>5, <4>1
      <4>3. Den(x)' = Den(x)
        BY <1>3, <4>2
      <4> QED
        BY <4>2, <4>3
    <3> QED
      BY <3>1, <3>2
  <2>7. DOMAIN results' = 1 .. Len(results) + 1
    BY <2>5
  <2>8. ResultFns' = [j \in 1 .. Len(results) + 1 |-> d[j]]
    BY <2>6, <2>7 DEF ResultFns
  <2>9. d = [j \in 1 .. Len(results) + 1 |-> d[j]]
    BY <2>4
  <2> QED
    BY <2>3, <2>8, <2>9
<1>10. call \in Calls
  BY <1>1 DEF IInv, CallTypeOK
<1>11. HasRun'
  BY <1>1, <1>3, <1>8, <1>9, <1>10, PopRun DEF IInv
<1> QED
  BY <1>1, <1>2, <1>4, <1>5, <1>11 DEF NoPanic

\* The function of a reference is that of its cofactors.
LEMMA CofactorShannon ==
  ASSUME ArenaInv, NEW v \in Vars
  PROVE  \A r \in Nodes : ~ CofactorPanics(r, v) =>
           /\ Den(r) = Shannon(v, Den(Cofactor(r, v, FALSE)),
                                  Den(Cofactor(r, v, TRUE)))
           /\ \A val \in BOOLEAN :
                /\ Den(Cofactor(r, v, val)) \in Functions
                /\ \A u \in 0 .. v : IndependentOf(Den(Cofactor(r, v, val)), u)
<1> SUFFICES ASSUME NEW r \in Nodes, ~ CofactorPanics(r, v)
             PROVE  /\ Den(r) = Shannon(v, Den(Cofactor(r, v, FALSE)),
                                           Den(Cofactor(r, v, TRUE)))
                    /\ \A val \in BOOLEAN :
                         /\ Den(Cofactor(r, v, val)) \in Functions
                         /\ \A u \in 0 .. v :
                              IndependentOf(Den(Cofactor(r, v, val)), u)
  OBVIOUS
<1>1. \A val \in BOOLEAN : Cofactor(r, v, val) \in Nodes
  BY CofactorType DEF ArenaInv
<1>2. \A x \in Nodes : Den(x) \in Functions
  BY DenType DEF ArenaInv
<1>3. Den(r) = Shannon(v, Den(Cofactor(r, v, FALSE)), Den(Cofactor(r, v, TRUE)))
  BY CofactorFns
<1>4. \A val \in BOOLEAN, u \in 0 .. v :
        IndependentOf(Den(Cofactor(r, v, val)), u)
  BY CofactorFns
<1> QED
  BY <1>1, <1>2, <1>3, <1>4

\* A frame's function is the expansion of those of its cofactors.
LEMMA ExpandFns ==
  ASSUME ArenaInv, NEW e, NEW a, NEW b, NEW tv \in Vars,
         e.f \in Nodes, e.g \in Nodes, e.h \in Nodes,
         ~ CofactorPanics(e.f, tv), ~ CofactorPanics(e.g, tv),
         ~ CofactorPanics(e.h, tv),
         a.f = Cofactor(e.f, tv, FALSE), b.f = Cofactor(e.f, tv, TRUE),
         a.g = Cofactor(e.g, tv, FALSE), b.g = Cofactor(e.g, tv, TRUE),
         a.h = Cofactor(e.h, tv, FALSE), b.h = Cofactor(e.h, tv, TRUE)
  PROVE  /\ FnOf(e) = Shannon(tv, FnOf(a), FnOf(b))
         /\ \A u \in 0 .. tv : IndependentOf(FnOf(a), u) /\ IndependentOf(FnOf(b), u)
<1> PICK F0 : F0 = Den(a.f)
  OBVIOUS
<1> PICK F1 : F1 = Den(b.f)
  OBVIOUS
<1> PICK G0 : G0 = Den(a.g)
  OBVIOUS
<1> PICK G1 : G1 = Den(b.g)
  OBVIOUS
<1> PICK H0 : H0 = Den(a.h)
  OBVIOUS
<1> PICK H1 : H1 = Den(b.h)
  OBVIOUS
<1>0. \A r \in Nodes : ~ CofactorPanics(r, tv) =>
        /\ Den(r) = Shannon(tv, Den(Cofactor(r, tv, FALSE)),
                                Den(Cofactor(r, tv, TRUE)))
        /\ \A val \in BOOLEAN :
             /\ Den(Cofactor(r, tv, val)) \in Functions
             /\ \A u \in 0 .. tv : IndependentOf(Den(Cofactor(r, tv, val)), u)
  BY CofactorShannon
<1>1. /\ Den(e.f) = Shannon(tv, F0, F1) /\ F0 \in Functions /\ F1 \in Functions
      /\ \A u \in 0 .. tv : IndependentOf(F0, u) /\ IndependentOf(F1, u)
  BY <1>0
<1>2. /\ Den(e.g) = Shannon(tv, G0, G1) /\ G0 \in Functions /\ G1 \in Functions
      /\ \A u \in 0 .. tv : IndependentOf(G0, u) /\ IndependentOf(G1, u)
  BY <1>0
<1>3. /\ Den(e.h) = Shannon(tv, H0, H1) /\ H0 \in Functions /\ H1 \in Functions
      /\ \A u \in 0 .. tv : IndependentOf(H0, u) /\ IndependentOf(H1, u)
  BY <1>0
<1>4. FnOf(a) = IteFn(F0, G0, H0) /\ FnOf(b) = IteFn(F1, G1, H1)
  BY DEF FnOf
<1>5. FnOf(e) = Shannon(tv, FnOf(a), FnOf(b))
  <2>1. IteFn(Shannon(tv, F0, F1), Shannon(tv, G0, G1), Shannon(tv, H0, H1))
          = Shannon(tv, IteFn(F0, G0, H0), IteFn(F1, G1, H1))
    <3>1. /\ F0 \in Functions /\ F1 \in Functions /\ G0 \in Functions
          /\ G1 \in Functions /\ H0 \in Functions /\ H1 \in Functions
      BY <1>1, <1>2, <1>3
    <3> QED
      BY ONLY <3>1, IteOfShannon
  <2> QED
    BY <1>1, <1>2, <1>3, <1>4, <2>1 DEF FnOf
<1>6. ASSUME NEW u \in 0 .. tv
      PROVE  IndependentOf(FnOf(a), u) /\ IndependentOf(FnOf(b), u)
  <2>1. u \in Vars
    BY MaxVarsAssumption DEF Vars
  <2> QED
    BY <1>1, <1>2, <1>3, <1>4, <2>1, IteIndependent, ZenonT(40)
<1> QED
  BY <1>5, <1>6

LEMMA IteExpandCallInv == CallInv /\ IteExpand => CallInv'
<1> SUFFICES ASSUME CallInv, IteExpand PROVE CallInv'
  OBVIOUS
<1> USE DEF CallInv
<1> PICK e : e = Head(stack)
  OBVIOUS
<1> PICK tv : tv = TopVar({e.f, e.g, e.h})
  OBVIOUS
<1>1. /\ pc = "loop" /\ stack # <<>> /\ results' = results /\ e.kind = "enter"
      /\ UNCHANGED <<arenaVars, numVars, cacheVars, held, call>>
      /\ Known(e.f, e.g, e.h) = {}
  BY DEF IteExpand, PopEnter
<1>2. e.f \in Nodes /\ e.g \in Nodes /\ e.h \in Nodes
  BY <1>1, HeadType DEF IInv
<1>3. /\ tv \in Vars /\ tv < numVars /\ tv < VarRadix
      /\ ~ CofactorPanics(e.f, tv) /\ ~ CofactorPanics(e.g, tv)
      /\ ~ CofactorPanics(e.h, tv)
  <2>1. Trivial(e.f, e.g, e.h) = {}
    BY <1>1 DEF Known
  <2>2. /\ tv \in Vars
        /\ \A r \in {e.f, e.g, e.h} : ~ CofactorPanics(r, tv)
    <3>1. BytesTypeOK /\ Reduced
      BY DEF IInv, ArenaInv
    <3>2. tv = TopVar({e.f, e.g, e.h})
      OBVIOUS
    <3> QED
      BY ONLY <1>2, <2>1, <3>1, <3>2, FrameTopVar
  <2>3. \E o \in Headers : tv = VarOf(o)
    BY <1>2, <2>1, TopVarOfNode DEF IInv, ArenaInv
  <2> QED
    BY <2>2, <2>3, NodeFacts DEF IInv, VarBytesFit
<1> PICK a : a = EnterCofactors(e, tv, FALSE)
  OBVIOUS
<1> PICK b : b = EnterCofactors(e, tv, TRUE)
  OBVIOUS
<1> PICK c : c = Combine(e.f, e.g, e.h, tv)
  OBVIOUS
<1>4. pc' = pc /\ stack' = <<a, b, c>> \o Tail(stack)
  BY <1>3 DEF IteExpand
<1>5. IInv'
  BY IteExpandInv
<1>6. Nodes' = Nodes /\ \A r \in Nodes : Den(r)' = Den(r)
  BY <1>1, SameArena
<1>7. CacheSound' /\ VarBytesFit'
  BY <1>1, <1>6, CacheKept, BytesKept DEF cacheVars
<1>8. OnItsWay'
  BY <1>1, <1>4, <1>6, WayKept DEF IInv
<1>9. /\ a \in Frames /\ a.kind = "enter"
      /\ a.f = Cofactor(e.f, tv, FALSE)
      /\ a.g = Cofactor(e.g, tv, FALSE)
      /\ a.h = Cofactor(e.h, tv, FALSE)
  BY <1>2, <1>3, CofactorType DEF EnterCofactors, Enter, Frames, IInv, ArenaInv
<1>10. /\ b \in Frames /\ b.kind = "enter"
       /\ b.f = Cofactor(e.f, tv, TRUE)
       /\ b.g = Cofactor(e.g, tv, TRUE)
       /\ b.h = Cofactor(e.h, tv, TRUE)
  BY <1>2, <1>3, CofactorType DEF EnterCofactors, Enter, Frames, IInv, ArenaInv
<1>11. /\ c \in Frames /\ c.kind = "combine"
       /\ c.f = e.f /\ c.g = e.g /\ c.h = e.h /\ c.tv = tv
  BY <1>2, <1>3 DEF Combine, Frames
<1>12. FnOf(c) = FnOf(e)
  BY <1>11 DEF FnOf
<1>13. /\ FnOf(e) = Shannon(tv, FnOf(a), FnOf(b))
       /\ \A u \in 0 .. tv : IndependentOf(FnOf(a), u) /\ IndependentOf(FnOf(b), u)
  <2> HIDE DEF CallInv
  <2>1. ArenaInv
    BY DEF CallInv, IInv
  <2>2. /\ tv \in Vars /\ ~ CofactorPanics(e.f, tv)
        /\ ~ CofactorPanics(e.g, tv) /\ ~ CofactorPanics(e.h, tv)
    BY <1>3
  <2> QED
    BY ONLY <1>2, <1>9, <1>10, <2>1, <2>2, ExpandFns
<1>14. PICK w \in [0 .. Len(stack) -> Seq(Functions)] : WorksOff(w)
  BY <1>1 DEF HasRun
<1>15. CombineReady(c, <<FnOf(b)>> \o (<<FnOf(a)>> \o w[0]))
  <2>1. w[0] \in Seq(Functions)
    <3>1. 0 \in 0 .. Len(stack)
      BY DEF IInv, CallTypeOK
    <3> QED
      BY <3>1
  <2>2. FnOf(a) \in Functions /\ FnOf(b) \in Functions
    BY <1>9, <1>10, FnOfType DEF Frames, IInv, ArenaInv
  <2> PICK x : x = FnOf(a)
    OBVIOUS
  <2> PICK y : y = FnOf(b)
    OBVIOUS
  <2> PICK rs : rs = w[0]
    OBVIOUS
  <2> PICK r2 : r2 = <<y>> \o (<<x>> \o rs)
    OBVIOUS
  <2>3. Len(r2) >= 2 /\ r2[1] = FnOf(b) /\ r2[2] = FnOf(a)
    <3>1. x \in Functions /\ y \in Functions /\ rs \in Seq(Functions)
      BY <2>1, <2>2
    <3>2. Len(r2) >= 2 /\ r2[1] = y /\ r2[2] = x
      BY ONLY <3>1, r2 = <<y>> \o (<<x>> \o rs), ConsTwice
    <3> QED
      BY <3>2
  <2>4. c.tv < numVars /\ c.tv < VarRadix
    BY <1>3, <1>11
  <2>5. \A u \in 0 .. c.tv : IndependentOf(r2[1], u) /\ IndependentOf(r2[2], u)
    BY <1>11, <1>13, <2>3
  <2>6. FnOf(c) = Shannon(c.tv, r2[2], r2[1])
    BY <1>11, <1>12, <1>13, <2>3
  <2>7. CombineReady(c, r2)
    <3> HIDE DEF CallInv, FnOf
    <3> QED
      BY <2>3, <2>4, <2>5, <2>6 DEF CombineReady
  <2> QED
    BY <2>7
<1>16. call \in Calls
  BY <1>1 DEF IInv, CallTypeOK
<1>17. HasRun'
  <2>1. UNCHANGED <<arenaVars, numVars, call, results>>
    BY <1>1
  <2>2. Head(stack).kind = "enter" /\ FnOf(Head(stack)) = FnOf(c)
    BY <1>1, <1>12
  <2>3. ArenaTypeOK /\ CallTypeOK
    BY DEF IInv, ArenaInv
  <2>4. stack # <<>> /\ stack' = <<a, b, c>> \o Tail(stack)
    BY <1>1, <1>4
  <2>5. a.kind = "enter" /\ b.kind = "enter" /\ c.kind = "combine"
    BY <1>9, <1>10, <1>11
  <2>6. a \in Frames /\ b \in Frames /\ c \in Frames
    BY <1>9, <1>10, <1>11
  <2>7. WorksOff(w)
    BY <1>14
  <2> HIDE DEF CallInv
  <2> QED
    BY <1>15, <1>16, <2>1, <2>2, <2>3, <2>4, <2>5, <2>6, <2>7, ExpandRun, ZenonT(40)
<1> QED
  BY <1>1, <1>4, <1>5, <1>7, <1>8, <1>17 DEF NoPanic

\* A Combine's make_node finds children in the order, and so never panics.
LEMMA CombineSafe ==
  ASSUME ArenaInv, NEW c \in Frames, c.kind = "combine",
         NEW lo \in Nodes, NEW hi \in Nodes, NEW rs,
         rs[1] = Den(hi), rs[2] = Den(lo), CombineReady(c, rs)
  PROVE  /\ ~ MakeNodePanics(c.tv, lo, hi)
         /\ c.tv \in 0 .. numVars - 1
         /\ FnOf(c) = Shannon(c.tv, Den(lo), Den(hi))
<1>1. c.tv \in Vars /\ c.tv < numVars /\ c.tv < VarRadix
      /\ c.tv \in 0 .. numVars - 1
  BY MaxVarsAssumption DEF CombineReady, Frames, Vars, ArenaInv, ArenaTypeOK, BytesTypeOK
<1>2. \A u \in 0 .. c.tv : IndependentOf(Den(lo), u) /\ IndependentOf(Den(hi), u)
  BY DEF CombineReady
<1>3. (IsNode(lo) => VarOf(lo) > c.tv) /\ (IsNode(hi) => VarOf(hi) > c.tv)
  BY <1>1, <1>2, AfterInOrder
<1>4. \A x \in {lo, hi} : IsNode(x) =>
        x < bufLen /\ x \in Nat /\ VarOf(x) \in Vars /\ VarOf(x) > c.tv
  BY <1>3, HeaderType DEF Nodes, IsNode, ArenaInv
<1>5. bufLen \in Nat /\ c.tv \in Nat /\ numVars \in Nat
  BY <1>1, MaxVarsAssumption, CodecAssumption DEF ArenaInv, ArenaTypeOK, BytesTypeOK, Vars
<1>6. ~ EncodePanics(c.tv, lo, hi)
  BY <1>1, <1>4, <1>5, CodecAssumption DEF EncodePanics
<1>7. \A x \in {lo, hi} : ~ (IsNode(x) /\ VarOf(x) <= c.tv)
  BY <1>4, <1>5, MaxVarsAssumption DEF Vars
<1>8. ~ (c.tv >= numVars)
  BY <1>1, <1>5
<1>9. ~ MakeNodePanics(c.tv, lo, hi)
  <2> HIDE DEF EncodePanics
  <2> QED
    BY <1>6, <1>7, <1>8 DEF MakeNodePanics
<1>10. FnOf(c) = Shannon(c.tv, Den(lo), Den(hi))
  <2> HIDE DEF FnOf
  <2> QED
    BY DEF CombineReady
<1> QED
  BY <1>1, <1>9, <1>10

\* Two results off the top and one back.
LEMMA ReplaceTwo ==
  ASSUME NEW T, NEW s \in Seq(T), Len(s) >= 2, NEW x \in T
  PROVE  /\ <<x>> \o Tail(Tail(s)) \in Seq(T)
         /\ <<x>> \o Tail(Tail(s))
              = [j \in 1 .. Len(s) - 1 |-> IF j = 1 THEN x ELSE s[j + 1]]
<1> PICK u : u = Tail(Tail(s))
  OBVIOUS
<1> PICK d : d = <<x>> \o u
  OBVIOUS
<1> PICK n : n = Len(s)
  OBVIOUS
<1>1. /\ u \in Seq(T) /\ Len(u) = n - 2
      /\ \A j \in 1 .. n - 2 : u[j] = s[j + 2]
  BY DropTwo
<1>2. n \in Nat /\ (n - 2) + 1 = n - 1
  OBVIOUS
<1>3. /\ d \in Seq(T) /\ Len(d) = Len(u) + 1 /\ d[1] = x
      /\ \A j \in 1 .. Len(u) : d[j + 1] = u[j]
  <2>1. u \in Seq(T)
    BY <1>1
  <2> QED
    BY ONLY <2>1, x \in T, d = <<x>> \o u, ConsFacts
<1>4. Len(d) = n - 1 /\ \A j \in 1 .. n - 2 : d[j + 1] = s[j + 2]
  BY <1>1, <1>2, <1>3
<1>5. ASSUME NEW j \in 1 .. n - 1, j # 1 PROVE d[j] = s[j + 1]
  <2>1. j - 1 \in 1 .. n - 2 /\ (j - 1) + 1 = j /\ (j - 1) + 2 = j + 1
    BY <1>2, <1>5
  <2>2. d[(j - 1) + 1] = s[(j - 1) + 2]
    BY <1>4, <2>1
  <2> QED
    BY <2>1, <2>2
<1>6. d = [j \in 1 .. n - 1 |-> d[j]]
  BY ONLY <1>3, <1>4
<1>7. d = [j \in 1 .. n - 1 |-> IF j = 1 THEN x ELSE s[j + 1]]
  BY ONLY <1>3, <1>5, <1>6
<1> QED
  BY <1>3, <1>7

LEMMA IteCombineCallInv == CallInv /\ VarsFit /\ IteCombine => CallInv'
<1> SUFFICES ASSUME CallInv, VarsFit, IteCombine PROVE CallInv'
  OBVIOUS
<1> USE DEF CallInv
<1> PICK c : c = Head(stack)
  OBVIOUS
<1>1. /\ pc = "loop" /\ stack # <<>> /\ c.kind = "combine"
      /\ numVars' = numVars
  BY DEF IteCombine
<1>2. /\ c \in Frames /\ c.f \in Nodes /\ c.g \in Nodes /\ c.h \in Nodes
      /\ stack \in Seq(Frames) /\ results \in Seq(Nodes) /\ call \in Calls
      /\ c = stack[1] /\ 1 \in 1 .. Len(stack) /\ 0 \in 0 .. Len(stack)
  BY <1>1 DEF IInv, CallTypeOK, Frames
<1>3. PICK w \in [0 .. Len(stack) -> Seq(Functions)] : WorksOff(w)
  BY <1>1 DEF HasRun
<1> PICK rs : rs = w[0]
  OBVIOUS
<1>4. /\ rs = ResultFns /\ rs \in Seq(Functions) /\ Len(rs) = Len(results)
      /\ \A j \in 1 .. Len(results) : rs[j] = Den(results[j])
      /\ Len(results) \in Nat
  BY <1>2, <1>3, ResultFnsType DEF WorksOff, ResultFns, IInv, ArenaInv
<1>5. CombineReady(c, rs) /\ w[1] = After(c, rs)
  <2>1. /\ w[1] = After(stack[1], w[1 - 1])
        /\ stack[1].kind = "combine" => CombineReady(stack[1], w[1 - 1])
    BY <1>2, <1>3 DEF WorksOff
  <2>2. 1 - 1 = 0
    OBVIOUS
  <2> QED
    BY <1>1, <1>2, <2>1, <2>2
<1>6. Len(results) >= 2
  BY <1>4, <1>5 DEF CombineReady
<1> PICK lo : lo = results[2]
  OBVIOUS
<1> PICK hi : hi = results[1]
  OBVIOUS
<1>7. /\ lo \in Nodes /\ hi \in Nodes /\ rs[1] = Den(hi) /\ rs[2] = Den(lo)
  <2>1. 1 \in 1 .. Len(results) /\ 2 \in 1 .. Len(results)
    BY ONLY <1>4, <1>6
  <2>2. results[1] \in Nodes /\ results[2] \in Nodes
    BY <1>2, <2>1
  <2>3. rs[1] = Den(results[1]) /\ rs[2] = Den(results[2])
    BY <1>4, <2>1
  <2> QED
    BY <2>2, <2>3
<1>8. /\ ~ MakeNodePanics(c.tv, lo, hi)
      /\ c.tv \in 0 .. numVars - 1 /\ c.tv \in Nat
      /\ FnOf(c) = Shannon(c.tv, Den(lo), Den(hi))
  <2>1. numVars \in Nat
    BY MaxVarsAssumption DEF IInv, ArenaInv, BytesTypeOK
  <2>2. ArenaInv
    BY DEF IInv
  <2>3. /\ ~ MakeNodePanics(c.tv, lo, hi) /\ c.tv \in 0 .. numVars - 1
        /\ FnOf(c) = Shannon(c.tv, Den(lo), Den(hi))
    BY ONLY <1>1, <1>2, <1>5, <1>7, <2>2, CombineSafe
  <2> QED
    BY ONLY <2>1, <2>3
<1>9. PICK r \in Refs :
        /\ MakeNode(c.tv, lo, hi, r)
        /\ CachePut(c.f, c.g, c.h, r)
        /\ results' = <<r>> \o Tail(Tail(results))
        /\ stack' = Tail(stack)
        /\ UNCHANGED <<pc, held, call>>
  <2>1. ~ (Len(results) < 2)
    BY <1>4, <1>6
  <2> QED
    BY <1>8, <2>1 DEF IteCombine
<1>10. /\ Nodes \subseteq Nodes' /\ r \in Nodes'
       /\ \A x \in Nodes : Den(x)' = Den(x)
       /\ Den(r)' = FnOf(c)
  BY <1>1, <1>7, <1>8, <1>9, MakeNodeInv DEF IInv
<1>11. IInv'
  BY IteCombineInv
<1>12. VarBytesFit'
  BY <1>7, <1>8, <1>9, MakeNodeBytes DEF IInv
<1>13. OnItsWay'
  BY <1>1, <1>9, <1>10, WayKept DEF IInv
<1>14. CacheSound'
  <2> PICK sl : sl = IteSlot(c.f, c.g, c.h)
    OBVIOUS
  <2> PICK en : en = [f |-> c.f, g |-> c.g, h |-> c.h, r |-> r]
    OBVIOUS
  <2>1. cache' = [cache EXCEPT ![sl] = en]
    BY <1>9 DEF CachePut
  <2>2. DOMAIN cache' = DOMAIN cache
        /\ \A s \in DOMAIN cache : cache'[s] = IF s = sl THEN en ELSE cache[s]
    BY <2>1 DEF IInv, CallTypeOK
  <2>3. /\ {en.f, en.g, en.h, en.r} \subseteq Nodes'
        /\ Den(en.r)' = IteFn(Den(en.f)', Den(en.g)', Den(en.h)')
    <3>1. en.f = c.f /\ en.g = c.g /\ en.h = c.h /\ en.r = r
      OBVIOUS
    <3>2. /\ Den(c.f)' = Den(c.f) /\ Den(c.g)' = Den(c.g) /\ Den(c.h)' = Den(c.h)
      BY <1>2, <1>10
    <3>3. Den(r)' = IteFn(Den(c.f), Den(c.g), Den(c.h))
      BY <1>10 DEF FnOf
    <3> QED
      BY <1>2, <1>10, <3>1, <3>2, <3>3
  <2>4. ASSUME NEW s \in DOMAIN cache, NEW o, o = cache[s], o # EmptyEntry
        PROVE  /\ {o.f, o.g, o.h, o.r} \subseteq Nodes'
               /\ Den(o.r)' = IteFn(Den(o.f)', Den(o.g)', Den(o.h)')
    <3>1. /\ {o.f, o.g, o.h, o.r} \subseteq Nodes
          /\ Den(o.r) = IteFn(Den(o.f), Den(o.g), Den(o.h))
      BY <2>4 DEF CacheSound
    <3>2. /\ Den(o.f)' = Den(o.f) /\ Den(o.g)' = Den(o.g)
          /\ Den(o.h)' = Den(o.h) /\ Den(o.r)' = Den(o.r)
      BY <1>10, <3>1
    <3> QED
      BY <1>10, <3>1, <3>2
  <2> SUFFICES ASSUME NEW s \in DOMAIN cache', cache'[s] # EmptyEntry
               PROVE  /\ {cache'[s].f, cache'[s].g, cache'[s].h, cache'[s].r}
                           \subseteq Nodes'
                      /\ Den(cache[s].r)'
                           = IteFn(Den(cache[s].f)', Den(cache[s].g)',
                                   Den(cache[s].h)')
    BY DEF CacheSound
  <2> PICK e : e = cache'[s]
    OBVIOUS
  <2>5. CASE s = sl
    <3>1. e = en
      BY <2>2, <2>5
    <3> QED
      BY <2>3, <3>1
  <2>6. CASE s # sl
    <3> PICK o : o = cache[s]
      OBVIOUS
    <3>1. e = o /\ s \in DOMAIN cache /\ o # EmptyEntry
      BY <2>2, <2>6
    <3>2. /\ {o.f, o.g, o.h, o.r} \subseteq Nodes'
          /\ Den(o.r)' = IteFn(Den(o.f)', Den(o.g)', Den(o.h)')
      BY <2>4, <3>1
    <3> QED
      BY <3>1, <3>2
  <2> QED
    BY <2>5, <2>6
<1>15. ResultFns' = w[1]
  <2> PICK n : n = Len(results)
    OBVIOUS
  <2> PICK D : D = FnOf(c)
    OBVIOUS
  <2>1. D \in Functions
    BY <1>2, FnOfType DEF IInv, ArenaInv
  <2>2. w[1] = <<D>> \o Tail(Tail(rs))
    BY <1>1, <1>5 DEF After, CombineReady
  <2>3. w[1] = [j \in 1 .. n - 1 |-> IF j = 1 THEN D ELSE rs[j + 1]]
    <3>1. Len(rs) = n /\ Len(rs) >= 2
      BY <1>4, <1>6
    <3>2. <<D>> \o Tail(Tail(rs))
            = [j \in 1 .. Len(rs) - 1 |-> IF j = 1 THEN D ELSE rs[j + 1]]
      BY <1>4, <2>1, <3>1, ReplaceTwo
    <3> QED
      BY <2>2, <3>1, <3>2
  <2>4. results' = [j \in 1 .. n - 1 |-> IF j = 1 THEN r ELSE results[j + 1]]
    <3> PICK s : s = results
      OBVIOUS
    <3> PICK N : N = Nodes'
      OBVIOUS
    <3>1. s \in Seq(N) /\ r \in N /\ Len(s) >= 2
      BY <1>2, <1>6, <1>10
    <3>2. <<r>> \o Tail(Tail(s))
            = [j \in 1 .. Len(s) - 1 |-> IF j = 1 THEN r ELSE s[j + 1]]
      BY <3>1, ReplaceTwo
    <3> QED
      BY <1>9, <3>2
  <2>5. ASSUME NEW j \in 1 .. n - 1
        PROVE  Den(results[j])' = IF j = 1 THEN D ELSE rs[j + 1]
    <3>1. CASE j = 1
      <4>1. Den(r)' = D /\ results'[j] = r
        BY <1>10, <2>4, <3>1
      <4> QED
        BY <3>1, <4>1
    <3>2. CASE j # 1
      <4> PICK x : x = results[j + 1]
        OBVIOUS
      <4>1. j + 1 \in 1 .. Len(results)
        BY <1>4
      <4>2. results'[j] = x
        BY <2>4, <3>2
      <4>3. x \in Nodes /\ rs[j + 1] = Den(x)
        BY <1>2, <1>4, <4>1
      <4>4. Den(x)' = Den(x)
        BY <1>10, <4>3
      <4> QED
        BY <3>2, <4>2, <4>3, <4>4
    <3> QED
      BY <3>1, <3>2
  <2>6. DOMAIN results' = 1 .. n - 1
    BY <2>4
  <2>7. ResultFns' = [j \in 1 .. n - 1 |-> IF j = 1 THEN D ELSE rs[j + 1]]
    BY <2>5, <2>6 DEF ResultFns
  <2> QED
    BY <2>3, <2>7
<1>16. HasRun'
  BY <1>1, <1>2, <1>3, <1>9, <1>10, <1>15, PopRun DEF IInv
<1>17. NoPanic'
  BY <1>1, <1>9 DEF NoPanic
<1> QED
  BY <1>1, <1>9, <1>11, <1>12, <1>13, <1>14, <1>16, <1>17

\* ite returns the one result left, which is the call's function.
LEMMA ReturnsFn ==
  ASSUME CallInv, IteReturn
  PROVE  \E r \in Nodes : Return(r) /\ Den(r) = FnOf(call) /\ results' = <<>>
<1> USE DEF CallInv
<1>1. /\ pc = "loop" /\ stack = <<>> /\ call \in Calls
      /\ UNCHANGED <<arenaVars, numVars, cacheVars>>
      /\ results \in Seq(Nodes)
  BY DEF IteReturn, IInv, CallTypeOK
<1>5. PICK w \in [0 .. Len(stack) -> Seq(Functions)] : WorksOff(w)
  BY <1>1 DEF HasRun
<1>6. ResultFns = <<FnOf(call)>>
  <2>1. Len(stack) = 0
    BY <1>1
  <2>2. w[0] = ResultFns /\ w[Len(stack)] = <<FnOf(call)>>
    BY <1>5 DEF WorksOff, ResultFns
  <2> QED
    BY <2>1, <2>2
<1>7. Len(results) = 1 /\ results[1] \in Nodes /\ Den(results[1]) = FnOf(call)
  <2> PICK D : D = FnOf(call)
    OBVIOUS
  <2>1. Len(<<D>>) = 1 /\ <<D>>[1] = D
    OBVIOUS
  <2>2. Len(results) = 1
    BY <1>6, <2>1, ResultFnsType DEF IInv, ArenaInv
  <2>3. ResultFns[1] = Den(results[1])
    BY <2>2, ResultFnsType DEF IInv, ArenaInv
  <2>4. results[1] \in Nodes
    <3> PICK s : s = results
      OBVIOUS
    <3>1. s \in Seq(Nodes) /\ Len(s) = 1
      BY <1>1, <2>2
    <3>2. s[1] \in Nodes
      BY <3>1
    <3> QED
      BY <3>2
  <2> QED
    BY <1>6, <2>1, <2>2, <2>3, <2>4
<1>8. Return(results[1]) /\ results' = <<>>
  <2>1. results # <<>>
    BY <1>7
  <2> QED
    BY <1>1, <1>7, <2>1 DEF IteReturn
<1> QED
  BY <1>7, <1>8

LEMMA IteReturnCallInv == CallInv /\ IteReturn => CallInv'
<1> SUFFICES ASSUME CallInv, IteReturn PROVE CallInv'
  OBVIOUS
<1> USE DEF CallInv
<1>1. pc = "loop" /\ UNCHANGED <<arenaVars, numVars, cacheVars>>
  BY DEF IteReturn
<1>2. IInv'
  BY IteReturnInv
<1>3. Nodes' = Nodes /\ \A r \in Nodes : Den(r)' = Den(r)
  BY <1>1, SameArena
<1>4. CacheSound' /\ VarBytesFit'
  BY <1>1, <1>3, CacheKept, BytesKept DEF cacheVars
<1>5. PICK r \in Nodes : Return(r) /\ Den(r) = FnOf(call) /\ results' = <<>>
  BY ReturnsFn
<1>6. OnItsWay' /\ pc' \in {"idle", "probe"}
  BY <1>1, <1>3, <1>5, ReturnWay DEF IInv
<1> QED
  BY <1>2, <1>4, <1>6 DEF NoPanic

\* Every step of the engine keeps the invariant.
LEMMA NextCallInv == VarsFit /\ CallInv /\ [Next]_vars => CallInv'
<1> SUFFICES ASSUME VarsFit, CallInv, [Next]_vars PROVE CallInv'
  OBVIOUS
<1>1. CASE NewVar
  BY <1>1, NewVarCallInv
<1>2. ASSUME NEW k \in Handles, Constant(k) PROVE CallInv'
  BY <1>2, ConstantCallInv
<1>3. ASSUME NEW k \in Handles, CallMakeNode(k) PROVE CallInv'
  BY <1>3, CallMakeNodeCallInv
<1>4. ASSUME NEW k \in Handles, Not(k) \/ And(k) \/ Or(k) \/ Xor(k) \/ Ite(k)
      PROVE  CallInv'
  BY <1>4, CallsCallInv
<1>5. CASE IteStep
  BY <1>5, IteKnownCallInv, IteBeginCallInv, IteEnterKnownCallInv,
     IteExpandCallInv, IteCombineCallInv, IteReturnCallInv DEF IteStep
<1>6. CASE UNCHANGED vars
  <2>1. /\ UNCHANGED <<arenaVars, numVars>>
        /\ UNCHANGED <<cache, pc, call, stack, results>>
    BY <1>6 DEF vars, cacheVars, loopVars
  <2>2. IInv'
    BY NextInv DEF CallInv
  <2>3. Nodes' = Nodes /\ \A r : Den(r)' = Den(r)
    BY <2>1, SameArena
  <2>4. CacheSound' /\ VarBytesFit'
    BY <2>1, <2>3, CacheKept, BytesKept DEF CallInv
  <2>5. OnItsWay'
    BY <2>1, <2>3, WayKept DEF CallInv, IInv
  <2>6. ASSUME pc = "loop" PROVE HasRun'
    <3>1. PICK w \in [0 .. Len(stack) -> Seq(Functions)] : WorksOff(w)
      BY <2>6 DEF CallInv, HasRun
    <3>2. call \in Calls
      BY <2>6 DEF CallInv, IInv, CallTypeOK
    <3>3. \A e : FnOf(e)' = FnOf(e)
      BY <2>3 DEF FnOf
    <3>4. \A e, s : After(e, s)' = After(e, s)
                    /\ (CombineReady(e, s)' <=> CombineReady(e, s))
      BY <2>1, <3>3 DEF After, CombineReady
    <3>5. FnOf(call)' = FnOf(call) /\ ResultFns' = ResultFns
      BY <2>1, <2>3 DEF FnOf, ResultFns
    <3>6. WorksOff(w)'
      BY <2>1, <3>1, <3>4, <3>5 DEF WorksOff, ResultFns
    <3> QED
      BY <2>1, <3>1, <3>6 DEF HasRun
  <2> QED
    BY <2>1, <2>2, <2>4, <2>5, <2>6 DEF CallInv, NoPanic
<1> QED
  BY <1>1, <1>2, <1>3, <1>4, <1>5, <1>6 DEF Next
-----------------------------------------------------------------------------
(* The theorems. *)

\* The invariant of ite's loop holds of every turn.
THEOREM LoopInvariance ==
  ASSUME VarsFit
  PROVE  Spec => []CallInv
<1>1. Init => CallInv
  BY InitCallInv
<1>2. CallInv /\ [Next]_vars => CallInv'
  BY NextCallInv
<1> QED
  BY <1>1, <1>2, PTL DEF Spec

\* What the run ite_three_vars checks as the inductive invariant holds for
\* every number of variables, handles and cache slots.
THEOREM IteInvariance ==
  ASSUME VarsFit
  PROVE  Spec => []IteInv
<1>1. CallInv => IteInv
  BY CallInvIsIteInv
<1> QED
  BY <1>1, LoopInvariance, PTL

\* No expect, no assertion and no panic arm of ite, or of make_node below it,
\* is ever reached.
THEOREM NeverPanics ==
  ASSUME VarsFit
  PROVE  Spec => []NoPanic
<1>1. CallInv => NoPanic
  BY DEF CallInv
<1> QED
  BY <1>1, LoopInvariance, PTL

\* The apply cache never answers a call with another function.
THEOREM CacheCorrect ==
  ASSUME VarsFit
  PROVE  Spec => []CacheSound
<1>1. CallInv => CacheSound
  BY DEF CallInv
<1> QED
  BY <1>1, LoopInvariance, PTL

\* The work stack and the result stack always make up the call's function.
THEOREM NoWorkLost ==
  ASSUME VarsFit
  PROVE  Spec => []WorkSound
<1>1. CallInv => WorkSound
  BY CallInvIsIteInv DEF IteInv, WorksOff, WorkSound
<1> QED
  BY <1>1, LoopInvariance, PTL
-----------------------------------------------------------------------------
(* The engine implements BoolFns. *)

HandleFns == [k \in Handles |-> Den(held[k])]

LEMMA InitIsBoolFns == Init => BF!Init
<1> SUFFICES ASSUME Init PROVE BF!Init
  OBVIOUS
<1>1. HandleFns = [k \in Handles |-> FalseFn]
  BY DEF Init, HandleFns, Den, FalseRef, TrueRef, BF!FalseFn
<1>2. Owed = <<>> /\ numVars = 0
  BY DEF Init, Owed
<1> QED
  BY <1>1, <1>2 DEF BF!Init, BF!NoneOwed, HandleFns, BF!FalseFn, FalseFn

\* A call is a record and no call is not.
LEMMA CallsAreOwed ==
  ASSUME call \in Calls
  PROVE  /\ call # NoCall
         /\ Owed = [dest |-> call.dest, fn |-> call.want]
         /\ Owed # <<>>
         /\ Owed.dest = call.dest /\ Owed.fn = call.want
<1>1. "dest" \in DOMAIN call
  BY DEF Calls
<1>2. DOMAIN <<>> = {}
  OBVIOUS
<1>3. call # NoCall
  BY <1>1, <1>2 DEF NoCall
<1>4. Owed = [dest |-> call.dest, fn |-> call.want]
  BY <1>3 DEF Owed
<1>5. "dest" \in DOMAIN Owed
  BY <1>4
<1>6. Owed # <<>>
  BY <1>2, <1>5
<1> QED
  BY <1>3, <1>4, <1>6

\* The functions of live references, and of the operands among them.
LEMMA OperandFns ==
  ASSUME IInv, NEW f \in Operands
  PROVE  Den(f) \in BF!Operands
<1>1. CASE f \in Terminals
  BY <1>1 DEF Terminals, Den, TrueRef, FalseRef, BF!Operands, BF!FalseFn,
              BF!TrueFn, FalseFn, TrueFn, BF!Assignments, Assignments, BF!Vars, Vars
<1>2. CASE f \notin Terminals
  <2>1. PICK k \in Handles : f = held[k]
    BY <1>2 DEF Operands
  <2>2. Den(f) = HandleFns[k]
    BY <2>1 DEF HandleFns
  <2> QED
    BY <2>2 DEF BF!Operands, HandleFns
<1> QED
  BY <1>1, <1>2

\* Handles keep their functions while the references they hold do.
LEMMA HandleFnsKept ==
  ASSUME CallTypeOK, \A r \in Nodes : Den(r)' = Den(r), held' = held
  PROVE  HandleFns' = HandleFns
<1>1. \A k \in Handles : held[k] \in Nodes
  BY DEF CallTypeOK
<1>2. \A k \in Handles : Den(held[k])' = Den(held[k])
  BY <1>1
<1> QED
  BY <1>2 DEF HandleFns

\* One handle takes a function.
LEMMA HandleFnsSet ==
  ASSUME CallTypeOK, \A r \in Nodes : Den(r)' = Den(r),
         NEW k \in Handles, NEW r, held' = [held EXCEPT ![k] = r]
  PROVE  HandleFns' = [HandleFns EXCEPT ![k] = Den(r)']
<1>1. held \in [Handles -> Nodes]
  BY DEF CallTypeOK
<1>2. ASSUME NEW j \in Handles
      PROVE  Den(held[j])' = IF j = k THEN Den(r)' ELSE HandleFns[j]
  <2>1. CASE j = k
    <3>1. held'[j] = r
      BY <1>1, <2>1
    <3> QED
      BY <2>1, <3>1
  <2>2. CASE j # k
    <3> PICK x : x = held[j]
      OBVIOUS
    <3>1. held'[j] = x /\ x \in Nodes
      BY <1>1, <2>2
    <3>2. Den(x)' = Den(x)
      BY <3>1
    <3> QED
      BY <2>2, <3>1, <3>2 DEF HandleFns
  <2> QED
    BY <2>1, <2>2
<1>3. HandleFns' = [j \in Handles |-> Den(held[j])']
  BY DEF HandleFns
<1>4. [HandleFns EXCEPT ![k] = Den(r)'] = [j \in Handles |-> IF j = k THEN Den(r)' ELSE HandleFns[j]]
  BY DEF HandleFns
<1> QED
  BY <1>2, <1>3, <1>4

\* ite returns: its caller has its answer, or is xor and goes on.
LEMMA ReturnAnswers ==
  ASSUME CallTypeOK, OnItsWay, pc \in {"probe", "loop"},
         \A x \in Nodes : Den(x)' = Den(x), numVars' = numVars,
         NEW r \in Nodes, Den(r) = FnOf(call), Return(r)
  PROVE  BF!Answer \/ UNCHANGED <<HandleFns, numVars, Owed>>
<1>1. call \in Calls
  BY DEF CallTypeOK
<1>2. CASE call.then = <<>>
  <2>1. /\ held' = [held EXCEPT ![call.dest] = r] /\ call' = NoCall
    BY <1>2 DEF Return
  <2>2. Den(r)' = call.want
    BY <1>2 DEF OnItsWay
  <2> PICK k : k = call.dest
    OBVIOUS
  <2> PICK D : D = call.want
    OBVIOUS
  <2>3. k \in Handles
    BY <1>1 DEF Calls
  <2>4. HandleFns' = [HandleFns EXCEPT ![k] = D]
    <3>1. held' = [held EXCEPT ![k] = r] /\ Den(r)' = D
      BY <2>1, <2>2
    <3>2. HandleFns' = [HandleFns EXCEPT ![k] = Den(r)']
      BY <2>3, <3>1, HandleFnsSet
    <3> QED
      BY <3>1, <3>2
  <2>5. Owed # <<>> /\ Owed.dest = k /\ Owed.fn = D
    BY <1>1, CallsAreOwed
  <2>6. Owed' = <<>>
    BY <2>1 DEF Owed
  <2> QED
    BY <2>4, <2>5, <2>6 DEF BF!Answer, BF!NoneOwed, HandleFns
<1>3. CASE call.then # <<>>
  <2>1. PICK p \in [f : Nodes, h : Nodes] : call.then = <<p>>
    BY <1>1, <1>3 DEF Calls
  <2>2. call.then[1] = p
    BY <2>1
  <2>3. call' = [call EXCEPT !.f = p.f, !.g = r, !.h = p.h, !.then = <<>>]
        /\ held' = held
    BY <1>3, <2>2 DEF Return
  <2>4. call'.dest = call.dest /\ call'.want = call.want /\ "dest" \in DOMAIN call'
    BY <1>1, <2>3 DEF Calls
  <2>5. call' # <<>>
    <3>1. DOMAIN <<>> = {}
      OBVIOUS
    <3> QED
      BY <2>4, <3>1
  <2>6. Owed' = Owed
    BY <1>1, <2>4, <2>5, CallsAreOwed DEF Owed, NoCall
  <2>7. HandleFns' = HandleFns
    BY <2>3, HandleFnsKept
  <2> QED
    BY <2>6, <2>7
<1> QED
  BY <1>2, <1>3

\* A constructor call is a Branch: its children come after v, or are equal.
LEMMA MakeNodeBranches ==
  ASSUME CallInv, VarsFit, NEW k \in Handles, CallMakeNode(k)
  PROVE  BF!Branch(k)
<1> USE DEF CallInv
<1>1. PICK v \in 0 .. numVars - 1, lo \in Operands, hi \in Operands, r \in Refs :
        /\ ~ MakeNodePanics(v, lo, hi)
        /\ MakeNode(v, lo, hi, r)
        /\ held' = [held EXCEPT ![k] = r]
  BY DEF CallMakeNode
<1>2. UNCHANGED <<numVars, cacheVars, loopVars>> /\ pc = "idle"
  BY DEF CallMakeNode, CanCall
<1>3. v \in Nat /\ lo \in Nodes /\ hi \in Nodes
  BY <1>1, OperandsLive DEF IInv
<1>4. /\ \A x \in Nodes : Den(x)' = Den(x)
      /\ Den(r)' = Shannon(v, Den(lo), Den(hi))
  BY <1>1, <1>2, <1>3, MakeNodeInv DEF IInv
<1>5. HandleFns' = [HandleFns EXCEPT ![k] = Shannon(v, Den(lo), Den(hi))]
  BY <1>1, <1>4, HandleFnsSet DEF IInv
<1>6. Den(lo) \in BF!Operands /\ Den(hi) \in BF!Operands
  BY OperandFns
<1> PICK L : L = Den(lo)
  OBVIOUS
<1> PICK H : H = Den(hi)
  OBVIOUS
<1>7. L \in Functions /\ H \in Functions
  BY <1>3, DenType DEF IInv, ArenaInv
<1>8. L = H \/ \A u \in 0 .. v : IndependentOf(L, u) /\ IndependentOf(H, u)
  <2> SUFFICES ASSUME L # H, NEW u \in 0 .. v
               PROVE  IndependentOf(L, u) /\ IndependentOf(H, u)
    OBVIOUS
  <2>1. numVars \in 0 .. MaxVars
    BY DEF IInv, ArenaInv, ArenaTypeOK, BytesTypeOK
  <2>2. u \in Vars /\ u \in Nat
    BY <1>3, <2>1, MaxVarsAssumption DEF Vars
  <2>3. \A c \in {lo, hi} : ~ (IsNode(c) /\ VarOf(c) <= v)
    BY <1>1 DEF MakeNodePanics
  <2>4. \A c \in {lo, hi} : IsNode(c) => VarOf(c) \in Nat
    BY <1>3, HeaderType, MaxVarsAssumption DEF IInv, ArenaInv, Nodes, IsNode, Vars
  <2>5. \A c \in {lo, hi} : IsNode(c) => u < VarOf(c)
    BY <1>3, <2>2, <2>3, <2>4
  <2> QED
    BY <1>3, <2>2, <2>5, DenIndependent DEF IInv, ArenaInv
<1>9. Shannon(v, L, H) = IF L = H THEN L ELSE Shannon(v, L, H)
  BY <1>7, ShannonSame
<1>10. Owed = <<>> /\ Owed' = Owed
  BY <1>2 DEF OnItsWay, Owed, loopVars
<1>11. BF!Shannon(v, L, H) = Shannon(v, L, H)
       /\ \A D, u : BF!IndependentOf(D, u) <=> IndependentOf(D, u)
  BY DEF BF!Shannon, Shannon, BF!IndependentOf, IndependentOf, BF!Assignments,
         Assignments, BF!Vars, Vars
<1>12. HandleFns' = [HandleFns EXCEPT ![k] = IF L = H THEN L ELSE BF!Shannon(v, L, H)]
  BY <1>5, <1>9, <1>11
<1>13. L = H \/ \A u \in 0 .. v : BF!IndependentOf(L, u) /\ BF!IndependentOf(H, u)
  BY <1>8, <1>11
<1>14. numVars' = numVars
  BY <1>2
<1> QED
  BY <1>6, <1>10, <1>12, <1>13, <1>14 DEF BF!Branch, BF!NoneOwed, HandleFns

\* The call of an operator asks for its function.
LEMMA StartAsks ==
  ASSUME CallInv, NEW k, NEW f, NEW g, NEW h, NEW then, NEW D,
         StartIte(k, f, g, h, then, D)
  PROVE  /\ Owed = <<>> /\ Owed' = [dest |-> k, fn |-> D]
         /\ HandleFns' = HandleFns /\ numVars' = numVars
<1>1. /\ UNCHANGED <<arenaVars, numVars, cacheVars, held, stack, results>>
      /\ pc = "idle"
      /\ call' = [dest |-> k, f |-> f, g |-> g, h |-> h, then |-> then, want |-> D]
  BY DEF StartIte, CanCall
<1>2. Owed = <<>>
  BY <1>1 DEF CallInv, OnItsWay, Owed
<1>3. call'.dest = k /\ call'.want = D /\ "dest" \in DOMAIN call'
  BY <1>1
<1>4. call' # NoCall
  <2>1. DOMAIN <<>> = {}
    OBVIOUS
  <2> QED
    BY <1>3, <2>1 DEF NoCall
<1>5. Owed' = [dest |-> k, fn |-> D]
  BY <1>3, <1>4 DEF Owed
<1>6. HandleFns' = HandleFns
  BY <1>1, SameArena, HandleFnsKept DEF CallInv, IInv
<1> QED
  BY <1>1, <1>2, <1>5, <1>6

LEMMA CallsAsk ==
  ASSUME CallInv, NEW k \in Handles,
         Not(k) \/ And(k) \/ Or(k) \/ Xor(k) \/ Ite(k)
  PROVE  BF!Ask(k)
<1> DEFINE Asks(D) == \/ \E f \in BF!Operands : D = BF!TrueFn \ f
                      \/ \E f, g \in BF!Operands :
                           D = f \cap g \/ D = f \cup g \/ D = BF!XorFn(f, g)
                      \/ \E f, g, h \in BF!Operands : D = BF!IteFn(f, g, h)
<1>1. \A f \in Operands : Den(f) \in BF!Operands
  BY OperandFns DEF CallInv
<1>2. /\ BF!TrueFn = TrueFn
      /\ \A F, G : BF!XorFn(F, G) = XorFn(F, G)
      /\ \A F, G, H : BF!IteFn(F, G, H) = IteFn(F, G, H)
  BY DEF BF!TrueFn, TrueFn, BF!Assignments, Assignments, BF!Vars, Vars,
         BF!XorFn, XorFn, BF!IteFn, IteFn
<1>3. \E D : Asks(D) /\ \E f, g, h, then : StartIte(k, f, g, h, then, D)
  <2>1. CASE Not(k)
    <3>1. PICK f \in Operands :
            StartIte(k, f, FalseRef, TrueRef, <<>>, TrueFn \ Den(f))
      BY <2>1 DEF Not
    <3>2. Asks(TrueFn \ Den(f))
      BY <1>1, <1>2
    <3> QED
      BY <3>1, <3>2
  <2>2. CASE And(k)
    <3>1. PICK f \in Operands, g \in Operands :
            StartIte(k, f, g, FalseRef, <<>>, Den(f) \cap Den(g))
      BY <2>2 DEF And
    <3>2. Asks(Den(f) \cap Den(g))
      BY <1>1
    <3> QED
      BY <3>1, <3>2
  <2>3. CASE Or(k)
    <3>1. PICK f \in Operands, g \in Operands :
            StartIte(k, f, TrueRef, g, <<>>, Den(f) \cup Den(g))
      BY <2>3 DEF Or
    <3>2. Asks(Den(f) \cup Den(g))
      BY <1>1
    <3> QED
      BY <3>1, <3>2
  <2>4. CASE Xor(k)
    <3>1. PICK f \in Operands, g \in Operands :
            StartIte(k, g, FalseRef, TrueRef, <<[f |-> f, h |-> g]>>,
                     XorFn(Den(f), Den(g)))
      BY <2>4 DEF Xor
    <3>2. Asks(XorFn(Den(f), Den(g)))
      BY <1>1, <1>2
    <3> QED
      BY <3>1, <3>2
  <2>5. CASE Ite(k)
    <3>1. PICK f \in Operands, g \in Operands, h \in Operands :
            StartIte(k, f, g, h, <<>>, IteFn(Den(f), Den(g), Den(h)))
      BY <2>5 DEF Ite
    <3>2. Asks(IteFn(Den(f), Den(g), Den(h)))
      BY <1>1, <1>2
    <3> QED
      BY <3>1, <3>2
  <2> QED
    BY <2>1, <2>2, <2>3, <2>4, <2>5
<1>4. PICK D : Asks(D) /\ \E f, g, h, then : StartIte(k, f, g, h, then, D)
  BY <1>3
<1>5. /\ Owed = <<>> /\ Owed' = [dest |-> k, fn |-> D]
      /\ HandleFns' = HandleFns /\ numVars' = numVars
  BY <1>4, StartAsks
<1>6. BF!Owe(k, D)
  BY <1>5 DEF BF!Owe
<1>7. \/ \E f \in BF!Operands : BF!Owe(k, BF!TrueFn \ f)
      \/ \E f, g \in BF!Operands :
           BF!Owe(k, f \cap g) \/ BF!Owe(k, f \cup g) \/ BF!Owe(k, BF!XorFn(f, g))
      \/ \E f, g, h \in BF!Operands : BF!Owe(k, BF!IteFn(f, g, h))
  BY <1>4, <1>6
<1> QED
  BY <1>5, <1>7 DEF BF!Ask, BF!NoneOwed, HandleFns

\* A Combine changes no function there was.
LEMMA CombineKeepsFns ==
  ASSUME IInv, VarsFit, IteCombine
  PROVE  \A r \in Nodes : Den(r)' = Den(r)
<1> DEFINE c == Head(stack)
           lo == results[2]
           hi == results[1]
<1>1. /\ stack # <<>> /\ numVars' = numVars
      /\ stack \in Seq(Frames) /\ results \in Seq(Nodes) /\ c.kind = "combine"
  BY DEF IteCombine, IInv, CallTypeOK
<1>2. CASE Len(results) < 2 \/ MakeNodePanics(c.tv, lo, hi)
  BY <1>1, <1>2, SameArena DEF IteCombine
<1>3. CASE ~ (Len(results) < 2 \/ MakeNodePanics(c.tv, lo, hi))
  <2>1. lo \in Nodes /\ hi \in Nodes /\ c.tv \in Nat
    BY <1>1, <1>3, HeadType DEF IInv, Vars
  <2>2. PICK r \in Refs : MakeNode(c.tv, lo, hi, r)
    BY <1>3 DEF IteCombine
  <2> HIDE DEF c, lo, hi
  <2> QED
    BY <1>1, <1>3, <2>1, <2>2, MakeNodeInv DEF IInv
<1> QED
  BY <1>2, <1>3

\* Every step of the engine is one the caller of BoolFns may see, or none.
LEMMA NextIsBoolFns ==
  CallInv /\ VarsFit /\ [Next]_vars
    => BF!Next \/ UNCHANGED <<HandleFns, numVars, Owed>>
<1> SUFFICES ASSUME CallInv, VarsFit, [Next]_vars
             PROVE  BF!Next \/ UNCHANGED <<HandleFns, numVars, Owed>>
  OBVIOUS
<1>0. IInv /\ CallTypeOK /\ ArenaTypeOK /\ OnItsWay
  BY DEF CallInv, IInv, ArenaInv
<1>1. CASE NewVar
  <2>1. /\ UNCHANGED <<buf, bufLen, den, cacheVars, held, loopVars>>
        /\ numVars < MaxVars /\ numVars' = numVars + 1
    BY <1>1 DEF NewVar
  <2>2. \A r \in Nodes : Den(r)' = Den(r)
    BY <2>1 DEF Den
  <2>3. HandleFns' = HandleFns
    BY <1>0, <2>1, <2>2, HandleFnsKept
  <2>4. Owed' = Owed
    BY <2>1 DEF Owed, loopVars
  <2>5. BF!Declare
    BY <2>1, <2>3, <2>4 DEF BF!Declare, HandleFns
  <2> QED
    BY <2>5 DEF BF!Next
<1>2. ASSUME NEW k \in Handles, Constant(k) PROVE BF!Next
  <2>1. PICK r \in Terminals : held' = [held EXCEPT ![k] = r]
    BY <1>2 DEF Constant
  <2>2. UNCHANGED <<arenaVars, numVars, cacheVars, loopVars>> /\ pc = "idle"
    BY <1>2 DEF Constant
  <2>3. \A x : Den(x)' = Den(x)
    BY <2>2, SameArena
  <2>4. HandleFns' = [HandleFns EXCEPT ![k] = Den(r)']
    BY <1>0, <2>1, <2>3, HandleFnsSet
  <2> PICK D : D = Den(r)'
    OBVIOUS
  <2>5. D \in {BF!FalseFn, BF!TrueFn}
    BY DEF Den, Terminals, FalseRef, TrueRef, BF!FalseFn, FalseFn, BF!TrueFn,
           TrueFn, BF!Assignments, Assignments, BF!Vars, Vars
  <2>6. Owed = <<>> /\ Owed' = Owed
    BY <1>0, <2>2 DEF OnItsWay, Owed, loopVars
  <2>7. BF!Constant(k)
    BY <2>2, <2>4, <2>5, <2>6 DEF BF!Constant, BF!NoneOwed, HandleFns
  <2> QED
    BY <2>7 DEF BF!Next
<1>3. ASSUME NEW k \in Handles, CallMakeNode(k) PROVE BF!Next
  BY <1>3, MakeNodeBranches DEF BF!Next
<1>4. ASSUME NEW k \in Handles, Not(k) \/ And(k) \/ Or(k) \/ Xor(k) \/ Ite(k)
      PROVE  BF!Next
  BY <1>4, CallsAsk DEF BF!Next
<1>5. CASE IteKnown
  <2>1. /\ pc = "probe" /\ call \in Calls
        /\ UNCHANGED <<arenaVars, numVars, cacheVars, stack, results>>
    BY <1>0, <1>5 DEF IteKnown, CallTypeOK
  <2>2. PICK r \in Known(call.f, call.g, call.h) : Return(r)
    BY <1>5 DEF IteKnown
  <2>3. r \in Nodes /\ Den(r) = FnOf(call)
    BY <1>0, <2>1, <2>2, KnownSound DEF Calls, FnOf, CallInv
  <2>4. BF!Answer \/ UNCHANGED <<HandleFns, numVars, Owed>>
    BY <1>0, <2>1, <2>2, <2>3, SameArena, ReturnAnswers
  <2> QED
    BY <2>4 DEF BF!Next
<1>6. CASE IteReturn
  <2>1. /\ pc = "loop" /\ stack = <<>>
        /\ UNCHANGED <<arenaVars, numVars, cacheVars>>
    BY <1>6 DEF IteReturn
  <2>2. PICK r \in Nodes : Return(r) /\ Den(r) = FnOf(call)
    BY <1>6, ReturnsFn DEF CallInv
  <2>3. BF!Answer \/ UNCHANGED <<HandleFns, numVars, Owed>>
    BY <1>0, <2>1, <2>2, SameArena, ReturnAnswers
  <2> QED
    BY <2>3 DEF BF!Next
<1>7. CASE IteBegin \/ IteEnterKnown \/ IteExpand \/ IteCombine \/ UNCHANGED vars
  <2>1. UNCHANGED <<held, call, numVars>>
    BY <1>7 DEF IteBegin, IteEnterKnown, IteExpand, PopEnter, IteCombine, Panic,
                vars, loopVars
  <2>2. \A r \in Nodes : Den(r)' = Den(r)
    <3>1. CASE UNCHANGED arenaVars
      BY <2>1, <3>1, SameArena
    <3>2. CASE IteCombine
      BY <1>0, <3>2, CombineKeepsFns
    <3> QED
      BY <1>7, <3>1, <3>2 DEF IteBegin, IteEnterKnown, IteExpand, PopEnter, vars
  <2>3. HandleFns' = HandleFns
    BY <1>0, <2>1, <2>2, HandleFnsKept
  <2>4. Owed' = Owed
    BY <2>1 DEF Owed
  <2> QED
    BY <2>1, <2>3, <2>4
<1> QED
  BY <1>1, <1>2, <1>3, <1>4, <1>5, <1>6, <1>7 DEF Next, IteStep

\* To its caller the engine is BoolFns: every call of NOT, AND, OR, XOR and ite
\* returns a reference to the function asked for, make_node one to the node's,
\* and nothing else ever changes what a handle stands for.
THEOREM EngineIsBoolFns ==
  ASSUME VarsFit
  PROVE  Spec => ImplementsBoolFns
<1>1. Init => BF!Init
  BY InitIsBoolFns
<1>2. CallInv /\ [Next]_vars => [BF!Next]_<<HandleFns, numVars, Owed>>
  BY NextIsBoolFns
<1> QED
  BY <1>1, <1>2, LoopInvariance, PTL DEF Spec, ImplementsBoolFns, BF!Spec, BF!Steps, HandleFns

\* The same of an engine that starts anywhere its invariant holds, which is how
\* the run ite_three_vars starts it: each call returns the function it should.
THEOREM WarmEngine ==
  ASSUME VarsFit
  PROVE  IInv /\ IteInv /\ [][Next]_vars => CallsAreBoolFns
<1>1. IInv /\ IteInv => CallInv
  BY CallInvIsIteInv
<1>2. CallInv /\ [Next]_vars => CallInv'
  BY NextCallInv
<1>3. CallInv /\ [Next]_vars => [BF!Next]_<<HandleFns, numVars, Owed>>
  BY NextIsBoolFns
<1> QED
  BY <1>1, <1>2, <1>3, PTL DEF CallsAreBoolFns, BF!Steps, HandleFns
-----------------------------------------------------------------------------
(* Every call's turns come to an end. *)

\* The frames that enter a node not after v, counted from the bottom of the
\* stack: what is pushed does not move them.
Above(e, v) ==
  e.kind = "enter" /\ \E r \in {e.f, e.g, e.h} : IsNode(r) /\ VarOf(r) <= v
EntersAbove(v) ==
  {d \in 0 .. Len(stack) - 1 : Above(stack[Len(stack) - d], v)}

\* What is left of a call: xor's second call, the loop and the probe before it,
\* for each variable the frames that enter a node not after it, and all frames.
IteStage ==
  IF pc \notin {"probe", "loop"}
  THEN 0
  ELSE (IF pc = "loop" THEN 1 ELSE 2) + (IF call.then = <<>> THEN 0 ELSE 2)
IteRank ==
  [i \in 1 .. MaxVars + 2 |->
     IF i = 1 THEN IteStage
     ELSE IF i = MaxVars + 2 THEN Len(stack)
     ELSE Cardinality(EntersAbove(i - 2))]

\* All are numbers.
LEMMA IteRankType ==
  ASSUME CallTypeOK
  PROVE  /\ IteRank \in [1 .. MaxVars + 2 -> Nat]
         /\ \A v : IsFiniteSet(EntersAbove(v)) /\ Cardinality(EntersAbove(v)) \in Nat
<1>1. Len(stack) \in Nat
  BY DEF CallTypeOK
<1>2. IteStage \in Nat
  BY DEF IteStage
<1>3. ASSUME NEW v
      PROVE  IsFiniteSet(EntersAbove(v)) /\ Cardinality(EntersAbove(v)) \in Nat
  <2>1. EntersAbove(v) \subseteq 0 .. Len(stack) - 1
    BY DEF EntersAbove
  <2>2. IsFiniteSet(0 .. Len(stack) - 1)
    BY <1>1, FS_Interval
  <2>3. IsFiniteSet(EntersAbove(v))
    BY <2>1, <2>2, FS_Subset
  <2> QED
    BY <2>3, FS_CardinalityType
<1> HIDE DEF EntersAbove
<1> QED
  BY <1>1, <1>2, <1>3 DEF IteRank

LEMMA IteRankTypeNext ==
  ASSUME CallTypeOK'
  PROVE  /\ IteRank' \in [1 .. MaxVars + 2 -> Nat]
         /\ \A v : /\ IsFiniteSet(EntersAbove(v)')
                   /\ Cardinality(EntersAbove(v)') \in Nat
<1>1. (CallTypeOK =>
         /\ IteRank \in [1 .. MaxVars + 2 -> Nat]
         /\ \A v : IsFiniteSet(EntersAbove(v)) /\ Cardinality(EntersAbove(v)) \in Nat)'
  BY IteRankType, PTL
<1> QED
  BY <1>1

\* The frames below the top keep their place, counted from the bottom.
LEMMA DepthKept ==
  ASSUME NEW F, NEW s \in Seq(F), s # <<>>, NEW w \in Seq(F),
         NEW u, u = w \o Tail(s)
  PROVE  /\ Len(u) = Len(w) + Len(s) - 1
         /\ \A d \in 0 .. Len(s) - 2 : u[Len(u) - d] = s[Len(s) - d]
         /\ \A d \in Len(s) - 1 .. Len(u) - 1 :
              Len(u) - d \in 1 .. Len(w) /\ u[Len(u) - d] = w[Len(u) - d]
<1> PICK n, m, t : n = Len(s) /\ m = Len(w) /\ t = Tail(s)
  OBVIOUS
<1>1. n \in Nat /\ n >= 1 /\ m \in Nat
  OBVIOUS
<1>2. t \in Seq(F) /\ Len(t) = n - 1 /\ \A i \in 1 .. n - 1 : t[i] = s[i + 1]
  BY <1>1
<1>3. /\ Len(u) = m + n - 1
      /\ \A i \in 1 .. m : u[i] = w[i]
      /\ \A i \in 1 .. n - 1 : u[m + i] = t[i]
  BY <1>1, <1>2
<1>4. ASSUME NEW d \in 0 .. n - 2 PROVE u[Len(u) - d] = s[n - d]
  <2> PICK i : i = n - 1 - d
    OBVIOUS
  <2>1. i \in 1 .. n - 1 /\ Len(u) - d = m + i /\ i + 1 = n - d
    BY <1>1, <1>3
  <2> QED
    BY <1>2, <1>3, <2>1
<1>5. ASSUME NEW d \in n - 1 .. Len(u) - 1
      PROVE  Len(u) - d \in 1 .. m /\ u[Len(u) - d] = w[Len(u) - d]
  <2>1. Len(u) - d \in 1 .. m
    BY <1>1, <1>3
  <2> QED
    BY <1>3, <2>1
<1> QED
  BY <1>3, <1>4, <1>5
\* A set that loses an element is the smaller for it.
LEMMA FewerMembers ==
  ASSUME NEW P, IsFiniteSet(P), NEW Q, Q \subseteq P
  PROVE  /\ Cardinality(Q) \in Nat /\ Cardinality(P) \in Nat
         /\ Cardinality(Q) <= Cardinality(P)
         /\ \A x \in P : x \notin Q => Cardinality(Q) < Cardinality(P)
<1>1. /\ IsFiniteSet(Q) /\ Cardinality(Q) <= Cardinality(P)
      /\ Cardinality(P) = Cardinality(Q) => P = Q
  BY FS_Subset
<1>2. Cardinality(Q) \in Nat /\ Cardinality(P) \in Nat
  BY <1>1, FS_CardinalityType
<1>3. ASSUME NEW x \in P, x \notin Q PROVE Cardinality(Q) < Cardinality(P)
  <2>1. P # Q
    BY <1>3
  <2> QED
    BY <1>1, <1>2, <2>1
<1> QED
  BY <1>1, <1>2, <1>3

\* The top frame makes place for frames that enter nothing up to v.
LEMMA AboveKept ==
  ASSUME CallTypeOK, stack # <<>>, NEW w \in Seq(Frames), stack' = w \o Tail(stack),
         \A r \in Headers : VarOf(r)' = VarOf(r),
         NEW v, \A i \in DOMAIN w : ~ (Above(w[i], v)')
  PROVE  /\ EntersAbove(v)' \subseteq EntersAbove(v)
         /\ Len(stack) - 1 \notin EntersAbove(v)'
         /\ Len(stack') = Len(w) + Len(stack) - 1
<1> PICK s, u, n, l : s = stack /\ u = stack' /\ n = Len(s) /\ l = Len(u)
  OBVIOUS
<1>1. s \in Seq(Frames) /\ n \in Nat /\ n >= 1 /\ u = w \o Tail(s)
  BY DEF CallTypeOK
<1>2. /\ l = Len(w) + n - 1
      /\ \A d \in 0 .. n - 2 : u[l - d] = s[n - d]
      /\ \A d \in n - 1 .. l - 1 : l - d \in 1 .. Len(w) /\ u[l - d] = w[l - d]
  <2> PICK F : F = Frames
    OBVIOUS
  <2>1. s \in Seq(F) /\ s # <<>> /\ w \in Seq(F) /\ u = w \o Tail(s)
    BY <1>1
  <2>2. /\ Len(u) = Len(w) + Len(s) - 1
        /\ \A d \in 0 .. Len(s) - 2 : u[Len(u) - d] = s[Len(s) - d]
        /\ \A d \in Len(s) - 1 .. Len(u) - 1 :
             Len(u) - d \in 1 .. Len(w) /\ u[Len(u) - d] = w[Len(u) - d]
    BY ONLY <2>1, DepthKept
  <2> QED
    BY <2>2
<1>3. l \in Nat /\ DOMAIN w = 1 .. Len(w)
  BY <1>1, <1>2
<1>4. \A d : d \in EntersAbove(v)' <=> d \in 0 .. l - 1 /\ Above(u[l - d], v)'
  BY DEF EntersAbove
<1>5. \A d : d \in EntersAbove(v) <=> d \in 0 .. n - 1 /\ Above(s[n - d], v)
  BY DEF EntersAbove
<1>6. ASSUME NEW d \in EntersAbove(v)' PROVE d \in 0 .. n - 2
  <2>1. d \in 0 .. l - 1 /\ Above(u[l - d], v)'
    BY <1>4
  <2>2. CASE d \in n - 1 .. l - 1
    <3>1. l - d \in DOMAIN w /\ u[l - d] = w[l - d]
      BY <1>2, <1>3, <2>2
    <3>2. ~ (Above(w[l - d], v)')
      BY <3>1
    <3> QED
      BY <2>1, <3>1, <3>2
  <2>3. CASE d \notin n - 1 .. l - 1
    BY <1>1, <1>3, <2>1, <2>3
  <2> QED
    BY <2>2, <2>3
<1>7. ASSUME NEW d \in EntersAbove(v)' PROVE d \in EntersAbove(v)
  <2>1. d \in 0 .. n - 2 /\ Above(u[l - d], v)'
    BY <1>4, <1>6
  <2> PICK e : e = s[n - d]
    OBVIOUS
  <2>2. u[l - d] = e /\ n - d \in 1 .. n /\ d \in 0 .. n - 1
    BY <1>1, <1>2, <2>1
  <2>3. e \in Frames
    BY <1>1, <2>2
  <2>4. e.f \in Nodes /\ e.g \in Nodes /\ e.h \in Nodes
    BY <2>3 DEF Frames
  <2>5. Above(e, v)'
    BY <2>1, <2>2
  <2>6. Above(e, v)
    <3>1. e.kind = "enter" /\ \E r \in {e.f, e.g, e.h} : IsNode(r) /\ VarOf(r)' <= v
      BY <2>5 DEF Above, IsNode
    <3> QED
      BY <2>4, <3>1 DEF Above, Nodes, IsNode
  <2> QED
    BY <1>5, <2>2, <2>6
<1>8. n - 1 \notin 0 .. n - 2
  BY <1>1
<1> QED
  BY <1>2, <1>6, <1>7, <1>8

\* The top frame goes for good.
LEMMA PopFalls ==
  ASSUME CallTypeOK, CallTypeOK', stack # <<>>, stack' = Tail(stack),
         IteStage' = IteStage, \A r \in Headers : VarOf(r)' = VarOf(r)
  PROVE  <<IteRank', IteRank>> \in Lower(MaxVars + 2)
<1> PICK n, x, y : n = MaxVars + 2 /\ x = IteRank' /\ y = IteRank
  OBVIOUS
<1>1. n \in Nat /\ n >= 2 /\ x \in [1 .. n -> Nat] /\ y \in [1 .. n -> Nat]
  BY MaxVarsAssumption, IteRankType, IteRankTypeNext
<1> PICK w : w = <<>>
  OBVIOUS
<1>2. w \in Seq(Frames) /\ DOMAIN w = {} /\ Len(w) = 0 /\ stack' = w \o Tail(stack)
  BY DEF CallTypeOK
<1>3. ASSUME NEW v PROVE EntersAbove(v)' \subseteq EntersAbove(v)
  BY <1>2, AboveKept
<1>4. Len(stack') < Len(stack)
  BY DEF CallTypeOK
<1>5. x[1] = y[1]
  BY <1>1, MaxVarsAssumption DEF IteRank
<1>6. x[n] < y[n]
  <2>1. x[n] = Len(stack') /\ y[n] = Len(stack)
    BY <1>1, MaxVarsAssumption DEF IteRank
  <2> QED
    BY <1>4, <2>1
<1>7. ASSUME NEW m \in 1 .. n - 1 PROVE x[m] <= y[m]
  <2>1. CASE m = 1
    <3>1. x[1] \in Nat /\ y[1] \in Nat
      BY ONLY <1>1
    <3> QED
      BY ONLY <1>5, <2>1, <3>1
  <2>2. CASE m # 1
    <3> PICK v : v = m - 2
      OBVIOUS
    <3>1. x[m] = Cardinality(EntersAbove(v)') /\ y[m] = Cardinality(EntersAbove(v))
      BY <1>1, <2>2 DEF IteRank
    <3> PICK P, Q : P = EntersAbove(v) /\ Q = EntersAbove(v)'
      OBVIOUS
    <3>2. Q \subseteq P /\ IsFiniteSet(P)
      BY <1>3, IteRankType
    <3>3. Cardinality(Q) <= Cardinality(P)
      BY <3>2, FewerMembers
    <3> QED
      BY <3>1, <3>3
  <2> QED
    BY <2>1, <2>2
<1>8. n \in 1 .. n
  BY <1>1
<1>9. <<x, y>> \in Lower(n)
  BY <1>1, <1>6, <1>7, <1>8, LowerAt
<1> QED
  BY <1>9
\* A cofactor of a reference not before v comes after v.
LEMMA CofactorAfter ==
  ASSUME ArenaInv, NEW r \in Nodes, NEW v \in Vars, ~ CofactorPanics(r, v),
         NEW val \in BOOLEAN, IsNode(Cofactor(r, v, val))
  PROVE  VarOf(Cofactor(r, v, val)) \in Nat /\ VarOf(Cofactor(r, v, val)) > v
<1>0. v \in Nat
  BY DEF Vars
<1>1. CASE IsNode(r) /\ VarOf(r) = v
  <2> PICK c : c = Cofactor(r, v, val)
    OBVIOUS
  <2>1. r \in Headers
    BY <1>1 DEF Nodes, IsNode
  <2>2. c \in {Node(r).lo, Node(r).hi}
    BY <1>1 DEF Cofactor
  <2>3. c \in Nodes /\ VarOf(c) > v
    BY <1>1, <2>1, <2>2, NodeFacts
  <2>4. VarOf(c) \in Vars
    BY <2>3, NodeFacts DEF Nodes, IsNode
  <2> QED
    BY <2>3, <2>4 DEF Vars
<1>2. CASE ~ (IsNode(r) /\ VarOf(r) = v)
  <2>1. Cofactor(r, v, val) = r
    BY <1>2 DEF Cofactor
  <2>2. r \in Headers
    BY <2>1 DEF Nodes, IsNode
  <2>3. VarOf(r) \in Vars
    BY <2>2, NodeFacts
  <2>4. VarOf(r) \in Nat /\ VarOf(r) # v /\ ~ (VarOf(r) < v)
    BY <1>2, <2>1, <2>3 DEF CofactorPanics, Vars
  <2> QED
    BY <1>0, <2>1, <2>4
<1> QED
  BY <1>1, <1>2

\* A frame expanded is one less that enters its top variable, and its cofactors
\* enter only what comes after it.
LEMMA IteExpandFalls ==
  ASSUME IInv, IInv', NoPanic', IteExpand
  PROVE  <<IteRank', IteRank>> \in Lower(MaxVars + 2)
<1> USE DEF IInv
<1> PICK e : e = Head(stack)
  OBVIOUS
<1> PICK tv : tv = TopVar({e.f, e.g, e.h})
  OBVIOUS
<1> PICK w : w = <<EnterCofactors(e, tv, FALSE), EnterCofactors(e, tv, TRUE),
                   Combine(e.f, e.g, e.h, tv)>>
  OBVIOUS
<1>1. /\ pc = "loop" /\ stack # <<>> /\ e.kind = "enter"
      /\ UNCHANGED <<arenaVars, numVars, call>>
      /\ Trivial(e.f, e.g, e.h) = {}
  BY DEF IteExpand, PopEnter, Known
<1>2. pc' = pc /\ stack' = w \o Tail(stack)
  BY DEF IteExpand, NoPanic
<1>3. e.f \in Nodes /\ e.g \in Nodes /\ e.h \in Nodes
  BY <1>1, HeadType
<1>4. tv \in Vars /\ \A r \in {e.f, e.g, e.h} : ~ CofactorPanics(r, tv)
  <2>1. BytesTypeOK /\ Reduced
    BY DEF ArenaInv
  <2> QED
    BY ONLY <1>1, <1>3, <2>1, tv = TopVar({e.f, e.g, e.h}), FrameTopVar
<1>5. tv \in 0 .. MaxVars - 1
  BY <1>4 DEF Vars
<1>6. Above(e, tv)
  <2>1. PICK o \in Headers : o \in {e.f, e.g, e.h} /\ tv = VarOf(o)
    BY <1>1, <1>3, TopVarOfNode DEF ArenaInv
  <2>2. IsNode(o)
    BY HeaderType DEF ArenaInv, IsNode
  <2>3. VarOf(o) <= tv
    BY <1>5, <2>1, MaxVarsAssumption
  <2> QED
    BY <1>1, <2>1, <2>2, <2>3 DEF Above
<1>7. w \in Seq(Frames)
  <2>1. \A val \in BOOLEAN : EnterCofactors(e, tv, val) \in Frames
    BY <1>3, <1>4, CofactorType DEF ArenaInv, EnterCofactors, Enter, Frames
  <2>2. Combine(e.f, e.g, e.h, tv) \in Frames
    BY <1>3, <1>4 DEF Combine, Frames
  <2>3. EnterCofactors(e, tv, FALSE) \in Frames /\ EnterCofactors(e, tv, TRUE) \in Frames
    BY <2>1
  <2> QED
    BY <2>2, <2>3, ThreeInSeq
<1>8. \A r \in Headers : VarOf(r)' = VarOf(r)
  BY <1>1 DEF arenaVars, VarOf
<1>9. ASSUME NEW v \in 0 .. tv, NEW i \in DOMAIN w PROVE ~ (Above(w[i], v)')
  <2>1. ASSUME NEW val \in BOOLEAN PROVE ~ Above(EnterCofactors(e, tv, val), v)
    <3> SUFFICES ASSUME NEW r \in {e.f, e.g, e.h}, IsNode(Cofactor(r, tv, val)),
                        VarOf(Cofactor(r, tv, val)) <= v
                 PROVE  FALSE
      BY DEF Above, EnterCofactors, Enter
    <3> PICK c : c = VarOf(Cofactor(r, tv, val))
      OBVIOUS
    <3>1. r \in Nodes /\ ~ CofactorPanics(r, tv)
      BY <1>3, <1>4
    <3>2. c \in Nat /\ c > tv
      BY <1>4, <3>1, CofactorAfter
    <3> QED
      BY <1>5, <3>2, MaxVarsAssumption
  <2>2. ~ Above(Combine(e.f, e.g, e.h, tv), v)
    BY DEF Above, Combine
  <2>3. ~ Above(w[i], v)
    <3>1. ~ Above(EnterCofactors(e, tv, FALSE), v) /\ ~ Above(EnterCofactors(e, tv, TRUE), v)
      BY <2>1
    <3> PICK a, b, c : /\ a = EnterCofactors(e, tv, FALSE)
                       /\ b = EnterCofactors(e, tv, TRUE)
                       /\ c = Combine(e.f, e.g, e.h, tv)
      OBVIOUS
    <3>2. w = <<a, b, c>>
      OBVIOUS
    <3>3. w[i] \in {a, b, c}
      BY ONLY <3>2, i \in DOMAIN w
    <3>4. ~ Above(a, v) /\ ~ Above(b, v) /\ ~ Above(c, v)
      BY <2>2, <3>1
    <3> QED
      BY ONLY <3>3, <3>4
  <2>4. Above(w[i], v)' <=> Above(w[i], v)
    BY <1>1 DEF Above, arenaVars, VarOf, IsNode
  <2> QED
    BY <2>3, <2>4
<1>10. ASSUME NEW v \in 0 .. tv
       PROVE  /\ EntersAbove(v)' \subseteq EntersAbove(v)
              /\ Len(stack) - 1 \notin EntersAbove(v)'
  <2>1. \A i \in DOMAIN w : ~ (Above(w[i], v)')
    BY ONLY <1>9, v \in 0 .. tv
  <2> QED
    BY <1>1, <1>2, <1>7, <1>8, <2>1, AboveKept
<1>11. Len(stack) - 1 \in EntersAbove(tv)
  <2>1. Len(stack) \in Nat /\ Len(stack) >= 1 /\ stack[1] = e
    BY <1>1 DEF CallTypeOK
  <2>2. Len(stack) - 1 \in 0 .. Len(stack) - 1 /\ Len(stack) - (Len(stack) - 1) = 1
    BY <2>1
  <2>3. Above(stack[Len(stack) - (Len(stack) - 1)], tv)
    BY <1>6, <2>1, <2>2
  <2> HIDE DEF Above
  <2> QED
    BY <2>2, <2>3 DEF EntersAbove
<1> PICK n, x, y : n = MaxVars + 2 /\ x = IteRank' /\ y = IteRank
  OBVIOUS
<1>12. n \in Nat /\ n >= 2 /\ x \in [1 .. n -> Nat] /\ y \in [1 .. n -> Nat]
  BY MaxVarsAssumption, IteRankType, IteRankTypeNext
<1>13. x[1] = y[1]
  <2>1. IteStage' = IteStage
    BY <1>1, <1>2 DEF IteStage
  <2> QED
    BY <1>12, <2>1 DEF IteRank
<1>14. ASSUME NEW v \in 0 .. tv
       PROVE  /\ v + 2 \in 1 .. n
              /\ x[v + 2] <= y[v + 2]
              /\ v = tv => x[v + 2] < y[v + 2]
  <2> PICK P, Q : P = EntersAbove(v) /\ Q = EntersAbove(v)'
    OBVIOUS
  <2>1. v + 2 \in 1 .. n /\ v + 2 # 1 /\ v + 2 # n /\ (v + 2) - 2 = v
    BY <1>5, MaxVarsAssumption
  <2>2. x[v + 2] = Cardinality(Q) /\ y[v + 2] = Cardinality(P)
    BY <2>1 DEF IteRank
  <2>3. IsFiniteSet(P) /\ Q \subseteq P
    BY <1>10, IteRankType
  <2>4. /\ Cardinality(Q) <= Cardinality(P)
        /\ \A d \in P : d \notin Q => Cardinality(Q) < Cardinality(P)
    BY <2>3, FewerMembers
  <2>5. v = tv => Len(stack) - 1 \in P /\ Len(stack) - 1 \notin Q
    BY <1>10, <1>11
  <2> QED
    BY <2>1, <2>2, <2>4, <2>5
<1> PICK j : j = tv + 2
  OBVIOUS
<1>15. tv \in 0 .. tv /\ j \in 1 .. n
  BY <1>5, MaxVarsAssumption
<1>16. x[j] < y[j]
  BY <1>14, <1>15
<1>17. ASSUME NEW m \in 1 .. j - 1 PROVE x[m] <= y[m]
  <2>1. CASE m = 1
    <3>1. x[1] \in Nat /\ y[1] \in Nat
      BY ONLY <1>12
    <3> QED
      BY ONLY <1>13, <2>1, <3>1
  <2>2. CASE m # 1
    <3> PICK v : v = m - 2
      OBVIOUS
    <3>1. v \in 0 .. tv /\ m = v + 2
      BY <1>5, <2>2, MaxVarsAssumption
    <3> QED
      BY <1>14, <3>1
  <2> QED
    BY <2>1, <2>2
<1>18. <<x, y>> \in Lower(n)
  BY ONLY <1>12, <1>15, <1>16, <1>17, LowerAt
<1> QED
  BY <1>18
LEMMA IteEnterKnownFalls ==
  ASSUME IInv, IInv', IteEnterKnown
  PROVE  <<IteRank', IteRank>> \in Lower(MaxVars + 2)
<1>1. /\ stack # <<>> /\ stack' = Tail(stack) /\ pc' = pc /\ call' = call /\ buf' = buf
      /\ CallTypeOK /\ CallTypeOK'
  BY DEF IteEnterKnown, PopEnter, arenaVars, IInv
<1>2. IteStage' = IteStage
  BY <1>1 DEF IteStage
<1>3. \A r \in Headers : VarOf(r)' = VarOf(r)
  BY <1>1 DEF VarOf
<1> QED
  BY <1>1, <1>2, <1>3, PopFalls

\* A node that Combine appends moves no node there was in the order.
LEMMA IteCombineFalls ==
  ASSUME IInv, IInv', NoPanic', IteCombine
  PROVE  <<IteRank', IteRank>> \in Lower(MaxVars + 2)
<1> USE DEF IInv
<1> PICK c, lo, hi : c = Head(stack) /\ lo = results[2] /\ hi = results[1]
  OBVIOUS
<1>1. stack # <<>> /\ c.kind = "combine" /\ numVars' = numVars
  BY DEF IteCombine
<1>2. ~ (Len(results) < 2 \/ MakeNodePanics(c.tv, lo, hi))
  <2>1. pc' # "panic"
    BY DEF NoPanic
  <2> HIDE DEF MakeNodePanics
  <2> QED
    BY <2>1 DEF IteCombine, Panic
<1>3. /\ \E r \in Refs : MakeNode(c.tv, lo, hi, r)
      /\ stack' = Tail(stack) /\ pc' = pc /\ call' = call
  <2> HIDE DEF MakeNodePanics, MakeNode
  <2> QED
    BY <1>2 DEF IteCombine
<1>4. lo \in Nodes /\ hi \in Nodes /\ c.tv \in 0 .. numVars - 1
  <2>1. Len(results) >= 2 /\ ~ (c.tv >= numVars)
    BY <1>2 DEF MakeNodePanics, CallTypeOK
  <2>2. lo \in Nodes /\ hi \in Nodes
    BY <2>1 DEF CallTypeOK
  <2>3. c.tv \in Nat
    BY <1>1, HeadType DEF Vars
  <2>4. numVars \in Nat
    BY MaxVarsAssumption DEF ArenaInv, BytesTypeOK
  <2> QED
    BY <2>1, <2>2, <2>3, <2>4
<1>5. \A r \in Headers : VarOf(r)' = VarOf(r)
  <2>1. CASE UNCHANGED arenaVars
    BY <2>1 DEF arenaVars, VarOf
  <2>2. CASE AppendNode(c.tv, lo, hi)
    <3> PICK n, v : n = bufLen /\ v = c.tv
      OBVIOUS
    <3>1. ArenaTypeOK /\ Reduced /\ v \in 0 .. numVars - 1 /\ AppendNode(v, lo, hi)
      BY <1>4, <2>2 DEF ArenaInv
    <3> HIDE DEF AppendNode
    <3> QED
      BY <1>4, <3>1, AppendFacts
  <2> QED
    BY <1>3, <2>1, <2>2 DEF MakeNode
<1>6. IteStage' = IteStage
  BY <1>3 DEF IteStage
<1> QED
  BY <1>1, <1>3, <1>5, <1>6, PopFalls

\* What comes before the loop, and the return, have the stage alone to fall.
LEMMA StageFalls ==
  ASSUME CallTypeOK, CallTypeOK', IteStage' < IteStage
  PROVE  <<IteRank', IteRank>> \in Lower(MaxVars + 2)
<1> PICK n, x, y : n = MaxVars + 2 /\ x = IteRank' /\ y = IteRank
  OBVIOUS
<1>1. n \in Nat /\ 1 \in 1 .. n /\ x \in [1 .. n -> Nat] /\ y \in [1 .. n -> Nat]
  BY MaxVarsAssumption, IteRankType, IteRankTypeNext
<1>2. x[1] < y[1]
  BY <1>1 DEF IteRank
<1>3. \A m \in 1 .. 1 - 1 : x[m] <= y[m]
  OBVIOUS
<1>4. <<x, y>> \in Lower(n)
  BY ONLY <1>1, <1>2, <1>3, LowerAt
<1> QED
  BY <1>4

LEMMA ReturnStage ==
  ASSUME CallTypeOK, pc \in {"probe", "loop"}, NEW r, Return(r)
  PROVE  IteStage' = IF call.then = <<>> THEN 0 ELSE 2
<1>1. CASE call.then = <<>>
  <2>1. pc' = "idle"
    BY <1>1 DEF Return
  <2> QED
    BY <1>1, <2>1 DEF IteStage
<1>2. CASE call.then # <<>>
  <2>1. /\ pc' = "probe"
        /\ call' = [call EXCEPT !.f = call.then[1].f, !.g = r,
                                !.h = call.then[1].h, !.then = <<>>]
    BY <1>2 DEF Return
  <2>2. call'.then = <<>>
    BY <2>1 DEF CallTypeOK, Calls
  <2> QED
    BY <1>2, <2>1, <2>2 DEF IteStage
<1> QED
  BY <1>1, <1>2

\* Each turn of ite's loop, the probe before it and the return leaves less of
\* the call to do, in an order with no endless descent: a call is a finite number
\* of turns, though a frame may become two (manager.rs:489-547).
THEOREM IteRunsOut ==
  ASSUME VarsFit
  PROVE  IInv /\ IteInv /\ [][Next]_vars =>
           [][IteStep => <<IteRank', IteRank>> \in Lower(MaxVars + 2)]_vars
<1>1. ASSUME CallInv, CallInv', IteStep
      PROVE  <<IteRank', IteRank>> \in Lower(MaxVars + 2)
  <2>1. /\ IInv /\ CallTypeOK /\ NoPanic
        /\ IInv' /\ CallTypeOK' /\ NoPanic'
    <3>1. IInv /\ IteInv
      BY <1>1, CallInvIsIteInv
    <3>2. (CallInv => IInv /\ IteInv)'
      BY CallInvIsIteInv, PTL
    <3>3. IInv' /\ IteInv'
      BY <1>1, <3>2
    <3> QED
      BY <3>1, <3>3 DEF IInv, IteInv
  <2>2. CASE IteKnown
    <3>1. pc = "probe" /\ \E r \in Known(call.f, call.g, call.h) : Return(r)
      BY <2>2 DEF IteKnown
    <3>2. IteStage' = IF call.then = <<>> THEN 0 ELSE 2
      BY <2>1, <3>1, ReturnStage
    <3>3. IteStage' < IteStage
      BY <3>1, <3>2 DEF IteStage
    <3> QED
      BY <2>1, <3>3, StageFalls
  <2>3. CASE IteBegin
    <3>1. pc = "probe" /\ pc' = "loop" /\ call' = call
      BY <2>3 DEF IteBegin
    <3>2. IteStage' < IteStage
      BY <3>1 DEF IteStage
    <3> QED
      BY <2>1, <3>2, StageFalls
  <2>4. CASE IteEnterKnown
    BY <2>1, <2>4, IteEnterKnownFalls
  <2>5. CASE IteExpand
    BY <2>1, <2>5, IteExpandFalls
  <2>6. CASE IteCombine
    BY <2>1, <2>6, IteCombineFalls
  <2>7. CASE IteReturn
    <3>1. pc = "loop" /\ pc' # "panic"
      BY <2>1, <2>7 DEF IteReturn, NoPanic
    <3>2. Return(Head(results))
      BY <2>7, <3>1 DEF IteReturn, Panic
    <3>3. IteStage' = IF call.then = <<>> THEN 0 ELSE 2
      BY <2>1, <3>1, <3>2, ReturnStage
    <3>4. IteStage' < IteStage \/ call.then # <<>>
      BY <3>1, <3>3 DEF IteStage
    <3>5. call.then # <<>> => IteStage' < IteStage
      BY <3>1, <3>3 DEF IteStage
    <3> QED
      BY <2>1, <3>4, <3>5, StageFalls
  <2> QED
    BY <1>1, <2>2, <2>3, <2>4, <2>5, <2>6, <2>7 DEF IteStep
<1>2. IInv /\ IteInv => CallInv
  BY CallInvIsIteInv
<1>3. CallInv /\ [Next]_vars => CallInv'
  BY NextCallInv
<1>4. CallInv /\ CallInv' /\ [Next]_vars =>
        [IteStep => <<IteRank', IteRank>> \in Lower(MaxVars + 2)]_vars
  BY <1>1
<1> QED
  BY <1>2, <1>3, <1>4, PTL
=============================================================================
