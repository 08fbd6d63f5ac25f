--------------------------- MODULE Diagram_proofs --------------------------
(***************************************************************************)
(* Lemmas for the proofs of the modules that read nodes: induction over    *)
(* the naturals with a set in place of a predicate, the remainder and the  *)
(* groups of a number, Boolean functions, and the functions the nodes of   *)
(* an arena stand for.                                                     *)
(***************************************************************************)
EXTENDS Diagram, WellFoundedInduction, TLAPS
-----------------------------------------------------------------------------
(* The naturals. *)

\* Every set of naturals with a member has a least one.
LEMMA NatSetMin ==
  ASSUME NEW S, S \subseteq Nat, S # {}
  PROVE  \E m \in S : \A n \in S : m <= n
<1> DEFINE R == {ss \in Nat \X Nat : ss[1] < ss[2]}
<1>1. IsWellFoundedOn(R, Nat)
  BY NatLessThanWellFounded DEF OpToRel
<1>2. PICK m \in S : \A n \in S : <<n, m>> \notin R
  <2> HIDE DEF R
  <2> QED
    BY <1>1, WFMin
<1>3. \A n \in S : ~ (n < m)
  BY <1>2
<1> QED
  BY <1>3

\* A set with 0 and every successor of a member has all the naturals.
LEMMA SetInduction ==
  ASSUME NEW S, 0 \in S, \A n \in Nat : n \in S => n + 1 \in S
  PROVE  Nat \subseteq S
<1> SUFFICES ASSUME Nat \ S # {} PROVE FALSE
  OBVIOUS
<1>1. PICK m \in Nat \ S : \A n \in Nat \ S : m <= n
  BY NatSetMin
<1>2. m - 1 \in Nat /\ (m - 1) + 1 = m
  BY <1>1
<1> QED
  BY <1>1, <1>2

\* A remainder is a slot.
LEMMA ModRange ==
  ASSUME NEW c \in Nat \ {0}, NEW a \in Nat
  PROVE  a % c \in 0 .. c - 1
OBVIOUS

\* r more leaves the remainder.
LEMMA ModShift ==
  ASSUME NEW r \in Nat \ {0, 1}, NEW d \in 0 .. r - 1
  PROVE  (r + d) % r = d
<1>1. PICK q \in Int, m \in 0 .. r - 1 : r + d = (r * q) + m /\ m = (r + d) % r
  <2>1. /\ (r + d) \div r \in Int /\ (r + d) % r \in 0 .. r - 1
        /\ r + d = (r * ((r + d) \div r)) + ((r + d) % r)
    OBVIOUS
  <2> QED
    BY <2>1
<1>2. CASE q <= 0
  <2>1. r * q <= 0
    BY <1>2
  <2> QED
    BY <1>1, <2>1
<1>3. CASE q >= 2
  <2>1. r * q >= r * 2
    BY <1>3
  <2> QED
    BY <1>1, <2>1
<1>4. CASE q = 1
  BY <1>1, <1>4
<1> QED
  BY <1>2, <1>3, <1>4

LEMMA MulSplit ==
  ASSUME NEW a \in Int, NEW b \in Int, NEW c \in Int, NEW d \in Int
  PROVE  a * ((b * c) + d) = ((a * b) * c) + (d * a)
<1>1. PICK p \in Int : p = b * c
  OBVIOUS
<1>2. a * (p + d) = (a * p) + (a * d)
  OBVIOUS
<1>3. a * (b * c) = (a * b) * c
  OBVIOUS
<1>4. a * d = d * a
  OBVIOUS
<1> QED
  BY <1>1, <1>2, <1>3, <1>4
-----------------------------------------------------------------------------
(* The groups of a number, least first, all but the last of them marked. *)

\* What division by r > 1 leaves is less.
LEMMA DivLess ==
  ASSUME NEW r \in Nat \ {0, 1}, NEW x \in Nat
  PROVE  /\ x \div r \in Nat
         /\ x > 0 => x \div r < x
         /\ x >= r => x \div r > 0
         /\ x = (r * (x \div r)) + (x % r)
OBVIOUS

Grouped(r, f, n) ==
  \A x \in 0 .. n :
    f[x] = IF x < r THEN <<x>> ELSE <<r + (x % r)>> \o f[x \div r]

\* Two functions that follow the equation agree where both do.
LEMMA GroupsAgree ==
  ASSUME NEW r \in Nat \ {0, 1}, NEW m \in Nat, NEW n \in Nat, NEW f, NEW g,
         Grouped(r, f, m), Grouped(r, g, n)
  PROVE  \A x \in 0 .. m : x <= n => f[x] = g[x]
<1> DEFINE A == {k \in Nat : \A x \in 0 .. k : x <= m /\ x <= n => f[x] = g[x]}
<1>1. ASSUME NEW x \in Nat, x <= m, x <= n,
             x >= r => f[x \div r] = g[x \div r]
      PROVE  f[x] = g[x]
  <2>1. x \in 0 .. m /\ x \in 0 .. n
    BY <1>1
  <2>2. /\ f[x] = IF x < r THEN <<x>> ELSE <<r + (x % r)>> \o f[x \div r]
        /\ g[x] = IF x < r THEN <<x>> ELSE <<r + (x % r)>> \o g[x \div r]
    BY <2>1 DEF Grouped
  <2> QED
    BY <1>1, <2>2
<1>2. 0 \in A
  <2>1. \A x \in 0 .. 0 : x = 0
    OBVIOUS
  <2> QED
    BY <1>1, <2>1
<1>3. ASSUME NEW k \in Nat, k \in A PROVE k + 1 \in A
  <2> SUFFICES ASSUME NEW x \in 0 .. k + 1, x <= m, x <= n PROVE f[x] = g[x]
    OBVIOUS
  <2>1. CASE x \in 0 .. k
    BY <1>3, <2>1
  <2>2. CASE x = k + 1
    <3>1. x >= r => x \div r \in 0 .. k /\ x \div r <= m /\ x \div r <= n
      BY <2>2, DivLess
    <3>2. x >= r => f[x \div r] = g[x \div r]
      BY <1>3, <3>1
    <3> QED
      BY <1>1, <3>2
  <2> QED
    BY <2>1, <2>2
<1>4. Nat \subseteq A
  <2> HIDE DEF A
  <2> QED
    BY <1>2, <1>3, SetInduction
<1> QED
  <2> TAKE x \in 0 .. m
  <2>1. x \in A /\ x \in 0 .. x
    BY <1>4
  <2> QED
    BY <2>1

\* The groups of every number are defined.
LEMMA GroupsDefined ==
  ASSUME NEW r \in Nat \ {0, 1}
  PROVE  \E f : f = [x \in Nat |-> IF x < r THEN <<x>>
                                   ELSE <<r + (x % r)>> \o f[x \div r]]
<1> DEFINE N == {n \in Nat : \E f : Grouped(r, f, n)}
           upto(n) == CHOOSE f : Grouped(r, f, n)
           f == [x \in Nat |-> upto(x)[x]]
<1>1. 0 \in N
  <2>1. Grouped(r, [x \in {0} |-> <<0>>], 0)
    BY DEF Grouped
  <2> QED
    BY <2>1
<1>2. ASSUME NEW n \in Nat, n \in N PROVE n + 1 \in N
  <2>1. PICK g : Grouped(r, g, n)
    BY <1>2
  <2> DEFINE m == n + 1
             last == IF m < r THEN <<m>> ELSE <<r + (m % r)>> \o g[m \div r]
             h == [x \in 0 .. m |-> IF x = m THEN last ELSE g[x]]
  <2>2. ASSUME NEW x \in 0 .. m
        PROVE  h[x] = IF x < r THEN <<x>> ELSE <<r + (x % r)>> \o h[x \div r]
    <3>1. x >= r => x \div r \in 0 .. n /\ x \div r # m
      BY DivLess
    <3>2. x >= r => h[x \div r] = g[x \div r]
      BY <3>1
    <3>3. CASE x = m
      <4>1. h[m] = last
        BY DEF h
      <4> HIDE DEF h, m
      <4> QED
        BY <3>2, <3>3, <4>1
    <3>4. CASE x # m
      <4>1. x \in 0 .. n /\ h[x] = g[x]
        BY <3>4
      <4>2. g[x] = IF x < r THEN <<x>> ELSE <<r + (x % r)>> \o g[x \div r]
        BY <2>1, <4>1 DEF Grouped
      <4> HIDE DEF h, m
      <4> QED
        BY <3>2, <4>1, <4>2
    <3> QED
      BY <3>3, <3>4
  <2>3. Grouped(r, h, m)
    <3> HIDE DEF h
    <3> QED
      BY <2>2 DEF Grouped
  <2>4. \E q : Grouped(r, q, m)
    <3> HIDE DEF h, m
    <3> QED
      BY <2>3
  <2> QED
    BY <2>4
<1>3. ASSUME NEW n \in Nat PROVE Grouped(r, upto(n), n)
  <2>1. Nat \subseteq N
    <3> HIDE DEF N
    <3> QED
      BY <1>1, <1>2, SetInduction
  <2>2. \E g : Grouped(r, g, n)
    BY <2>1
  <2> QED
    BY <2>2
<1> HIDE DEF upto
<1>4. ASSUME NEW x \in Nat
      PROVE  f[x] = IF x < r THEN <<x>> ELSE <<r + (x % r)>> \o f[x \div r]
  <2>1. f[x] = upto(x)[x] /\ x \in 0 .. x
    OBVIOUS
  <2>2. upto(x)[x] = IF x < r THEN <<x>>
                     ELSE <<r + (x % r)>> \o upto(x)[x \div r]
    BY <1>3, <2>1 DEF Grouped
  <2>3. CASE x < r
    BY <2>1, <2>2, <2>3
  <2>4. CASE x >= r
    <3>1. PICK d \in Nat : d = x \div r /\ d <= x
      BY <2>4, DivLess
    <3>2. \A y \in 0 .. d : y <= x => upto(d)[y] = upto(x)[y]
      BY <1>3, GroupsAgree
    <3>3. f[d] = upto(x)[d]
      BY <3>1, <3>2
    <3> QED
      BY <2>1, <2>2, <2>4, <3>1, <3>3
  <2> QED
    BY <2>3, <2>4
<1>5. f = [x \in Nat |-> IF x < r THEN <<x>> ELSE <<r + (x % r)>> \o f[x \div r]]
  <2> DEFINE e == [x \in Nat |-> IF x < r THEN <<x>>
                                 ELSE <<r + (x % r)>> \o f[x \div r]]
  <2>1. \A x \in Nat : f[x] = e[x]
    BY <1>4
  <2> HIDE DEF f
  <2>2. f = [x \in Nat |-> f[x]]
    BY DEF f
  <2> QED
    BY <2>1, <2>2
<1> QED
  <2> HIDE DEF f
  <2> QED
    BY <1>5

\* There is at least one group, and each is a number.
LEMMA GroupsType ==
  ASSUME NEW r \in Nat \ {0, 1}, NEW f,
         \A x \in Nat : f[x] = IF x < r THEN <<x>>
                               ELSE <<r + (x % r)>> \o f[x \div r]
  PROVE  \A x \in Nat : f[x] \in Seq(Nat) /\ Len(f[x]) \in Nat \ {0}
<1> DEFINE A == {k \in Nat : \A x \in 0 .. k :
                   f[x] \in Seq(Nat) /\ Len(f[x]) \in Nat \ {0}}
<1>1. ASSUME NEW x \in Nat,
             x >= r => f[x \div r] \in Seq(Nat) /\ Len(f[x \div r]) \in Nat \ {0}
      PROVE  f[x] \in Seq(Nat) /\ Len(f[x]) \in Nat \ {0}
  <2>0. f[x] = IF x < r THEN <<x>> ELSE <<r + (x % r)>> \o f[x \div r]
    OBVIOUS
  <2>1. CASE x < r
    <3>1. f[x] = <<x>>
      BY <2>0, <2>1
    <3> QED
      BY <3>1
  <2>2. CASE x >= r
    <3>1. x % r \in Nat /\ <<r + (x % r)>> \in Seq(Nat)
      OBVIOUS
    <3>2. PICK s \in Seq(Nat) : s = f[x \div r] /\ Len(s) \in Nat \ {0}
      BY <1>1, <2>2
    <3>3. ~ (x < r)
      BY <2>2
    <3>4. f[x] = <<r + (x % r)>> \o s
      BY <2>0, <3>2, <3>3, Zenon
    <3> QED
      BY <3>1, <3>2, <3>4
  <2> QED
    BY <2>1, <2>2
<1>2. 0 \in A
  <2>1. \A x \in 0 .. 0 : x = 0
    OBVIOUS
  <2> QED
    BY <1>1, <2>1
<1>3. ASSUME NEW k \in Nat, k \in A PROVE k + 1 \in A
  <2> SUFFICES ASSUME NEW x \in 0 .. k + 1
               PROVE  f[x] \in Seq(Nat) /\ Len(f[x]) \in Nat \ {0}
    OBVIOUS
  <2>1. CASE x \in 0 .. k
    BY <1>3, <2>1
  <2>2. CASE x = k + 1
    <3>1. x >= r => x \div r \in 0 .. k
      BY <2>2, DivLess
    <3>2. x >= r => f[x \div r] \in Seq(Nat) /\ Len(f[x \div r]) \in Nat \ {0}
      BY <1>3, <3>1
    <3> QED
      BY <1>1, <3>2
  <2> QED
    BY <2>1, <2>2
<1>4. Nat \subseteq A
  <2> HIDE DEF A
  <2> QED
    BY <1>2, <1>3, SetInduction
<1> QED
  <2> TAKE x \in Nat
  <2>1. x \in A /\ x \in 0 .. x
    BY <1>4
  <2> QED
    BY <2>1
-----------------------------------------------------------------------------
(* Boolean functions. *)

\* A node on v decides v: its function depends on v when its children differ.
LEMMA ShannonDepends ==
  ASSUME NEW v \in Vars, NEW lo \in Functions, NEW hi \in Functions,
         IndependentOf(lo, v), IndependentOf(hi, v),
         IndependentOf(Shannon(v, lo, hi), v)
  PROVE  lo = hi
<1>1. ASSUME NEW a \in Assignments PROVE a \in lo <=> a \in hi
  <2> DEFINE up == a \cup {v}
             dn == a \ {v}
  <2>1. up \in Assignments /\ dn \in Assignments /\ (a = up \/ a = dn)
    BY DEF Assignments
  <2>2. up \in Shannon(v, lo, hi) <=> up \in hi
    BY <2>1 DEF Shannon
  <2>3. dn \in Shannon(v, lo, hi) <=> dn \in lo
    BY <2>1 DEF Shannon
  <2>4. up \in lo <=> dn \in lo
    BY DEF IndependentOf
  <2>5. up \in hi <=> dn \in hi
    BY DEF IndependentOf
  <2>6. up \in Shannon(v, lo, hi) <=> dn \in Shannon(v, lo, hi)
    BY DEF IndependentOf
  <2> QED
    BY <2>1, <2>2, <2>3, <2>4, <2>5, <2>6
<1> QED
  BY <1>1 DEF Functions

\* Two nodes on v with the same function have the same children's functions.
LEMMA ShannonInjective ==
  ASSUME NEW v \in Vars,
         NEW lo \in Functions, NEW hi \in Functions,
         NEW lo2 \in Functions, NEW hi2 \in Functions,
         IndependentOf(lo, v), IndependentOf(hi, v),
         IndependentOf(lo2, v), IndependentOf(hi2, v),
         Shannon(v, lo, hi) = Shannon(v, lo2, hi2)
  PROVE  lo = lo2 /\ hi = hi2
<1>1. ASSUME NEW a \in Assignments
      PROVE  (a \in lo <=> a \in lo2) /\ (a \in hi <=> a \in hi2)
  <2> DEFINE up == a \cup {v}
             dn == a \ {v}
  <2>1. up \in Assignments /\ dn \in Assignments /\ (a = up \/ a = dn)
    BY DEF Assignments
  <2>2. up \in hi <=> up \in hi2
    BY <2>1 DEF Shannon
  <2>3. dn \in lo <=> dn \in lo2
    BY <2>1 DEF Shannon
  <2>4. (up \in lo <=> dn \in lo) /\ (up \in lo2 <=> dn \in lo2)
    BY DEF IndependentOf
  <2>5. (up \in hi <=> dn \in hi) /\ (up \in hi2 <=> dn \in hi2)
    BY DEF IndependentOf
  <2> QED
    BY <2>1, <2>2, <2>3, <2>4, <2>5
<1> QED
  BY <1>1 DEF Functions

\* A variable neither child depends on, the node does not depend on.
LEMMA ShannonIndependent ==
  ASSUME NEW v \in Vars, NEW u \in Vars, u # v,
         NEW lo \in Functions, NEW hi \in Functions,
         IndependentOf(lo, u), IndependentOf(hi, u)
  PROVE  IndependentOf(Shannon(v, lo, hi), u)
<1>1. ASSUME NEW a \in Assignments
      PROVE  a \cup {u} \in Shannon(v, lo, hi) <=> a \ {u} \in Shannon(v, lo, hi)
  <2>1. a \cup {u} \in Assignments /\ a \ {u} \in Assignments
    BY DEF Assignments
  <2>2. v \in a \cup {u} <=> v \in a \ {u}
    OBVIOUS
  <2>3. a \cup {u} \in lo <=> a \ {u} \in lo
    BY DEF IndependentOf
  <2>4. a \cup {u} \in hi <=> a \ {u} \in hi
    BY DEF IndependentOf
  <2> QED
    BY <2>1, <2>2, <2>3, <2>4 DEF Shannon
<1> QED
  BY <1>1 DEF IndependentOf

\* A variable one of the children depends on, and not its own, the node
\* depends on.
LEMMA ShannonKeeps ==
  ASSUME NEW v \in Vars, NEW u \in Vars, u # v,
         NEW lo \in Functions, NEW hi \in Functions,
         IndependentOf(lo, v), IndependentOf(hi, v),
         IndependentOf(Shannon(v, lo, hi), u)
  PROVE  IndependentOf(lo, u) /\ IndependentOf(hi, u)
<1>1. ASSUME NEW a \in Assignments
      PROVE  /\ a \cup {u} \in lo <=> a \ {u} \in lo
             /\ a \cup {u} \in hi <=> a \ {u} \in hi
  <2> DEFINE dn == a \ {v}
             up == a \cup {v}
  <2>1. dn \in Assignments /\ up \in Assignments
    BY DEF Assignments
  <2>2. /\ dn \cup {u} \in Assignments /\ dn \ {u} \in Assignments
        /\ up \cup {u} \in Assignments /\ up \ {u} \in Assignments
        /\ a \cup {u} \in Assignments /\ a \ {u} \in Assignments
    BY DEF Assignments
  <2>3. /\ (a \cup {u}) \ {v} = dn \cup {u} /\ (a \ {u}) \ {v} = dn \ {u}
        /\ (a \cup {u}) \cup {v} = up \cup {u} /\ (a \ {u}) \cup {v} = up \ {u}
    BY <1>1
  <2>4. dn \cup {u} \in Shannon(v, lo, hi) <=> dn \ {u} \in Shannon(v, lo, hi)
    BY <2>1 DEF IndependentOf
  <2>5. up \cup {u} \in Shannon(v, lo, hi) <=> up \ {u} \in Shannon(v, lo, hi)
    BY <2>1 DEF IndependentOf
  <2>6. dn \cup {u} \in lo <=> dn \ {u} \in lo
    BY <2>2, <2>4 DEF Shannon
  <2>7. up \cup {u} \in hi <=> up \ {u} \in hi
    BY <2>2, <2>5 DEF Shannon
  <2>8. ASSUME NEW x \in Assignments
        PROVE  /\ x \in lo <=> x \ {v} \in lo
               /\ x \in hi <=> x \cup {v} \in hi
    <3>1. x = x \cup {v} \/ x = x \ {v}
      OBVIOUS
    <3> QED
      BY <2>8, <3>1 DEF IndependentOf
  <2> QED
    BY <2>2, <2>3, <2>6, <2>7, <2>8
<1> QED
  BY <1>1 DEF IndependentOf

\* The constants depend on no variable.
LEMMA ConstantsIndependent ==
  ASSUME NEW u \in Vars
  PROVE  IndependentOf(FalseFn, u) /\ IndependentOf(TrueFn, u)
BY DEF IndependentOf, FalseFn, TrueFn, Assignments
-----------------------------------------------------------------------------
(* The functions of an arena's nodes. *)

\* What Shannon makes of functions is one.
LEMMA ShannonFn ==
  ASSUME NEW v, NEW lo, NEW hi
  PROVE  Shannon(v, lo, hi) \in Functions
BY DEF Shannon, Functions

\* The children of each node of b are terminals or nodes before it.
Rooted(b) ==
  \A o \in DOMAIN b : \A c \in {Decode(b, o).lo, Decode(b, o).hi} :
    c \in Terminals \/ (c \in DOMAIN b /\ c < o)

\* A node's function is made of those of the nodes before it.
LEMMA NodeFnBelow ==
  ASSUME NEW b, Rooted(b), NEW o \in DOMAIN b, NEW g, NEW h,
         \A q \in DOMAIN b : q < o => g[q] = h[q]
  PROVE  /\ NodeFn(b, g, o) = NodeFn(b, h, o)
         /\ NodeFn(b, g, o) = Shannon(b[o].var, FnIn(g, Decode(b, o).lo),
                                               FnIn(g, Decode(b, o).hi))
<1> DEFINE n == Decode(b, o)
<1>1. ASSUME NEW c \in {n.lo, n.hi}
      PROVE  c \in Terminals \cup DOMAIN b /\ FnIn(g, c) = FnIn(h, c)
  <2>1. c \in Terminals \/ (c \in DOMAIN b /\ c < o)
    BY DEF Rooted
  <2> QED
    BY <2>1 DEF FnIn, Terminals
<1>2. n.var = b[o].var
  BY DEF Decode
<1>3. n.lo \in {n.lo, n.hi} /\ n.hi \in {n.lo, n.hi}
  OBVIOUS
<1> HIDE DEF n
<1> QED
  BY <1>1, <1>2, <1>3 DEF NodeFn, n

\* In a finite arena the equations of the nodes' functions have a solution, and
\* Meanings is one.
LEMMA MeaningsDef ==
  ASSUME NEW b, NEW m \in Nat, DOMAIN b \subseteq 0 .. m, Rooted(b)
  PROVE  /\ Meanings(b) \in [DOMAIN b -> Functions]
         /\ \A o \in DOMAIN b : Meanings(b)[o] = NodeFn(b, Meanings(b), o)
<1> DEFINE S == DOMAIN b
           Solves(n, g) == \A o \in S : o < n => g[o] = NodeFn(b, g, o)
           N == {n \in Nat : \E g \in [S -> Functions] : Solves(n, g)}
<1>1. 0 \in N
  <2>1. [o \in S |-> {}] \in [S -> Functions]
    BY DEF Functions
  <2>2. Solves(0, [o \in S |-> {}])
    OBVIOUS
  <2> QED
    BY <2>1, <2>2
<1>2. ASSUME NEW n \in Nat, n \in N PROVE n + 1 \in N
  <2>1. PICK g \in [S -> Functions] : Solves(n, g)
    BY <1>2
  <2> DEFINE h == [o \in S |-> IF o = n THEN NodeFn(b, g, n) ELSE g[o]]
  <2>2. NodeFn(b, g, n) \in Functions
    BY ShannonFn DEF NodeFn
  <2>3. h \in [S -> Functions]
    BY <2>1, <2>2
  <2>4. ASSUME NEW o \in S, o < n + 1 PROVE h[o] = NodeFn(b, h, o)
    <3>1. \A q \in S : q < o => g[q] = h[q]
      BY <2>4
    <3> HIDE DEF h
    <3>2. NodeFn(b, g, o) = NodeFn(b, h, o)
      BY <3>1, NodeFnBelow
    <3>3. h[o] = NodeFn(b, g, o)
      <4>1. CASE o = n
        BY <4>1 DEF h
      <4>2. CASE o # n
        <5>1. o < n
          BY <2>4, <4>2
        <5> QED
          BY <2>1, <4>2, <5>1 DEF h
      <4> QED
        BY <4>1, <4>2
    <3> QED
      BY <3>2, <3>3
  <2> HIDE DEF h
  <2> QED
    BY <2>3, <2>4
<1>3. Nat \subseteq N
  <2> HIDE DEF N
  <2> QED
    BY <1>1, <1>2, SetInduction
<1>4. PICK g \in [S -> Functions] : Solves(m + 1, g)
  BY <1>3
<1>5. g = [o \in S |-> NodeFn(b, g, o)]
  BY <1>4
<1>6. Meanings(b) = [o \in S |-> NodeFn(b, Meanings(b), o)]
  <2>1. Meanings(b) = CHOOSE f : f = [o \in S |-> NodeFn(b, f, o)]
    BY DEF Meanings
  <2> QED
    BY <1>5, <2>1
<1>7. \A o \in S : NodeFn(b, Meanings(b), o) \in Functions
  BY ShannonFn DEF NodeFn
<1> QED
  BY <1>6, <1>7

\* They have no other solution.
LEMMA MeaningsUnique ==
  ASSUME NEW b, NEW m \in Nat, DOMAIN b \subseteq 0 .. m, Rooted(b),
         NEW g, \A o \in DOMAIN b : g[o] = NodeFn(b, g, o)
  PROVE  \A o \in DOMAIN b : g[o] = Meanings(b)[o]
<1> PICK h : h = Meanings(b)
  OBVIOUS
<1>1. \A o \in DOMAIN b : h[o] = NodeFn(b, h, o)
  BY MeaningsDef
<1> DEFINE N == {n \in Nat : \A o \in DOMAIN b : o < n => g[o] = h[o]}
<1>2. 0 \in N
  OBVIOUS
<1>3. ASSUME NEW n \in Nat, n \in N PROVE n + 1 \in N
  <2> SUFFICES ASSUME NEW o \in DOMAIN b, o < n + 1 PROVE g[o] = h[o]
    OBVIOUS
  <2>1. \A q \in DOMAIN b : q < o => g[q] = h[q]
    BY <1>3
  <2>2. NodeFn(b, g, o) = NodeFn(b, h, o)
    BY <2>1, NodeFnBelow
  <2> QED
    BY <1>1, <2>2
<1>4. Nat \subseteq N
  <2> HIDE DEF N
  <2> QED
    BY <1>2, <1>3, SetInduction
<1>5. m + 1 \in N
  BY <1>4
<1> QED
  BY <1>5
-----------------------------------------------------------------------------
(* Ranks. *)

\* n numbers are lower than n others when the first in which they differ is.
LessThan == {p \in Nat \X Nat : p[1] < p[2]}
Lower(n) == LexProductOrdering(LessThan, Nat, n)

\* There is no endless descent.
LEMMA LowerEnds == \A n \in Nat : IsWellFoundedOn(Lower(n), [1 .. n -> Nat])
<1>1. IsWellFoundedOn(LessThan, Nat)
  BY NatLessThanWellFounded DEF OpToRel, LessThan
<1> QED
  BY <1>1, WFLexProductOrdering DEF Lower

\* A number falls, and none before it grows.
LEMMA LowerAt ==
  ASSUME NEW n \in Nat, NEW x \in [1 .. n -> Nat], NEW y \in [1 .. n -> Nat],
         NEW j \in 1 .. n, x[j] < y[j], \A m \in 1 .. j - 1 : x[m] <= y[m]
  PROVE  <<x, y>> \in Lower(n)
<1> DEFINE D == {m \in 1 .. n : x[m] < y[m]}
<1>1. PICK k \in D : \A m \in D : k <= m
  <2>1. D \subseteq Nat /\ j \in D
    OBVIOUS
  <2> HIDE DEF D
  <2> QED
    BY <2>1, NatSetMin
<1>2. k \in 1 .. n /\ x[k] < y[k] /\ k <= j
  BY <1>1
<1>3. \A m \in 1 .. k - 1 : x[m] = y[m]
  <2> SUFFICES ASSUME NEW m \in 1 .. k - 1 PROVE x[m] = y[m]
    OBVIOUS
  <2>1. m \in 1 .. n /\ m \in 1 .. j - 1 /\ ~ (k <= m)
    BY <1>2
  <2>2. ~ (x[m] < y[m])
    BY <1>1, <2>1
  <2>3. x[m] \in Nat /\ y[m] \in Nat /\ x[m] <= y[m]
    BY <2>1
  <2> QED
    BY <2>2, <2>3
<1>4. \A m \in 1 .. n : x[m] \in Nat /\ y[m] \in Nat
  OBVIOUS
<1> QED
  BY <1>2, <1>3, <1>4 DEF Lower, LexProductOrdering, LessThan

\* One number falls, and those before it stay.
Falls(a, b, c, d, p, q, r, t) ==
  \/ p < a
  \/ p = a /\ q < b
  \/ p = a /\ q = b /\ r < c
  \/ p = a /\ q = b /\ r = c /\ t < d

LEMMA FallsIsLower ==
  ASSUME NEW a \in Nat, NEW b \in Nat, NEW c \in Nat, NEW d \in Nat,
         NEW p \in Nat, NEW q \in Nat, NEW r \in Nat, NEW t \in Nat,
         Falls(a, b, c, d, p, q, r, t)
  PROVE  <<<<p, q, r, t>>, <<a, b, c, d>>>> \in Lower(4)
<1> PICK x, y : x = <<p, q, r, t>> /\ y = <<a, b, c, d>>
  OBVIOUS
<1>1. /\ x[1] = p /\ x[2] = q /\ x[3] = r /\ x[4] = t
      /\ y[1] = a /\ y[2] = b /\ y[3] = c /\ y[4] = d
  OBVIOUS
<1>2. x \in [1 .. 4 -> Nat] /\ y \in [1 .. 4 -> Nat]
  OBVIOUS
<1>3. \E j \in 1 .. 4 : /\ \A m \in 1 .. j - 1 : x[m] = y[m]
                       /\ x[j] < y[j]
  <2>1. CASE p < a
    <3>1. \A m \in 1 .. 1 - 1 : x[m] = y[m]
      OBVIOUS
    <3> QED
      BY <1>1, <2>1, <3>1
  <2>2. CASE p = a /\ q < b
    <3>1. \A m \in 1 .. 2 - 1 : x[m] = y[m]
      BY <1>1, <2>2
    <3> QED
      BY <1>1, <2>2, <3>1
  <2>3. CASE p = a /\ q = b /\ r < c
    <3>1. \A m \in 1 .. 3 - 1 : x[m] = y[m]
      BY <1>1, <2>3
    <3> QED
      BY <1>1, <2>3, <3>1
  <2>4. CASE p = a /\ q = b /\ r = c /\ t < d
    <3>1. \A m \in 1 .. 4 - 1 : x[m] = y[m]
      BY <1>1, <2>4
    <3> QED
      BY <1>1, <2>4, <3>1
  <2> QED
    BY <2>1, <2>2, <2>3, <2>4 DEF Falls
<1>4. \A m \in 1 .. 4 : x[m] \in Nat /\ y[m] \in Nat
  BY <1>2
<1> QED
  BY <1>2, <1>3, <1>4 DEF Lower, LexProductOrdering, LessThan
=============================================================================
