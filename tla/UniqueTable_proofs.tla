------------------------ MODULE UniqueTable_proofs -------------------------
(***************************************************************************)
(* Proofs about the unique table: its chains stay whole, it never fills,   *)
(* and it is the set of offsets that Manager keeps for it.                 *)
(***************************************************************************)
EXTENDS UniqueTable, FunctionTheorems, FiniteSetTheorems,
        WellFoundedInduction, TLAPS
-----------------------------------------------------------------------------
(* The naturals. *)

\* Every set of naturals with a member has a least one.
LEMMA NatSetMin ==
  ASSUME NEW S, S \subseteq Nat, S # {}
  PROVE  \E m \in S : \A n \in S : m <= n
<1> DEFINE R == {ss \in Nat \X Nat : ss[1] < ss[2]}
<1>1. IsWellFoundedOn(R, Nat)
  BY NatLessThanWellFounded DEF OpToRel
<1>2. PICK m \in S : \A n \in S : <<n, m>> \notin R
  <2> HIDE DEF R
  <2> QED
    BY <1>1, WFMin
<1>3. \A n \in S : ~ (n < m)
  BY <1>2
<1> QED
  BY <1>3

\* A set with 0 and every successor of a member has all the naturals.
LEMMA SetInduction ==
  ASSUME NEW S, 0 \in S, \A n \in Nat : n \in S => n + 1 \in S
  PROVE  Nat \subseteq S
<1> SUFFICES ASSUME Nat \ S # {} PROVE FALSE
  OBVIOUS
<1>1. PICK m \in Nat \ S : \A n \in Nat \ S : m <= n
  BY NatSetMin
<1>2. m - 1 \in Nat /\ (m - 1) + 1 = m
  BY <1>1
<1> QED
  BY <1>1, <1>2

\* A remainder is a slot.
LEMMA ModRange ==
  ASSUME NEW c \in Nat \ {0}, NEW a \in Nat
  PROVE  a % c \in 0 .. c - 1
OBVIOUS

\* The slot after the last is the first.
LEMMA ModNext ==
  ASSUME NEW c \in Nat \ {0}, NEW a \in 0 .. c - 1
  PROVE  (a + 1) % c = IF a = c - 1 THEN 0 ELSE a + 1
OBVIOUS
-----------------------------------------------------------------------------
(* The capacities. *)

\* A table of c slots, empty.
LEMMA EmptyCap ==
  ASSUME NEW c \in Nat
  PROVE  /\ DOMAIN EmptySlots(c) = 0 .. c - 1
         /\ Cardinality(DOMAIN EmptySlots(c)) = c
<1>1. DOMAIN EmptySlots(c) = 0 .. c - 1
  BY DEF EmptySlots
<1>2. Cardinality(0 .. c - 1) = c
  BY FS_Interval
<1> QED
  BY <1>1, <1>2

\* What resize_for's loop computes is defined at every number of doublings.
LEMMA DoubledDef ==
  Doubled = [e \in Nat |-> IF e = 0 THEN InitialCap ELSE 2 * Doubled[e - 1]]
<1> DEFINE Upto(n, g) == \A e \in 0 .. n :
             g[e] = IF e = 0 THEN InitialCap ELSE 2 * g[e - 1]
           N == {n \in Nat : \E g : Upto(n, g)}
           f == [n \in Nat |-> (CHOOSE g : Upto(n, g))[n]]
<1>1. 0 \in N
  <2>1. Upto(0, [e \in {0} |-> InitialCap])
    OBVIOUS
  <2> QED
    BY <2>1
<1>2. ASSUME NEW n \in Nat, n \in N PROVE n + 1 \in N
  <2>1. PICK g : Upto(n, g)
    BY <1>2
  <2> DEFINE h == [e \in 0 .. n + 1 |-> IF e = n + 1 THEN 2 * g[n] ELSE g[e]]
  <2>2. ASSUME NEW e \in 0 .. n + 1
        PROVE  h[e] = IF e = 0 THEN InitialCap ELSE 2 * h[e - 1]
    <3>1. CASE e = n + 1
      BY <3>1
    <3>2. CASE e # n + 1
      <4>1. e \in 0 .. n /\ (e = 0 \/ e - 1 \in 0 .. n)
        BY <3>2
      <4> QED
        BY <2>1, <4>1
    <3> QED
      BY <3>1, <3>2
  <2>3. Upto(n + 1, h)
    BY ONLY <2>2
  <2>4. \E q : Upto(n + 1, q)
    <3> HIDE DEF h, Upto
    <3> QED
      BY <2>3
  <2> QED
    BY <2>4
<1>3. Nat \subseteq N
  <2> HIDE DEF N
  <2> QED
    BY <1>1, <1>2, SetInduction
\* Two functions that follow the equation agree.
<1>4. ASSUME NEW m \in Nat, NEW n \in Nat, NEW g, NEW h, Upto(m, g), Upto(n, h)
      PROVE  \A e \in 0 .. m : e <= n => g[e] = h[e]
  <2> DEFINE A == {e \in Nat : e <= m /\ e <= n => g[e] = h[e]}
  <2>1. 0 \in A
    BY <1>4
  <2>2. ASSUME NEW e \in Nat, e \in A PROVE e + 1 \in A
    <3> SUFFICES ASSUME e + 1 <= m, e + 1 <= n PROVE g[e + 1] = h[e + 1]
      OBVIOUS
    <3>1. g[e] = h[e]
      BY <2>2
    <3>2. e + 1 \in 0 .. m /\ e + 1 \in 0 .. n /\ e + 1 # 0 /\ (e + 1) - 1 = e
      OBVIOUS
    <3>3. g[e + 1] = 2 * g[e] /\ h[e + 1] = 2 * h[e]
      BY <1>4, <3>2
    <3> QED
      BY <3>1, <3>3
  <2>3. Nat \subseteq A
    <3> HIDE DEF A
    <3> QED
      BY <2>1, <2>2, SetInduction
  <2> QED
    BY <2>3
<1>5. ASSUME NEW n \in Nat PROVE Upto(n, CHOOSE g : Upto(n, g))
  <2>1. \E g : Upto(n, g)
    BY <1>3
  <2> QED
    BY <2>1
<1>6. ASSUME NEW n \in Nat
      PROVE  f[n] = IF n = 0 THEN InitialCap ELSE 2 * f[n - 1]
  <2> PICK g : g = CHOOSE q : Upto(n, q)
    OBVIOUS
  <2>1. Upto(n, g) /\ f[n] = g[n]
    BY <1>5
  <2>2. CASE n = 0
    BY <2>1, <2>2
  <2>3. CASE n # 0
    <3>1. n - 1 \in Nat /\ n \in 0 .. n /\ n - 1 \in 0 .. n - 1 /\ n - 1 <= n
      BY <2>3
    <3> PICK h : h = CHOOSE q : Upto(n - 1, q)
      OBVIOUS
    <3>2. Upto(n - 1, h) /\ f[n - 1] = h[n - 1]
      BY <1>5, <3>1
    <3>3. h[n - 1] = g[n - 1]
      <4> HIDE DEF Upto
      <4> QED
        BY <1>4, <2>1, <3>1, <3>2
    <3> QED
      BY <2>1, <2>3, <3>1, <3>2, <3>3
  <2> QED
    BY <2>2, <2>3
<1>7. f = [n \in Nat |-> IF n = 0 THEN InitialCap ELSE 2 * f[n - 1]]
  BY <1>6
<1>8. \E d : d = [n \in Nat |-> IF n = 0 THEN InitialCap ELSE 2 * d[n - 1]]
  <2> HIDE DEF f
  <2> QED
    BY <1>7
<1> QED
  BY <1>8 DEF Doubled

\* resize_for's table is as small as its load allows, and has room for n.
LEMMA CapForFits ==
  ASSUME NEW n \in Nat
  PROVE  /\ CapFor(n) \in Nat \ {0}
         /\ n <= (3 * CapFor(n)) \div 4
<1> DEFINE need(m) == (m * 4 + 2) \div 3
<1>1. \A e \in Nat : Doubled[e] = IF e = 0 THEN InitialCap ELSE 2 * Doubled[e - 1]
  BY DoubledDef
<1>2. \A e \in Nat : Doubled[e] \in Nat \ {0} /\ Doubled[e] >= need(e)
  <2> DEFINE A == {e \in Nat : Doubled[e] \in Nat \ {0} /\ Doubled[e] >= need(e)}
  <2>1. 0 \in A
    BY <1>1, UniqueTableAssumption
  <2>2. ASSUME NEW e \in Nat, e \in A PROVE e + 1 \in A
    <3>1. Doubled[e + 1] = 2 * Doubled[e]
      BY <1>1
    <3>2. PICK d : d = Doubled[e]
      OBVIOUS
    <3>3. d \in Nat \ {0} /\ d >= need(e)
      BY <2>2, <3>2
    <3>4. 2 * d \in Nat \ {0} /\ 2 * d >= need(e + 1)
      BY <3>3
    <3> QED
      BY <3>1, <3>2, <3>4
  <2>3. Nat \subseteq A
    <3> HIDE DEF A
    <3> QED
      BY <2>1, <2>2, SetInduction
  <2> QED
    BY <2>3
<1>3. PICK e \in {d \in 0 .. n : Doubled[d] >= need(n)} :
        \A d \in 0 .. n : Doubled[d] >= need(n) => e <= d
  <2> DEFINE A == {d \in 0 .. n : Doubled[d] >= need(n)}
  <2>1. A \subseteq Nat /\ A # {}
    BY <1>2
  <2>2. PICK e \in A : \A d \in A : e <= d
    <3> HIDE DEF A
    <3> QED
      BY <2>1, NatSetMin
  <2> QED
    BY <2>2
<1>4. Doubled[e] = InitialCap \/ Doubled[e] \div 2 < need(n)
  <2>1. CASE e = 0
    BY <1>1, <2>1
  <2>2. CASE e # 0
    <3>1. e - 1 \in 0 .. n /\ ~ (e <= e - 1) /\ e \in Nat /\ e - 1 \in Nat
      BY <2>2
    <3>2. ~ (Doubled[e - 1] >= need(n)) /\ Doubled[e] = 2 * Doubled[e - 1]
      BY <1>1, <1>3, <2>2, <3>1
    <3>3. PICK d : d = Doubled[e - 1]
      OBVIOUS
    <3>4. d \in Nat /\ ~ (d >= need(n)) /\ Doubled[e] = 2 * d
      BY <1>2, <3>1, <3>2, <3>3
    <3>5. (2 * d) \div 2 = d
      BY <3>4
    <3> QED
      BY <3>4, <3>5
  <2> QED
    BY <2>1, <2>2
<1>5. \E c \in {Doubled[d] : d \in 0 .. n} :
        c >= need(n) /\ (c = InitialCap \/ c \div 2 < need(n))
  BY <1>3, <1>4
<1>6. /\ CapFor(n) \in {Doubled[d] : d \in 0 .. n}
      /\ CapFor(n) >= need(n)
  BY <1>5 DEF CapFor
<1>7. PICK c : c = CapFor(n)
  OBVIOUS
<1>8. c \in Nat \ {0} /\ c >= need(n)
  BY <1>2, <1>6, <1>7
<1>9. n <= (3 * c) \div 4
  BY <1>8
<1> QED
  BY <1>7, <1>8, <1>9
-----------------------------------------------------------------------------
(* Chains. *)

LEMMA ChainHome ==
  ASSUME NEW c \in Nat \ {0}, NEW h \in 0 .. c - 1
  PROVE  Chain(h, h, c) = {h}
BY DEF Chain

\* A probe's next turn adds the slot it leaves to those it has passed.
LEMMA ChainNext ==
  ASSUME NEW c \in Nat \ {0}, NEW h \in 0 .. c - 1, NEW j \in 0 .. c - 1
  PROVE  /\ (j + 1) % c \in 0 .. c - 1
         /\ Chain(h, (j + 1) % c, c) \ {(j + 1) % c} \subseteq Chain(h, j, c)
<1>1. PICK n : n = (j + 1) % c
  OBVIOUS
<1>2. n = IF j = c - 1 THEN 0 ELSE j + 1
  BY <1>1, ModNext
<1>3. n \in 0 .. c - 1
  BY <1>2
<1>4. Chain(h, n, c) \ {n} \subseteq Chain(h, j, c)
  BY <1>2 DEF Chain
<1> QED
  BY <1>1, <1>3, <1>4

\* A chain that avoids slot j ends before a probe that has come to j.
LEMMA ChainMeets ==
  ASSUME NEW c \in Nat \ {0}, NEW h \in 0 .. c - 1,
         NEW j \in 0 .. c - 1, NEW k \in 0 .. c - 1,
         j \notin Chain(h, k, c)
  PROVE  k \in Chain(h, j, c) \ {j}
BY DEF Chain

LEMMA HashType ==
  ASSUME hash \in HashFns, NEW k \in Keys
  PROVE  /\ TagOf(k) \in Nat \ {0}
         /\ \A c \in Nat \ {0} : Home(k, c) \in 0 .. c - 1
<1>1. hash[k].low \in Nat /\ hash[k].top \in Nat
  BY UniqueTableAssumption
<1>2. TagOf(k) \in Nat \ {0}
  BY <1>1 DEF TagOf
<1> QED
  BY <1>1, <1>2, ModRange DEF Home

\* Where a probe begins.
LEMMA StartsOnChain ==
  ASSUME hash \in HashFns, NEW k \in Keys, NEW c \in Nat \ {0}, NEW tg
  PROVE  /\ OnChain(k, Home(k, c), tg, c)
         /\ Chain(Home(k, c), Home(k, c), c) \ {Home(k, c)} = {}
<1>1. Home(k, c) \in 0 .. c - 1
  BY HashType
<1> QED
  BY <1>1, ChainHome DEF OnChain

\* How it goes on over a live slot.
LEMMA GoesOnChain ==
  ASSUME hash \in HashFns, NEW k \in Keys, NEW c \in Nat \ {0}, NEW tg, NEW j,
         OnChain(k, j, tg, c), j \in LiveIn(tg)
  PROVE  OnChain(k, (j + 1) % c, tg, c)
<1>1. Home(k, c) \in 0 .. c - 1
  BY HashType
<1>2. PICK n : n = (j + 1) % c
  OBVIOUS
<1>3. n \in 0 .. c - 1 /\ Chain(Home(k, c), n, c) \ {n} \subseteq Chain(Home(k, c), j, c)
  BY <1>1, <1>2, ChainNext DEF OnChain
<1> QED
  BY <1>2, <1>3 DEF OnChain
-----------------------------------------------------------------------------
(* Two arrays. *)

LEMMA ArraysFacts ==
  ASSUME NEW sl, NEW tg, NEW c \in Nat, ArraysOK(sl, tg, c)
  PROVE  /\ DOMAIN sl = 0 .. c - 1 /\ DOMAIN tg = 0 .. c - 1
         /\ LiveIn(tg) \subseteq 0 .. c - 1
         /\ IsFiniteSet(LiveIn(tg))
         /\ HeldIn(sl, tg) \subseteq Keys
         /\ IsFiniteSet(HeldIn(sl, tg))
         /\ Cardinality(HeldIn(sl, tg)) = Cardinality(LiveIn(tg))
         /\ Cardinality(LiveIn(tg)) \in Nat
<1>1. DOMAIN sl = 0 .. c - 1 /\ DOMAIN tg = 0 .. c - 1
  BY DEF ArraysOK
<1>2. LiveIn(tg) \subseteq 0 .. c - 1
  BY <1>1 DEF LiveIn
<1>3. IsFiniteSet(LiveIn(tg)) /\ Cardinality(LiveIn(tg)) \in Nat
  <2>1. IsFiniteSet(0 .. c - 1)
    BY FS_Interval
  <2> QED
    BY <1>2, <2>1, FS_Subset, FS_CardinalityType
<1>4. HeldIn(sl, tg) \subseteq Keys
  BY DEF ArraysOK, HeldIn
<1>5. ExistsBijection(LiveIn(tg), HeldIn(sl, tg))
  <2> DEFINE f == [j \in LiveIn(tg) |-> sl[j] - 1]
  <2>1. f \in [LiveIn(tg) -> HeldIn(sl, tg)]
    BY DEF HeldIn
  <2>2. ASSUME NEW j \in LiveIn(tg), NEW k \in LiveIn(tg), f[j] = f[k] PROVE j = k
    <3>1. sl[j] \in Nat /\ sl[k] \in Nat
      BY <1>2 DEF ArraysOK
    <3>2. sl[j] = sl[k]
      BY <2>2, <3>1
    <3> QED
      BY <3>2 DEF ArraysOK
  <2>3. \A k \in HeldIn(sl, tg) : \E j \in LiveIn(tg) : f[j] = k
    BY DEF HeldIn
  <2> HIDE DEF f
  <2>4. f \in Bijection(LiveIn(tg), HeldIn(sl, tg))
    BY <2>1, <2>2, <2>3, Fun_IsBij
  <2> QED
    BY <2>4 DEF ExistsBijection
<1>6. IsFiniteSet(HeldIn(sl, tg)) /\ Cardinality(HeldIn(sl, tg)) = Cardinality(LiveIn(tg))
  BY <1>3, <1>5, FS_Bijection
<1> QED
  BY <1>1, <1>2, <1>3, <1>4, <1>6

LEMMA EmptyArrays ==
  ASSUME NEW c \in Nat
  PROVE  /\ ArraysOK(EmptySlots(c), EmptySlots(c), c)
         /\ LiveIn(EmptySlots(c)) = {}
         /\ HeldIn(EmptySlots(c), EmptySlots(c)) = {}
<1>1. LiveIn(EmptySlots(c)) = {}
  BY DEF LiveIn, EmptySlots
<1>2. EmptySlots(c) \in [0 .. c - 1 -> Nat]
  BY DEF EmptySlots
<1> QED
  BY <1>1, <1>2 DEF ArraysOK, HeldIn, Unbroken

\* The probe for k, a key the arrays do not hold, ends at slot j, and with k
\* written there the arrays are s and t.
Places(k, j, sl, tg, c, s, t) ==
  /\ ArraysOK(sl, tg, c)
  /\ k \in Keys \ HeldIn(sl, tg)
  /\ OnChain(k, j, tg, c)
  /\ tg[j] = 0
  /\ s = [sl EXCEPT ![j] = k + 1]
  /\ t = [tg EXCEPT ![j] = TagOf(k)]

\* To write a key where its probe ends keeps every chain whole, its own included.
LEMMA Placing ==
  ASSUME hash \in HashFns, NEW c \in Nat \ {0}, NEW sl, NEW tg, NEW k, NEW j,
         NEW s, NEW t, Places(k, j, sl, tg, c, s, t)
  PROVE  /\ ArraysOK(s, t, c)
         /\ HeldIn(s, t) = HeldIn(sl, tg) \cup {k}
<1> USE DEF Places
<1>1. j \in 0 .. c - 1 /\ k \in Nat /\ TagOf(k) \in Nat \ {0}
  BY HashType, UniqueTableAssumption DEF OnChain
<1>2. sl \in [0 .. c - 1 -> Nat] /\ tg \in [0 .. c - 1 -> Nat]
  BY DEF ArraysOK
<1>3. s \in [0 .. c - 1 -> Nat] /\ t \in [0 .. c - 1 -> Nat]
  BY <1>1, <1>2
<1>4. /\ s[j] = k + 1 /\ s[j] - 1 = k /\ t[j] = TagOf(k)
      /\ \A m \in 0 .. c - 1 : m # j => s[m] = sl[m] /\ t[m] = tg[m]
  BY <1>1, <1>2
<1>5. LiveIn(tg) \subseteq 0 .. c - 1 /\ j \notin LiveIn(tg)
  BY <1>2 DEF LiveIn
<1>6. LiveIn(t) = LiveIn(tg) \cup {j}
  <2>1. DOMAIN t = 0 .. c - 1 /\ DOMAIN tg = 0 .. c - 1
    BY <1>2, <1>3
  <2> QED
    BY <1>1, <1>4, <2>1 DEF LiveIn
<1>7. \A m \in LiveIn(tg) : s[m] = sl[m] /\ t[m] = tg[m]
  BY <1>4, <1>5
<1>8. HeldIn(s, t) = HeldIn(sl, tg) \cup {k}
  <2>1. ASSUME NEW x \in HeldIn(s, t) PROVE x \in HeldIn(sl, tg) \cup {k}
    <3>1. PICK m \in LiveIn(t) : x = s[m] - 1
      BY DEF HeldIn
    <3> QED
      BY <1>4, <1>6, <1>7, <3>1 DEF HeldIn
  <2>2. ASSUME NEW x \in HeldIn(sl, tg) PROVE x \in HeldIn(s, t)
    <3>1. PICK m \in LiveIn(tg) : x = sl[m] - 1
      BY DEF HeldIn
    <3>2. m \in LiveIn(t) /\ x = s[m] - 1
      BY <1>6, <1>7, <3>1
    <3> QED
      BY <3>2 DEF HeldIn
  <2>3. k \in HeldIn(s, t)
    BY <1>4, <1>6 DEF HeldIn
  <2> QED
    BY <2>1, <2>2, <2>3
<1>9. ASSUME NEW m \in LiveIn(t) PROVE s[m] - 1 \in Keys /\ t[m] = TagOf(s[m] - 1)
  BY <1>4, <1>6, <1>7, <1>9 DEF ArraysOK
<1>10. ASSUME NEW m \in LiveIn(t), NEW n \in LiveIn(t), s[m] = s[n] PROVE m = n
  <2>1. ASSUME NEW x \in LiveIn(tg) PROVE s[x] - 1 # k
    BY <1>7, <2>1 DEF HeldIn
  <2>2. CASE m = j \/ n = j
    BY <1>4, <1>6, <1>10, <2>1, <2>2, ZenonT(40)
  <2>3. CASE m # j /\ n # j
    BY <1>6, <1>7, <1>10, <2>3 DEF ArraysOK
  <2> QED
    BY <2>2, <2>3
<1>11. ASSUME NEW m \in LiveIn(t) PROVE Chain(Home(s[m] - 1, c), m, c) \subseteq LiveIn(t)
  <2>1. CASE m = j
    BY <1>4, <1>6, <2>1 DEF OnChain
  <2>2. CASE m # j
    BY <1>6, <1>7, <1>11, <2>2 DEF ArraysOK, Unbroken
  <2> QED
    BY <2>1, <2>2
<1> QED
  BY <1>3, <1>8, <1>9, <1>10, <1>11 DEF ArraysOK, Unbroken

\* lookup's answer at the end of a chain: a key passed by is not in the table.
LEMMA ChainEnds ==
  ASSUME hash \in HashFns, NEW c \in Nat \ {0}, NEW sl, NEW tg, ArraysOK(sl, tg, c),
         NEW k \in Keys, NEW j, OnChain(k, j, tg, c), tg[j] = 0,
         \A s \in Chain(Home(k, c), j, c) \ {j} : sl[s] - 1 # k
  PROVE  k \notin HeldIn(sl, tg)
<1> SUFFICES ASSUME NEW m \in LiveIn(tg), sl[m] - 1 = k
             PROVE  FALSE
  BY DEF HeldIn
<1>1. j \in 0 .. c - 1 /\ m \in 0 .. c - 1 /\ Home(k, c) \in 0 .. c - 1
  BY HashType DEF OnChain, ArraysOK, LiveIn
<1>2. j \notin Chain(Home(k, c), m, c)
  BY DEF ArraysOK, Unbroken, LiveIn
<1>3. m \in Chain(Home(k, c), j, c) \ {j}
  BY <1>1, <1>2, ChainMeets
<1> QED
  BY <1>3
-----------------------------------------------------------------------------
(* A step's arrays. *)

LEMMA SameHash ==
  ASSUME hash' = hash
  PROVE  /\ \A k : TagOf(k)' = TagOf(k)
         /\ \A k, c : Home(k, c)' = Home(k, c)
         /\ \A sl, tg, c : ArraysOK(sl, tg, c)' <=> ArraysOK(sl, tg, c)
         /\ \A k, j, tg, c : OnChain(k, j, tg, c)' <=> OnChain(k, j, tg, c)
BY DEF TagOf, Home, ArraysOK, Unbroken, OnChain

LEMMA TableNext ==
  ASSUME hash' = hash, NEW c, c = Cap', ArraysOK(slots', tags', c)
  PROVE  ArraysOK(slots, tags, Cap)'
<1> PICK s : s = slots'
  OBVIOUS
<1> PICK t : t = tags'
  OBVIOUS
<1>1. ArraysOK(s, t, c)
  OBVIOUS
<1> QED
  BY <1>1 DEF ArraysOK, Unbroken, TagOf, Home

LEMMA ProbeNext ==
  ASSUME hash' = hash, OnChain(key', i', tags', Cap')
  PROVE  OnChain(key, i, tags, Cap)'
BY DEF OnChain, Home

LEMMA NewTableNext ==
  ASSUME hash' = hash, ArraysOK(newSlots', newTags', 2 * Cap')
  PROVE  ArraysOK(newSlots, newTags, 2 * Cap)'
BY DEF ArraysOK, Unbroken, TagOf, Home

LEMMA MoveNext ==
  ASSUME hash' = hash, OnChain(slots'[at'] - 1, i', newTags', 2 * Cap')
  PROVE  OnChain(slots[at] - 1, i, newTags, 2 * Cap)'
BY DEF OnChain, Home

\* A step that leaves the table alone.
LEMMA SameTable ==
  ASSUME TableInv, UNCHANGED <<hash, tableVars>>
  PROVE  /\ Cap' = Cap /\ Live' = Live /\ Held' = Held
         /\ ArraysOK(slots, tags, Cap)'
         /\ len' = Cardinality(Held') /\ resizeAt' = (3 * Cap') \div 4
<1>1. Cap' = Cap /\ Live' = Live /\ Held' = Held
  BY DEF tableVars, Cap, Live, Held, HeldIn, LiveIn
<1>2. ArraysOK(slots', tags', Cap)
  BY DEF TableInv, tableVars
<1>3. ArraysOK(slots, tags, Cap)'
  BY <1>1, <1>2, TableNext
<1> QED
  BY <1>1, <1>3 DEF TableInv, tableVars

LEMMA InvFacts ==
  ASSUME TableInv
  PROVE  /\ Cap \in Nat \ {0} /\ len \in Nat /\ resizeAt \in Nat
         /\ hash \in HashFns
         /\ DOMAIN slots = 0 .. Cap - 1 /\ DOMAIN tags = 0 .. Cap - 1
         /\ Live \subseteq 0 .. Cap - 1
         /\ Held \subseteq Keys /\ IsFiniteSet(Held)
         /\ len = Cardinality(Live) /\ len = Cardinality(Held)
         /\ IsFiniteSet(todo) /\ Cardinality(todo) \in Nat
         /\ todo \subseteq Keys
         /\ todo = {} => Cardinality(todo) = 0
         /\ \A j \in 0 .. Cap - 1 : tags[j] # 0 <=> j \in Live
         /\ \A j \in Live : slots[j] - 1 \in Held
<1>1. Cap \in Nat \ {0} /\ ArraysOK(slots, tags, Cap)
  BY DEF TableInv
<1>2. /\ DOMAIN slots = 0 .. Cap - 1 /\ DOMAIN tags = 0 .. Cap - 1
      /\ Live \subseteq 0 .. Cap - 1
      /\ Held \subseteq Keys /\ IsFiniteSet(Held)
      /\ Cardinality(Held) = Cardinality(Live)
  BY <1>1, ArraysFacts DEF Live, Held
<1>3. IsFiniteSet(todo) /\ Cardinality(todo) \in Nat /\ todo \subseteq Keys
  BY UniqueTableAssumption, FS_Subset, FS_CardinalityType DEF TableInv, TypeOK
<1>4. todo = {} => Cardinality(todo) = 0
  BY FS_EmptySet
<1>5. /\ \A j \in 0 .. Cap - 1 : tags[j] # 0 <=> j \in Live
      /\ \A j \in Live : slots[j] - 1 \in Held
  BY <1>2 DEF Live, LiveIn, Held, HeldIn
<1> QED
  BY <1>1, <1>2, <1>3, <1>4, <1>5 DEF TableInv, TypeOK
-----------------------------------------------------------------------------
(* The first state, and a step of each action. *)

LEMMA InitTableInv == Init => TableInv
<1> SUFFICES ASSUME Init PROVE TableInv
  OBVIOUS
<1>1. InitialCap \in Nat \ {0}
  BY UniqueTableAssumption
<1>2. Cap = InitialCap
  BY <1>1, EmptyCap DEF Init, Cap
<1>3. ArraysOK(slots, tags, Cap) /\ Live = {} /\ Held = {}
  BY <1>1, <1>2, EmptyArrays DEF Init, Live, Held
<1>4. Cardinality({}) = 0
  BY FS_EmptySet
<1>5. TypeOK
  <2>1. resizeAt \in Nat
    BY <1>1 DEF Init
  <2> QED
    BY <2>1 DEF Init, TypeOK
<1>6. resizeAt = (3 * Cap) \div 4 /\ len + 0 <= resizeAt
  BY <1>1, <1>2 DEF Init
<1>7. len = 0 /\ todo = {} /\ pc = "idle"
  BY DEF Init
<1>8. ~ Inserting
  BY <1>7 DEF Inserting
<1> QED
  BY <1>1, <1>2, <1>3, <1>4, <1>5, <1>6, <1>7, <1>8 DEF TableInv

LEMMA MakeInv ==
  ASSUME TableInv, NEW k \in Keys, Make(k)
  PROVE  TableInv'
<1>1. UNCHANGED <<hash, tableVars>> /\ todo' = todo /\ at' = at /\ found' = found
  BY DEF Make, growVars
<1>2. /\ Cap' = Cap /\ Held' = Held /\ ArraysOK(slots, tags, Cap)'
      /\ len' = Cardinality(Held') /\ resizeAt' = (3 * Cap') \div 4
  BY <1>1, SameTable
<1>3. /\ pc = "idle" /\ pc' = "lookup" /\ key' = k /\ i' = Home(k, Cap)
      /\ todo = {} /\ ~ Inserting'
  BY DEF Make, TableInv, Inserting
<1>4. Cap \in Nat \ {0} /\ hash \in HashFns
  BY InvFacts
<1>5. OnChain(key', i', tags', Cap')
  BY <1>2, <1>3, <1>4, StartsOnChain
<1>6. OnChain(key, i, tags, Cap)'
  BY <1>1, <1>5, ProbeNext
<1>7. Home(k, Cap)' = Home(k, Cap)
  BY <1>1, <1>2 DEF Home
<1>8. (Chain(Home(key, Cap), i, Cap) \ {i})' = {}
  <2>1. Chain(Home(k, Cap), Home(k, Cap), Cap) \ {Home(k, Cap)} = {}
    BY <1>4, StartsOnChain
  <2> QED
    BY <1>1, <1>2, <1>3, <2>1 DEF Home
<1>9. TypeOK'
  BY <1>1, <1>3 DEF TableInv, TypeOK, tableVars
<1>10. len' + Cardinality(todo') <= resizeAt' /\ todo' \cap Held' = {}
  BY <1>1, <1>2 DEF TableInv, tableVars
<1> QED
  BY <1>1, <1>2, <1>3, <1>4, <1>6, <1>8, <1>9, <1>10 DEF TableInv

LEMMA LookupInv ==
  ASSUME TableInv, Lookup
  PROVE  /\ TableInv'
         /\ key \in Keys /\ todo = {} /\ todo' = {} /\ Held' = Held /\ key' = key
         /\ \/ pc' = "idle" /\ found' = TRUE /\ key \in Held
            \/ pc' = "insert" /\ found' = found /\ key \notin Held
            \/ pc' = "lookup" /\ found' = found
<1>1. UNCHANGED <<hash, tableVars>> /\ todo' = todo /\ at' = at /\ key' = key
  BY DEF Lookup, growVars
<1>2. /\ Cap' = Cap /\ Held' = Held /\ ArraysOK(slots, tags, Cap)'
      /\ len' = Cardinality(Held') /\ resizeAt' = (3 * Cap') \div 4
  BY <1>1, SameTable
<1>3. /\ pc = "lookup" /\ todo = {} /\ key \in Keys
      /\ OnChain(key, i, tags, Cap)
      /\ \A s \in Chain(Home(key, Cap), i, Cap) \ {i} : slots[s] - 1 # key
  BY DEF Lookup, TableInv, TypeOK
<1>4. Cap \in Nat \ {0} /\ hash \in HashFns
  BY InvFacts
<1>5. ASSUME pc' \in {"idle", "insert", "lookup"}, found' \in BOOLEAN
      PROVE  TypeOK'
  BY <1>1, <1>3, <1>5 DEF TableInv, TypeOK, tableVars
<1>6. len' + Cardinality(todo') <= resizeAt' /\ todo' \cap Held' = {}
  BY <1>1, <1>2 DEF TableInv, tableVars
<1>7. found \in BOOLEAN /\ i \in 0 .. Cap - 1
  BY <1>3 DEF TableInv, TypeOK, OnChain
<1>8. CASE tags[i] = 0 /\ pc' = "insert" /\ UNCHANGED <<i, found>>
  <2>1. key \notin Held
    BY <1>3, <1>4, <1>8, ChainEnds DEF TableInv, Held
  <2>2. TypeOK'
    BY <1>5, <1>7, <1>8
  <2> QED
    BY <1>1, <1>2, <1>3, <1>4, <1>6, <1>8, <2>1, <2>2 DEF TableInv, Inserting
<1>9. CASE tags[i] = TagOf(key) /\ slots[i] - 1 = key /\ pc' = "idle" /\ found' = TRUE
  <2>1. TypeOK'
    BY <1>5, <1>9
  <2>2. key \in Held
    <3>1. tags[i] # 0
      BY <1>3, <1>4, <1>9, HashType
    <3> QED
      BY <1>7, <1>9, <3>1, InvFacts
  <2> QED
    BY <1>1, <1>2, <1>3, <1>4, <1>6, <1>9, <2>1, <2>2 DEF TableInv, Inserting
<1>10. CASE /\ tags[i] # 0
            /\ tags[i] # TagOf(key) \/ slots[i] - 1 # key
            /\ i' = (i + 1) % Cap
            /\ UNCHANGED <<pc, found>>
  <2>1. i \in Live
    BY <1>7, <1>10, InvFacts
  <2>2. slots[i] - 1 # key
    BY <1>10, <2>1 DEF TableInv, ArraysOK, Live
  <2>3. OnChain(key', i', tags', Cap')
    <3>1. OnChain(key, (i + 1) % Cap, tags, Cap)
      BY <1>3, <1>4, <2>1, GoesOnChain DEF Live
    <3> QED
      BY <1>1, <1>2, <1>10, <3>1 DEF tableVars
  <2>4. OnChain(key, i, tags, Cap)'
    BY <1>1, <2>3, ProbeNext
  <2>5. \A s \in Chain(Home(key, Cap), (i + 1) % Cap, Cap) \ {(i + 1) % Cap} :
          slots[s] - 1 # key
    <3>1. Home(key, Cap) \in 0 .. Cap - 1
      BY <1>3, <1>4, HashType
    <3>2. Chain(Home(key, Cap), (i + 1) % Cap, Cap) \ {(i + 1) % Cap}
            \subseteq Chain(Home(key, Cap), i, Cap)
      BY <1>4, <1>7, <3>1, ChainNext
    <3> QED
      BY <1>3, <2>2, <3>2
  <2>6. (\A s \in Chain(Home(key, Cap), i, Cap) \ {i} : slots[s] - 1 # key)'
    BY <1>1, <1>2, <1>10, <2>5 DEF Home, tableVars
  <2>7. TypeOK'
    BY <1>3, <1>5, <1>7, <1>10
  <2> QED
    BY <1>1, <1>2, <1>3, <1>4, <1>6, <1>10, <2>4, <2>6, <2>7 DEF TableInv, Inserting
<1> QED
  BY <1>8, <1>9, <1>10 DEF Lookup

\* insert goes to its loop, or to resize when the load is at its threshold;
\* never for a rebuilding, whose table was sized for it.
LEMMA InsertInv ==
  ASSUME TableInv, Insert
  PROVE  /\ TableInv'
         /\ key \in Keys /\ todo' = todo /\ Held' = Held /\ key' = key
         /\ pc = "insert" /\ pc' \in {"grow", "probe"} /\ found' = found
         /\ todo # {} => pc' = "probe"
<1>1. UNCHANGED <<hash, tableVars>> /\ todo' = todo /\ key' = key /\ found' = found
  BY DEF Insert
<1>2. /\ Cap' = Cap /\ Live' = Live /\ Held' = Held /\ ArraysOK(slots, tags, Cap)'
      /\ len' = Cardinality(Held') /\ resizeAt' = (3 * Cap') \div 4
  BY <1>1, SameTable
<1>3. pc = "insert" /\ key \in Keys /\ key \notin Held /\ (todo # {} => key \in todo)
  BY DEF Insert, TableInv, TypeOK, Inserting
<1>4. Cap \in Nat \ {0} /\ hash \in HashFns /\ len \in Nat
  BY InvFacts
<1>5. ASSUME pc' \in {"grow", "probe"}, at' \in Nat
      PROVE  TypeOK'
  BY <1>1, <1>3, <1>5 DEF TableInv, TypeOK, tableVars
<1>6. len' + Cardinality(todo') <= resizeAt' /\ todo' \cap Held' = {}
  BY <1>1, <1>2 DEF TableInv, tableVars
<1>7. CASE len + 1 <= resizeAt /\ StartProbe(Cap) /\ UNCHANGED growVars
  <2>1. pc' = "probe" /\ i' = Home(key, Cap) /\ at' = at
    BY <1>7 DEF StartProbe, growVars
  <2>2. OnChain(key', i', tags', Cap')
    BY <1>1, <1>2, <1>3, <1>4, <2>1, StartsOnChain
  <2>3. OnChain(key, i, tags, Cap)'
    BY <1>1, <2>2, ProbeNext
  <2>4. TypeOK'
    BY <1>5, <2>1 DEF TableInv, TypeOK
  <2>5. len' + 1 <= resizeAt'
    BY <1>1, <1>7 DEF tableVars
  <2> QED
    BY <1>1, <1>2, <1>3, <1>4, <1>6, <2>1, <2>3, <2>4, <2>5 DEF TableInv, Inserting
<1>8. CASE /\ len + 1 > resizeAt
           /\ newSlots' = EmptySlots(2 * Cap) /\ newTags' = EmptySlots(2 * Cap)
           /\ at' = 0 /\ pc' = "grow"
  <2>1. todo = {}
    <3> SUFFICES ASSUME todo # {} PROVE FALSE
      OBVIOUS
    <3>1. IsFiniteSet(todo) /\ Cardinality(todo) \in Nat
      BY InvFacts
    <3>2. Cardinality(todo) # 0
      BY <3>1, FS_EmptySet
    <3> QED
      BY <1>4, <1>8, <3>1, <3>2 DEF TableInv, TypeOK
  <2>2. 2 * Cap \in Nat
    BY <1>4
  <2>3. /\ ArraysOK(newSlots', newTags', 2 * Cap') /\ HeldIn(newSlots', newTags') = {}
    BY <1>2, <1>8, <2>2, EmptyArrays
  <2>4. ArraysOK(newSlots, newTags, 2 * Cap)'
    BY <1>1, <2>3, NewTableNext
  <2>5. Moved' = {}
    <3>1. \A s \in Live' : ~ (s < 0)
      BY <1>2, InvFacts
    <3> QED
      BY <1>8, <3>1 DEF Moved
  <2>6. HeldIn(newSlots, newTags)' = {}
    BY <2>3 DEF HeldIn, LiveIn
  <2>7. at' <= Cap'
    BY <1>2, <1>4, <1>8
  <2>8. TypeOK'
    BY <1>5, <1>8
  <2> QED
    BY <1>1, <1>2, <1>3, <1>4, <1>6, <1>8, <2>1, <2>4, <2>5, <2>6, <2>7, <2>8
    DEF TableInv, Inserting
<1> QED
  BY <1>1, <1>2, <1>3, <1>7, <1>8 DEF Insert, StartProbe

LEMMA GrowInv ==
  ASSUME TableInv, Grow
  PROVE  /\ TableInv'
         /\ key \in Keys /\ todo = {} /\ todo' = {} /\ Held' = Held /\ key' = key
         /\ pc = "grow" /\ pc' \in {"grow", "move"} /\ found' = found
<1>1. /\ UNCHANGED <<hash, tableVars>> /\ todo' = todo /\ key' = key /\ found' = found
      /\ newSlots' = newSlots /\ newTags' = newTags
  BY DEF Grow
<1>2. /\ Cap' = Cap /\ Live' = Live /\ Held' = Held /\ ArraysOK(slots, tags, Cap)'
      /\ len' = Cardinality(Held') /\ resizeAt' = (3 * Cap') \div 4
  BY <1>1, SameTable
<1>3. /\ pc = "grow" /\ key \in Keys /\ key \notin Held /\ todo = {}
      /\ at \in Nat /\ at < Cap
      /\ ArraysOK(newSlots, newTags, 2 * Cap)
      /\ HeldIn(newSlots, newTags) = Moved
  BY DEF Grow, TableInv, TypeOK, Inserting
<1>4. Cap \in Nat \ {0} /\ hash \in HashFns
  BY InvFacts
<1>5. ASSUME pc' \in {"grow", "move"}, at' \in Nat
      PROVE  TypeOK'
  BY <1>1, <1>3, <1>5 DEF TableInv, TypeOK, tableVars
<1>6. len' + Cardinality(todo') <= resizeAt' /\ todo' \cap Held' = {}
  BY <1>1, <1>2 DEF TableInv, tableVars
<1>7. ArraysOK(newSlots, newTags, 2 * Cap)'
  <2>1. ArraysOK(newSlots', newTags', 2 * Cap')
    BY <1>1, <1>2, <1>3
  <2> QED
    BY <1>1, <2>1, NewTableNext
<1>8. HeldIn(newSlots, newTags)' = HeldIn(newSlots, newTags)
  BY <1>1 DEF HeldIn, LiveIn
<1>9. CASE tags[at] = 0 /\ at' = at + 1 /\ pc' = pc
  <2>1. at \notin Live
    BY <1>9 DEF Live, LiveIn
  <2>2. \A s \in Live : s \in Nat /\ (s < at + 1 <=> s < at)
    <3>1. Live \subseteq 0 .. Cap - 1
      BY InvFacts
    <3> QED
      BY <1>3, <1>4, <2>1, <3>1
  <2>3. Moved' = Moved
    BY <1>1, <1>2, <1>9, <2>2 DEF Moved, tableVars
  <2>4. TypeOK' /\ at' <= Cap'
    BY <1>2, <1>3, <1>4, <1>5, <1>9
  <2> QED
    BY <1>1, <1>2, <1>3, <1>4, <1>6, <1>7, <1>8, <1>9, <2>3, <2>4 DEF TableInv, Inserting
<1>10. CASE /\ tags[at] # 0 /\ pc' = "move" /\ at' = at
            /\ i' = Home(slots[at] - 1, 2 * Cap)
  <2>1. at \in Live /\ slots[at] - 1 \in Keys
    BY <1>3, <1>4, <1>10, InvFacts
  <2>2. 2 * Cap \in Nat \ {0}
    BY <1>4
  <2>3. OnChain(slots'[at'] - 1, i', newTags', 2 * Cap')
    BY <1>1, <1>2, <1>4, <1>10, <2>1, <2>2, StartsOnChain DEF tableVars
  <2>4. OnChain(slots[at] - 1, i, newTags, 2 * Cap)'
    BY <1>1, <2>3, MoveNext
  <2>5. Moved' = Moved
    BY <1>1, <1>2, <1>10 DEF Moved, tableVars
  <2>6. TypeOK' /\ at' <= Cap'
    BY <1>2, <1>3, <1>4, <1>5, <1>10
  <2> QED
    BY <1>1, <1>2, <1>3, <1>4, <1>6, <1>7, <1>8, <1>10, <2>1, <2>4, <2>5, <2>6
    DEF TableInv, Inserting
<1> QED
  BY <1>1, <1>2, <1>3, <1>9, <1>10 DEF Grow

LEMMA MoveInv ==
  ASSUME TableInv, Move
  PROVE  /\ TableInv'
         /\ key \in Keys /\ todo = {} /\ todo' = {} /\ Held' = Held /\ key' = key
         /\ pc = "move" /\ pc' \in {"grow", "move"} /\ found' = found
<1>1. UNCHANGED <<hash, tableVars>> /\ todo' = todo /\ key' = key /\ found' = found
  BY DEF Move
<1>2. /\ Cap' = Cap /\ Live' = Live /\ Held' = Held /\ ArraysOK(slots, tags, Cap)'
      /\ len' = Cardinality(Held') /\ resizeAt' = (3 * Cap') \div 4
  BY <1>1, SameTable
<1>3. /\ pc = "move" /\ key \in Keys /\ key \notin Held /\ todo = {}
      /\ at \in Nat /\ at \in Live
      /\ ArraysOK(newSlots, newTags, 2 * Cap)
      /\ HeldIn(newSlots, newTags) = Moved
      /\ OnChain(slots[at] - 1, i, newTags, 2 * Cap)
  BY DEF Move, TableInv, TypeOK, Inserting
<1>4. Cap \in Nat \ {0} /\ hash \in HashFns /\ 2 * Cap \in Nat \ {0} /\ at \in 0 .. Cap - 1
  BY <1>3, InvFacts
<1>5. ASSUME pc' \in {"grow", "move"}, at' \in Nat
      PROVE  TypeOK'
  BY <1>1, <1>3, <1>5 DEF TableInv, TypeOK, tableVars
<1>6. len' + Cardinality(todo') <= resizeAt' /\ todo' \cap Held' = {}
  BY <1>1, <1>2 DEF TableInv, tableVars
<1>7. PICK k : k = slots[at] - 1
  OBVIOUS
<1>8. k \in Keys /\ slots[at] = k + 1
  <2>1. slots[at] \in Nat
    BY <1>4 DEF TableInv, ArraysOK
  <2> QED
    BY <1>3, <1>7, <2>1, InvFacts
<1>9. i \in 0 .. 2 * Cap - 1 /\ DOMAIN newTags = 0 .. 2 * Cap - 1
  BY <1>3 DEF OnChain, ArraysOK
<1>10. CASE newTags[i] # 0
  <2>1. i' = (i + 1) % (2 * Cap) /\ UNCHANGED <<newSlots, newTags, at, pc>>
    BY <1>10 DEF Move
  <2>2. i \in LiveIn(newTags)
    BY <1>9, <1>10 DEF LiveIn
  <2>3. OnChain(k, (i + 1) % (2 * Cap), newTags, 2 * Cap)
    BY <1>3, <1>4, <1>7, <1>8, <2>2, GoesOnChain
  <2>4. OnChain(slots'[at'] - 1, i', newTags', 2 * Cap')
    BY <1>1, <1>2, <1>7, <2>1, <2>3 DEF tableVars
  <2>5. OnChain(slots[at] - 1, i, newTags, 2 * Cap)'
    BY <1>1, <2>4, MoveNext
  <2>6. ArraysOK(newSlots, newTags, 2 * Cap)'
    <3>1. ArraysOK(newSlots', newTags', 2 * Cap')
      BY <1>2, <1>3, <2>1
    <3> QED
      BY <1>1, <3>1, NewTableNext
  <2>7. HeldIn(newSlots, newTags)' = Moved'
    <3>1. HeldIn(newSlots, newTags)' = HeldIn(newSlots, newTags)
      BY <2>1 DEF HeldIn, LiveIn
    <3>2. Moved' = Moved
      BY <1>1, <1>2, <2>1 DEF Moved, tableVars
    <3> QED
      BY <1>3, <3>1, <3>2
  <2>8. TypeOK' /\ at' <= Cap' /\ pc' = "move" /\ at' \in Live'
    BY <1>2, <1>3, <1>4, <1>5, <2>1
  <2> QED
    BY <1>1, <1>2, <1>3, <1>4, <1>6, <2>5, <2>6, <2>7, <2>8 DEF TableInv, Inserting
<1>11. CASE ~ (newTags[i] # 0)
  <2>1. /\ newSlots' = [newSlots EXCEPT ![i] = slots[at]]
        /\ newTags' = [newTags EXCEPT ![i] = TagOf(slots[at] - 1)]
        /\ at' = at + 1 /\ pc' = "grow"
    BY <1>11 DEF Move
  <2>2. k \notin HeldIn(newSlots, newTags)
    <3> SUFFICES ASSUME NEW j \in Live, j < at, slots[j] - 1 = k PROVE FALSE
      BY <1>3 DEF Moved
    <3>1. slots[j] \in Nat /\ j \in Nat
      <4>1. j \in 0 .. Cap - 1
        BY InvFacts
      <4>2. slots \in [0 .. Cap - 1 -> Nat]
        BY DEF TableInv, ArraysOK
      <4> QED
        BY <4>1, <4>2
    <3>2. slots[j] = slots[at]
      BY <1>8, <3>1
    <3>3. j = at
      BY <1>3, <3>2 DEF TableInv, ArraysOK, Live
    <3> QED
      BY <1>4, <3>3
  <2>3. /\ ArraysOK(newSlots', newTags', 2 * Cap)
        /\ HeldIn(newSlots', newTags') = HeldIn(newSlots, newTags) \cup {k}
    <3>1. /\ newSlots' = [newSlots EXCEPT ![i] = k + 1]
          /\ newTags' = [newTags EXCEPT ![i] = TagOf(k)]
      BY <1>7, <1>8, <2>1
    <3>2. OnChain(k, i, newTags, 2 * Cap) /\ newTags[i] = 0
      BY <1>3, <1>7, <1>11
    <3>3. PICK c : c = 2 * Cap
      OBVIOUS
    <3>4. PICK s : s = newSlots'
      OBVIOUS
    <3>5. PICK t : t = newTags'
      OBVIOUS
    <3>6. PICK sl : sl = newSlots
      OBVIOUS
    <3>7. PICK tg : tg = newTags
      OBVIOUS
    <3>8. PICK j : j = i
      OBVIOUS
    <3>9. /\ ArraysOK(sl, tg, c) /\ OnChain(k, j, tg, c) /\ c \in Nat \ {0}
          /\ k \in Keys /\ k \notin HeldIn(sl, tg) /\ tg[j] = 0 /\ hash \in HashFns
          /\ s = [sl EXCEPT ![j] = k + 1] /\ t = [tg EXCEPT ![j] = TagOf(k)]
      BY <1>3, <1>4, <1>8, <2>2, <3>1, <3>2, <3>3, <3>4, <3>5, <3>6, <3>7, <3>8
    <3>10. Places(k, j, sl, tg, c, s, t)
      BY ONLY <3>9 DEF Places
    <3>11. c \in Nat \ {0} /\ hash \in HashFns
      BY ONLY <3>9
    <3>12. ArraysOK(s, t, c) /\ HeldIn(s, t) = HeldIn(sl, tg) \cup {k}
      BY ONLY <3>10, <3>11, Placing
    <3> QED
      BY <3>3, <3>4, <3>5, <3>6, <3>7, <3>12
  <2>4. ArraysOK(newSlots, newTags, 2 * Cap)'
    <3>1. ArraysOK(newSlots', newTags', 2 * Cap')
      BY <1>2, <2>3
    <3> QED
      BY <1>1, <3>1, NewTableNext
  <2>5. Moved' = Moved \cup {k}
    <3>1. \A s \in Live : s \in Nat /\ (s < at + 1 <=> s < at \/ s = at)
      <4>1. Live \subseteq 0 .. Cap - 1
        BY InvFacts
      <4> QED
        BY <1>4, <4>1
    <3>2. Moved' = {slots[j] - 1 : j \in {s \in Live : s < at + 1}}
      BY <1>1, <1>2, <2>1 DEF Moved, tableVars
    <3> QED
      BY <1>3, <1>7, <3>1, <3>2 DEF Moved
  <2>6. HeldIn(newSlots, newTags)' = HeldIn(newSlots', newTags')
    BY DEF HeldIn, LiveIn
  <2>7. TypeOK' /\ at' <= Cap'
    BY <1>2, <1>3, <1>4, <1>5, <2>1
  <2> QED
    BY <1>1, <1>2, <1>3, <1>4, <1>6, <2>1, <2>3, <2>4, <2>5, <2>6, <2>7 DEF TableInv, Inserting
<1> QED
  BY <1>1, <1>2, <1>3, <1>10, <1>11 DEF Move

\* Growth loses no entry and makes room for the one that asked for it.
LEMMA GrownInv ==
  ASSUME TableInv, Grown
  PROVE  /\ TableInv'
         /\ key \in Keys /\ todo = {} /\ todo' = {} /\ Held' = Held /\ key' = key
         /\ pc = "grow" /\ pc' = "probe" /\ found' = found
<1>1. /\ hash' = hash /\ len' = len /\ todo' = todo /\ key' = key /\ found' = found
      /\ slots' = newSlots /\ tags' = newTags /\ resizeAt' = (2 * Cap * 3) \div 4
      /\ pc = "grow" /\ pc' = "probe" /\ i' = Home(key, 2 * Cap) /\ at = Cap /\ at' = 0
  BY DEF Grown, StartProbe
<1>2. /\ key \in Keys /\ key \notin Held /\ todo = {}
      /\ ArraysOK(newSlots, newTags, 2 * Cap)
      /\ HeldIn(newSlots, newTags) = Moved
  BY <1>1 DEF TableInv, TypeOK, Inserting
<1>3. Cap \in Nat \ {0} /\ hash \in HashFns /\ 2 * Cap \in Nat \ {0}
      /\ Cardinality(todo) = 0
  BY <1>2, InvFacts
<1>4. Cap' = 2 * Cap
  <2>1. DOMAIN newSlots = 0 .. 2 * Cap - 1
    BY <1>2, <1>3, ArraysFacts
  <2>2. Cardinality(0 .. 2 * Cap - 1) = 2 * Cap
    BY <1>3, FS_Interval
  <2> QED
    BY <1>1, <2>1, <2>2 DEF Cap
<1>5. Moved = Held
  <2>1. \A s \in Live : s < at
    BY <1>1, <1>3, InvFacts
  <2> QED
    BY <2>1 DEF Moved, Held, HeldIn, Live
<1>6. Held' = Held
  <2>1. Held' = HeldIn(newSlots, newTags)
    BY <1>1 DEF Held, HeldIn, LiveIn
  <2> QED
    BY <1>2, <1>5, <2>1
<1>7. ArraysOK(slots, tags, Cap)'
  <2>1. PICK c : c = Cap'
    OBVIOUS
  <2>2. ArraysOK(slots', tags', c)
    BY <1>1, <1>2, <1>4, <2>1
  <2> QED
    BY <1>1, <2>1, <2>2, TableNext
<1>8. OnChain(key, i, tags, Cap)'
  <2>1. OnChain(key', i', tags', Cap')
    BY <1>1, <1>2, <1>3, <1>4, StartsOnChain
  <2> QED
    BY <1>1, <2>1, ProbeNext
<1>9. /\ resizeAt' = (3 * Cap') \div 4 /\ resizeAt' \in Nat /\ len \in Nat
      /\ len + 1 <= resizeAt' /\ len + 0 <= resizeAt'
  <2>1. len \in Nat /\ len <= (3 * Cap) \div 4
    BY <1>3, InvFacts DEF TableInv
  <2>2. PICK c : c = Cap
    OBVIOUS
  <2>3. /\ (2 * c * 3) \div 4 = (3 * (2 * c)) \div 4 /\ (2 * c * 3) \div 4 \in Nat
        /\ len + 1 <= (2 * c * 3) \div 4
    BY <1>3, <2>1, <2>2
  <2> QED
    BY <1>1, <1>4, <2>1, <2>2, <2>3
<1>10. TypeOK'
  BY <1>1, <1>2, <1>9 DEF TableInv, TypeOK
<1>11. len' = Cardinality(Held')
  BY <1>1, <1>6 DEF TableInv
<1> QED
  BY <1>1, <1>2, <1>3, <1>4, <1>6, <1>7, <1>8, <1>9, <1>10, <1>11 DEF TableInv, Inserting

LEMMA LeastIn ==
  ASSUME NEW S \in SUBSET Keys, S # {}
  PROVE  Least(S) \in S
<1>1. \E m \in S : \A n \in S : m <= n
  BY UniqueTableAssumption, NatSetMin
<1> QED
  BY <1>1 DEF Least

\* A key is written where its probe ends, and counted.
LEMMA ProbeWrites ==
  ASSUME TableInv, Probe, ~ (tags[i] # 0)
  PROVE  /\ Cap' = Cap /\ ArraysOK(slots, tags, Cap)'
         /\ Held' = Held \cup {key}
         /\ len' = Cardinality(Held')
<1>1. /\ hash' = hash
      /\ slots' = [slots EXCEPT ![i] = key + 1]
      /\ tags' = [tags EXCEPT ![i] = TagOf(key)]
      /\ len' = len + 1
  BY DEF Probe
<1>2. /\ key \in Keys /\ key \notin Held /\ OnChain(key, i, tags, Cap)
  BY DEF Probe, TableInv, TypeOK, Inserting
<1>3. Cap \in Nat \ {0} /\ hash \in HashFns
  BY InvFacts
<1>4. Cap' = Cap
  BY <1>1 DEF Cap
<1> PICK c : c = Cap
  OBVIOUS
<1> PICK s : s = slots'
  OBVIOUS
<1> PICK t : t = tags'
  OBVIOUS
<1>5. c \in Nat \ {0} /\ hash \in HashFns
  BY <1>3
<1>6. Places(key, i, slots, tags, c, s, t)
  BY <1>1, <1>2 DEF Places, TableInv, Held
<1>7. ArraysOK(s, t, c) /\ HeldIn(s, t) = HeldIn(slots, tags) \cup {key}
  BY ONLY <1>5, <1>6, Placing
<1>8. ArraysOK(slots, tags, Cap)'
  BY <1>1, <1>4, <1>7, TableNext
<1>9. Held' = Held \cup {key}
  <2>1. Held' = HeldIn(s, t)
    BY DEF Held, HeldIn, LiveIn
  <2> QED
    BY <1>7, <2>1 DEF Held
<1>10. len' = Cardinality(Held')
  <2>1. IsFiniteSet(Held) /\ len = Cardinality(Held)
    BY InvFacts
  <2>2. Cardinality(Held \cup {key}) = Cardinality(Held) + 1
    BY <1>2, <2>1, FS_AddElement
  <2> QED
    BY <1>1, <1>9, <2>1, <2>2
<1> QED
  BY <1>4, <1>8, <1>9, <1>10

LEMMA ProbeInv ==
  ASSUME TableInv, Probe
  PROVE  /\ TableInv'
         /\ pc = "probe" /\ key \in Keys /\ key \notin Held
         /\ todo # {} => key \in todo
         /\ Cap' = Cap
         /\ \/ /\ pc' = "probe"
               /\ Held' = Held /\ todo' = todo /\ key' = key /\ found' = found
            \/ /\ pc' = "idle" /\ todo' = {} /\ todo \subseteq {key}
               /\ Held' = Held \cup {key}
               /\ found' = (found /\ todo # {})
            \/ /\ pc' = "insert" /\ todo' # {} /\ todo' = todo \ {key} /\ todo # {}
               /\ Held' = Held \cup {key} /\ found' = found
<1>1. hash' = hash /\ resizeAt' = resizeAt /\ at' = at /\ pc = "probe"
  BY DEF Probe, growVars
<1>2. /\ key \in Keys /\ key \notin Held /\ OnChain(key, i, tags, Cap)
      /\ len + 1 <= resizeAt /\ (todo # {} => key \in todo)
  BY <1>1 DEF TableInv, TypeOK, Inserting
<1>3. /\ Cap \in Nat \ {0} /\ hash \in HashFns /\ len \in Nat
      /\ IsFiniteSet(todo) /\ Cardinality(todo) \in Nat
      /\ (todo = {} => Cardinality(todo) = 0)
  BY InvFacts
<1>4. TypeOK /\ len + Cardinality(todo) <= resizeAt /\ todo \cap Held = {}
      /\ resizeAt = (3 * Cap) \div 4
  BY DEF TableInv
<1>5. CASE tags[i] # 0
  <2>1. i' = (i + 1) % Cap /\ UNCHANGED <<slots, tags, len, pc, key, todo, found>>
    BY <1>5 DEF Probe
  <2>2. UNCHANGED <<hash, tableVars>>
    BY <1>1, <2>1 DEF tableVars
  <2>3. /\ Cap' = Cap /\ Held' = Held /\ ArraysOK(slots, tags, Cap)'
        /\ len' = Cardinality(Held') /\ resizeAt' = (3 * Cap') \div 4
    BY <2>2, SameTable
  <2>4. i \in Live
    BY <1>2, <1>5, InvFacts DEF OnChain
  <2>5. OnChain(key', i', tags', Cap')
    <3>1. OnChain(key, (i + 1) % Cap, tags, Cap)
      BY <1>2, <1>3, <2>4, GoesOnChain DEF Live
    <3> QED
      BY <2>1, <2>3, <3>1
  <2>6. OnChain(key, i, tags, Cap)'
    BY <1>1, <2>5, ProbeNext
  <2>7. TypeOK'
    BY <1>1, <1>4, <2>1 DEF TypeOK
  <2>8. TableInv'
    BY <1>1, <1>2, <1>3, <1>4, <2>1, <2>3, <2>6, <2>7 DEF TableInv, Inserting
  <2> QED
    BY <1>1, <1>2, <2>1, <2>3, <2>8
<1>6. CASE ~ (tags[i] # 0)
  <2>1. /\ Cap' = Cap /\ ArraysOK(slots, tags, Cap)'
        /\ Held' = Held \cup {key}
        /\ len' = Cardinality(Held')
    BY <1>6, ProbeWrites
  <2>2. len' = len + 1 /\ todo' = todo \ {key}
    BY <1>6 DEF Probe
  <2>3. len' + Cardinality(todo') <= resizeAt' /\ todo' \cap Held' = {}
    <3>1. CASE todo = {}
      <4>1. todo' = {} /\ Cardinality({}) = 0
        BY <2>2, <3>1, FS_EmptySet
      <4>2. resizeAt \in Nat
        BY <1>4 DEF TypeOK
      <4> QED
        BY <1>1, <1>2, <1>3, <2>2, <4>1, <4>2
    <3>2. CASE todo # {}
      <4>1. Cardinality(todo \ {key}) = Cardinality(todo) - 1
        BY <1>2, <1>3, <3>2, FS_RemoveElement
      <4>2. resizeAt \in Nat
        BY <1>4 DEF TypeOK
      <4> QED
        BY <1>1, <1>3, <1>4, <2>1, <2>2, <4>1, <4>2
    <3> QED
      BY <3>1, <3>2
  <2>4. CASE todo \subseteq {key}
    <3>1. pc' = "idle" /\ found' = (found /\ todo # {}) /\ key' = key /\ todo' = {}
      BY <1>6, <2>2, <2>4 DEF Probe
    <3>2. TypeOK'
      <4>1. found' \in BOOLEAN
        BY <3>1
      <4> QED
        BY <1>1, <1>3, <1>4, <2>2, <3>1, <4>1 DEF TypeOK
    <3>3. TableInv'
      BY <1>1, <1>3, <1>4, <2>1, <2>3, <3>1, <3>2 DEF TableInv, Inserting
    <3> QED
      BY <1>1, <1>2, <2>1, <2>4, <3>1, <3>3
  <2>5. CASE ~ (todo \subseteq {key})
    <3>1. pc' = "insert" /\ key' = Least(todo') /\ found' = found
      BY <1>6, <2>5 DEF Probe
    <3>2. todo' \in SUBSET Keys /\ todo' # {} /\ todo # {}
      BY <1>4, <2>2, <2>5 DEF TypeOK
    <3>3. key' \in todo'
      BY <3>1, <3>2, LeastIn
    <3>4. TypeOK'
      BY <1>1, <1>3, <1>4, <2>2, <3>1, <3>2, <3>3 DEF TypeOK
    <3>5. TableInv'
      BY <1>1, <1>3, <1>4, <2>1, <2>3, <3>1, <3>2, <3>3, <3>4 DEF TableInv, Inserting
    <3> QED
      BY <1>1, <1>2, <2>1, <2>2, <3>1, <3>2, <3>5
  <2> QED
    BY <2>4, <2>5
<1> QED
  BY <1>5, <1>6

\* The table a rebuilding starts from has room for all its keys.
LEMMA RebuildInv ==
  ASSUME TableInv, NEW S \in SUBSET Keys, Rebuild(S)
  PROVE  /\ TableInv'
         /\ pc = "idle" /\ todo = {} /\ todo' = S /\ Held' = {} /\ found' = found
         /\ pc' \in {"idle", "insert"} /\ (S # {} => pc' = "insert")
<1>1. /\ hash' = hash /\ at' = at /\ found' = found /\ pc = "idle"
      /\ len' = 0 /\ todo' = S
  BY DEF Rebuild, ResizeFor, growVars
<1>2. todo = {} /\ hash \in HashFns /\ at \in Nat /\ found \in BOOLEAN
  BY <1>1 DEF TableInv, TypeOK
<1>3. IsFiniteSet(S) /\ Cardinality(S) \in Nat
  BY UniqueTableAssumption, FS_Subset, FS_CardinalityType
<1> PICK c : c = CapFor(Cardinality(S))
  OBVIOUS
<1>4. c \in Nat \ {0} /\ Cardinality(S) <= (3 * c) \div 4
  BY <1>3, CapForFits
<1>5. slots' = EmptySlots(c) /\ tags' = EmptySlots(c) /\ resizeAt' = (c * 3) \div 4
  BY DEF Rebuild, ResizeFor
<1>6. Cap' = c
  BY <1>4, <1>5, EmptyCap DEF Cap
<1>7. ArraysOK(slots', tags', c) /\ HeldIn(slots', tags') = {}
  BY <1>4, <1>5, EmptyArrays
<1>8. ArraysOK(slots, tags, Cap)'
  BY <1>1, <1>6, <1>7, TableNext
<1>9. Held' = {}
  BY <1>7 DEF Held, HeldIn, LiveIn
<1>10. len' = Cardinality(Held')
  BY <1>1, <1>9, FS_EmptySet
<1>11. /\ resizeAt' = (3 * Cap') \div 4 /\ resizeAt' \in Nat
       /\ len' + Cardinality(todo') <= resizeAt'
  BY <1>1, <1>3, <1>4, <1>5, <1>6
<1>12. CASE S = {}
  <2>1. pc' = "idle"
    BY <1>1, <1>12 DEF Rebuild
  <2>2. TypeOK'
    BY <1>1, <1>2, <1>11, <2>1 DEF TypeOK
  <2>3. TableInv'
    BY <1>1, <1>4, <1>6, <1>8, <1>9, <1>10, <1>11, <1>12, <2>1, <2>2 DEF TableInv, Inserting
  <2> QED
    BY <1>1, <1>2, <1>9, <1>12, <2>1, <2>3
<1>13. CASE S # {}
  <2>1. pc' = "insert" /\ key' = Least(S)
    BY <1>13 DEF Rebuild
  <2>2. key' \in S
    BY <1>13, <2>1, LeastIn
  <2>3. TypeOK'
    BY <1>1, <1>2, <1>11, <2>1, <2>2 DEF TypeOK
  <2>4. TableInv'
    BY <1>1, <1>4, <1>6, <1>8, <1>9, <1>10, <1>11, <2>1, <2>2, <2>3 DEF TableInv, Inserting
  <2> QED
    BY <1>1, <1>2, <1>9, <2>1, <2>4
<1> QED
  BY <1>12, <1>13

LEMMA StutterInv ==
  ASSUME TableInv, UNCHANGED vars
  PROVE  TableInv' /\ Cap' = Cap /\ Held' = Held
<1>1. UNCHANGED <<hash, tableVars>> /\ UNCHANGED growVars
      /\ UNCHANGED <<pc, key, i, todo, found>>
  BY DEF vars
<1>2. /\ Cap' = Cap /\ Live' = Live /\ Held' = Held /\ ArraysOK(slots, tags, Cap)'
      /\ len' = Cardinality(Held') /\ resizeAt' = (3 * Cap') \div 4
  BY <1>1, SameTable
<1>3. TypeOK' /\ (Inserting' <=> Inserting)
  BY <1>1 DEF TableInv, TypeOK, Inserting, tableVars, growVars
<1>4. pc = "probe" => OnChain(key, i, tags, Cap)'
  <2>1. pc = "probe" => OnChain(key', i', tags', Cap')
    BY <1>1, <1>2 DEF TableInv, tableVars
  <2> QED
    BY <1>1, <2>1, ProbeNext
<1>5. pc = "lookup" =>
        /\ OnChain(key, i, tags, Cap)'
        /\ (\A s \in Chain(Home(key, Cap), i, Cap) \ {i} : slots[s] - 1 # key)'
  <2> SUFFICES ASSUME pc = "lookup"
               PROVE  /\ OnChain(key, i, tags, Cap)'
                      /\ (\A s \in Chain(Home(key, Cap), i, Cap) \ {i} : slots[s] - 1 # key)'
    OBVIOUS
  <2>1. OnChain(key', i', tags', Cap')
    BY <1>1, <1>2 DEF TableInv, tableVars
  <2>2. OnChain(key, i, tags, Cap)'
    BY <1>1, <2>1, ProbeNext
  <2>3. \A s \in Chain(Home(key, Cap), i, Cap) \ {i} : slots[s] - 1 # key
    BY DEF TableInv
  <2> QED
    BY <1>1, <1>2, <2>2, <2>3 DEF Home, tableVars
<1>6. pc \in {"grow", "move"} => /\ ArraysOK(newSlots, newTags, 2 * Cap)'
                                /\ HeldIn(newSlots, newTags)' = Moved'
                                /\ at' <= Cap'
  <2> SUFFICES ASSUME pc \in {"grow", "move"}
               PROVE  /\ ArraysOK(newSlots, newTags, 2 * Cap)'
                      /\ HeldIn(newSlots, newTags)' = Moved'
                      /\ at' <= Cap'
    OBVIOUS
  <2>1. ArraysOK(newSlots', newTags', 2 * Cap') /\ at' <= Cap'
    BY <1>1, <1>2 DEF TableInv, growVars
  <2>2. HeldIn(newSlots, newTags)' = HeldIn(newSlots, newTags) /\ Moved' = Moved
    BY <1>1, <1>2 DEF HeldIn, LiveIn, Moved, tableVars, growVars
  <2>3. HeldIn(newSlots, newTags) = Moved
    BY DEF TableInv
  <2> QED
    BY <1>1, <2>1, <2>2, <2>3, NewTableNext
<1>7. pc = "move" => at' \in Live' /\ OnChain(slots[at] - 1, i, newTags, 2 * Cap)'
  <2>1. pc = "move" => /\ at' \in Live'
                       /\ OnChain(slots'[at'] - 1, i', newTags', 2 * Cap')
    BY <1>1, <1>2 DEF TableInv, tableVars, growVars
  <2> QED
    BY <1>1, <2>1, MoveNext
<1>8. TableInv'
  BY <1>1, <1>2, <1>3, <1>4, <1>5, <1>6, <1>7 DEF TableInv, tableVars
<1> QED
  BY <1>2, <1>8

LEMMA NextTableInv ==
  ASSUME TableInv, [Next]_vars
  PROVE  TableInv'
<1>1. CASE \E k \in Keys : Make(k)
  BY <1>1, MakeInv
<1>2. CASE \E S \in SUBSET Keys : Rebuild(S)
  BY <1>2, RebuildInv
<1>3. CASE Lookup
  BY <1>3, LookupInv
<1>4. CASE Insert
  BY <1>4, InsertInv
<1>5. CASE Grow
  BY <1>5, GrowInv
<1>6. CASE Move
  BY <1>6, MoveInv
<1>7. CASE Grown
  BY <1>7, GrownInv
<1>8. CASE Probe
  BY <1>8, ProbeInv
<1>9. CASE UNCHANGED vars
  BY <1>9, StutterInv
<1> QED
  BY <1>1, <1>2, <1>3, <1>4, <1>5, <1>6, <1>7, <1>8, <1>9 DEF Next, Step
-----------------------------------------------------------------------------
(* The theorems. *)

\* What the run unique_table checks as the inductive invariant holds for every
\* set of keys, initial capacity and hash function.
THEOREM TableInvariance == Spec => []TableInv
<1>1. TableInv /\ [Next]_vars => TableInv'
  BY NextTableInv
<1> QED
  BY <1>1, InitTableInv, PTL DEF Spec

\* The table's counters say what its arrays hold, and its load never passes the
\* threshold that insert compares them with.
THEOREM CountersRight == Spec => []TableOK
<1>1. TableInv => TableOK
  <2> SUFFICES ASSUME TableInv PROVE TableOK
    OBVIOUS
  <2>1. len \in Nat /\ Cardinality(todo) \in Nat /\ resizeAt \in Nat
    BY InvFacts
  <2>2. len <= resizeAt
    BY <2>1 DEF TableInv
  <2>3. \A j \in Live : slots[j] - 1 \in Keys /\ tags[j] = TagOf(slots[j] - 1)
    BY DEF TableInv, ArraysOK, Live
  <2> QED
    BY <2>2, <2>3, InvFacts DEF TableOK, TableInv
<1> QED
  BY <1>1, TableInvariance, PTL

\* Whatever collided, grew or was rebuilt, lookup comes to every entry before it
\* comes to an empty slot.
THEOREM ChainsWhole == Spec => []ChainsUnbroken
<1>1. TableInv => ChainsUnbroken
  BY DEF TableInv, ArraysOK, ChainsUnbroken
<1> QED
  BY <1>1, TableInvariance, PTL

\* The probing loops of lookup and insert have an empty slot to end at, always.
SlotLeft == \E j \in DOMAIN tags : tags[j] = 0
LEMMA NotFull == TableInv => SlotLeft
<1> SUFFICES ASSUME TableInv, \A j \in DOMAIN tags : tags[j] # 0 PROVE FALSE
  BY DEF SlotLeft
<1>1. Live = 0 .. Cap - 1 /\ Cap \in Nat \ {0} /\ len = Cardinality(Live)
  BY InvFacts
<1>2. Cardinality(0 .. Cap - 1) = Cap
  BY <1>1, FS_Interval
<1>3. Cardinality(todo) \in Nat /\ len + Cardinality(todo) <= (3 * Cap) \div 4
  BY InvFacts DEF TableInv
<1>4. PICK c : c = Cap
  OBVIOUS
<1>5. c \in Nat \ {0} /\ c <= (3 * c) \div 4
  BY <1>1, <1>2, <1>3, <1>4
<1> QED
  BY <1>5

THEOREM NeverFull == Spec => []SlotLeft
  BY NotFull, TableInvariance, PTL

\* No insertion of a rebuilding makes the table it was sized for grow.
THEOREM SizedForRebuild == Spec => RebuildNeverGrows
<1>1. TableInv /\ [Next]_vars => [todo # {} => DOMAIN slots' = DOMAIN slots]_vars
  <2> SUFFICES ASSUME TableInv, Next, todo # {} PROVE DOMAIN slots' = DOMAIN slots
    OBVIOUS
  <2>1. pc \in {"insert", "probe"}
    BY DEF TableInv
  <2>2. CASE Insert
    BY <2>2 DEF Insert, tableVars
  <2>3. CASE Probe
    BY <2>3 DEF Probe
  <2> QED
    BY <2>1, <2>2, <2>3 DEF Next, Step, Make, Rebuild, Lookup, Grow, Move, Grown
<1> QED
  BY <1>1, TableInvariance, PTL DEF Spec, RebuildNeverGrows
-----------------------------------------------------------------------------
(* The table is a set. *)

KSNext == [KS!Ask \/ KS!Answer \/ KS!Rebuild \/ KS!PutBack]_KS!keyVars

\* A turn that leaves the set, the question and the last answer as they are.
LEMMA Unseen ==
  ASSUME given' = given, todo' = todo, (Asking' <=> Asking), key' = key \/ ~ Asking,
         found' = found
  PROVE  KSNext
BY DEF KSNext, KS!keyVars

\* What the slots hold and what is still to come stays what was given.
LEMMA NextHoldsGiven ==
  ASSUME TableInv, HoldsGiven, [Next]_vars
  PROVE  HoldsGiven'
<1>1. CASE \E k \in Keys : Make(k)
  <2>1. PICK k \in Keys : Make(k)
    BY <1>1
  <2>2. Held' = Held
    BY <2>1, SameTable DEF Make
  <2> QED
    BY <2>1, <2>2 DEF Make, HoldsGiven
<1>2. CASE \E S \in SUBSET Keys : Rebuild(S)
  <2>1. PICK S \in SUBSET Keys : Rebuild(S)
    BY <1>2
  <2>2. todo' = S /\ Held' = {}
    BY <2>1, RebuildInv
  <2>3. given' = S
    BY <2>1 DEF Rebuild
  <2> QED
    BY <2>2, <2>3 DEF HoldsGiven
<1>3. CASE Lookup \/ Insert \/ Grow \/ Move \/ Grown
  <2>1. Held' = Held
    BY <1>3, LookupInv, InsertInv, GrowInv, MoveInv, GrownInv
  <2>2. todo' = todo /\ given' = given
    BY <1>3 DEF Lookup, Insert, Grow, Move, Grown
  <2> QED
    BY <2>1, <2>2 DEF HoldsGiven
<1>4. CASE Probe
  <2>1. CASE tags[i] # 0
    <3>1. Held' = Held
      BY <1>4, <2>1, SameTable DEF Probe, tableVars
    <3> QED
      BY <1>4, <2>1, <3>1 DEF Probe, HoldsGiven
  <2>2. CASE ~ (tags[i] # 0)
    <3>1. todo' = todo \ {key} /\ given' = given \cup {key}
      BY <1>4, <2>2 DEF Probe
    <3>2. Held' = Held \cup {key}
      BY <1>4, <2>2, ProbeWrites
    <3> QED
      BY <3>1, <3>2 DEF HoldsGiven
  <2> QED
    BY <2>1, <2>2
<1>5. CASE UNCHANGED vars
  <2>1. Held' = Held
    BY <1>5, StutterInv
  <2> QED
    BY <1>5, <2>1 DEF vars, HoldsGiven
<1> QED
  BY <1>1, <1>2, <1>3, <1>4, <1>5 DEF Next, Step

\* The table starts with nothing, and was given nothing.
LEMMA InitHoldsGiven ==
  ASSUME Init
  PROVE  HoldsGiven /\ given = {} /\ todo = {} /\ found = FALSE /\ ~ Asking
<1>1. Live = {}
  BY UniqueTableAssumption, EmptyArrays DEF Init, Live
<1> QED
  BY <1>1 DEF HoldsGiven, Held, HeldIn, Live, Init, Asking, Inserting

\* No key the caller gave the table is lost, and none it did not give is there,
\* at any turn of growth or rebuilding, for any hash function.
THEOREM NothingLost == Spec => []HoldsGiven
<1>1. Init => HoldsGiven
  BY InitHoldsGiven
<1>2. TableInv /\ HoldsGiven /\ [Next]_vars => HoldsGiven'
  BY NextHoldsGiven
<1> QED
  BY <1>1, <1>2, TableInvariance, PTL DEF Spec

LEMMA NextIsKeySet ==
  ASSUME TableInv, HoldsGiven, [Next]_vars
  PROVE  KSNext
<1>1. CASE \E k \in Keys : Make(k)
  <2>1. PICK k \in Keys : Make(k)
    BY <1>1
  <2>2. /\ ~ Asking /\ Asking' /\ key' = k /\ todo' = todo /\ found' = found
        /\ given' = given
    BY <2>1 DEF Make, Asking, Inserting
  <2>3. todo = {}
    BY <2>1 DEF TableInv, Make
  <2>4. KS!Ask
    BY <2>2, <2>3 DEF KS!Ask
  <2> QED
    BY <2>4 DEF KSNext
<1>2. CASE \E S \in SUBSET Keys : Rebuild(S)
  <2>1. PICK S \in SUBSET Keys : Rebuild(S)
    BY <1>2
  <2>2. /\ todo' = S /\ todo = {} /\ found' = found /\ pc = "idle"
        /\ pc' \in {"idle", "insert"} /\ (S # {} => pc' = "insert")
    BY <2>1, RebuildInv
  <2>3. ~ Asking /\ ~ Asking'
    <3>1. S = {} => pc' = "idle"
      BY <2>1 DEF Rebuild
    <3> QED
      BY <2>2, <3>1 DEF Asking, Inserting
  <2>4. given' = S
    BY <2>1 DEF Rebuild
  <2>5. KS!Rebuild
    BY <2>2, <2>3, <2>4 DEF KS!Rebuild
  <2> QED
    BY <2>5 DEF KSNext
<1>3. CASE Lookup
  <2>1. /\ key \in Keys /\ todo = {} /\ todo' = {} /\ given' = given /\ key' = key
        /\ pc = "lookup"
        /\ \/ pc' = "idle" /\ found' = TRUE /\ key \in Held
           \/ pc' = "insert" /\ found' = found
           \/ pc' = "lookup" /\ found' = found
    BY <1>3, LookupInv DEF Lookup
  <2>2. CASE pc' = "idle" /\ found' = TRUE /\ key \in Held
    <3>1. Asking /\ ~ Asking'
      BY <2>1, <2>2 DEF Asking, Inserting
    <3>2. key \in given
      BY <2>2 DEF HoldsGiven
    <3>3. KS!Answer
      BY <2>1, <2>2, <3>1, <3>2 DEF KS!Answer
    <3> QED
      BY <3>3 DEF KSNext
  <2>3. CASE pc' \in {"insert", "lookup"} /\ found' = found
    <3>1. Asking /\ Asking'
      BY <2>1, <2>3 DEF Asking, Inserting
    <3> QED
      BY <2>1, <2>3, <3>1, Unseen
  <2> QED
    BY <2>1, <2>2, <2>3
<1>4. CASE Insert
  <2>1. /\ key' = key /\ todo' = todo /\ given' = given /\ found' = found
        /\ pc = "insert" /\ pc' \in {"grow", "probe"}
    BY <1>4, InsertInv DEF Insert
  <2>2. Asking' <=> Asking
    BY <2>1 DEF Asking, Inserting
  <2> QED
    BY <2>1, <2>2, Unseen
<1>5. CASE Grow \/ Move \/ Grown
  <2>1. /\ key' = key /\ todo = {} /\ todo' = {} /\ given' = given /\ found' = found
        /\ pc \in {"grow", "move"} /\ pc' \in {"grow", "move", "probe"}
    BY <1>5, GrowInv, MoveInv, GrownInv DEF Grow, Move, Grown
  <2>2. Asking' <=> Asking
    BY <2>1 DEF Asking, Inserting
  <2> QED
    BY <2>1, <2>2, Unseen
<1>6. CASE Probe
  <2>1. pc = "probe" /\ key \in Keys /\ key \notin Held /\ (todo # {} => key \in todo)
    BY <1>6, ProbeInv
  <2>2. Asking <=> todo = {}
    BY <2>1 DEF Asking, Inserting
  <2>3. CASE tags[i] # 0
    <3>1. UNCHANGED <<pc, key, todo, given, found>>
      BY <1>6, <2>3 DEF Probe
    <3>2. Asking' <=> Asking
      BY <3>1 DEF Asking, Inserting
    <3> QED
      BY <3>1, <3>2, Unseen
  <2>4. CASE ~ (tags[i] # 0)
    <3>1. /\ todo' = todo \ {key} /\ given' = given \cup {key}
          /\ IF todo \subseteq {key}
             THEN pc' = "idle" /\ found' = (found /\ todo # {})
             ELSE pc' = "insert" /\ found' = found
      BY <1>6, <2>4 DEF Probe
    <3>2. CASE todo = {}
      <4>1. Asking /\ ~ Asking' /\ todo' = {} /\ found' = FALSE
        BY <2>2, <3>1, <3>2 DEF Asking, Inserting
      <4>2. key \notin given
        BY <2>1, <3>2 DEF HoldsGiven
      <4>3. KS!Answer
        BY <3>1, <3>2, <4>1, <4>2 DEF KS!Answer
      <4> QED
        BY <4>3 DEF KSNext
    <3>3. CASE todo # {}
      <4>1. key \in todo /\ given' = given /\ ~ Asking
        BY <2>1, <2>2, <3>1, <3>3 DEF HoldsGiven
      <4>2. found \in BOOLEAN
        BY DEF TableInv, TypeOK
      <4>3. found' = found
        BY <3>1, <3>3, <4>2
      <4>4. ~ Asking'
        <5>1. pc' = "idle" \/ todo' # {}
          BY <3>1
        <5>2. pc' \in {"idle", "insert"}
          BY <3>1
        <5> QED
          BY <5>1, <5>2 DEF Asking, Inserting
      <4>5. KS!PutBack
        BY <3>1, <4>1, <4>3, <4>4 DEF KS!PutBack
      <4> QED
        BY <4>5 DEF KSNext
    <3> QED
      BY <3>2, <3>3
  <2> QED
    BY <2>3, <2>4
<1>7. CASE UNCHANGED vars
  <2>1. given' = given /\ todo' = todo /\ key' = key /\ found' = found /\ pc' = pc
    BY <1>7 DEF vars
  <2>2. Asking' <=> Asking
    BY <2>1 DEF Asking, Inserting
  <2> QED
    BY <2>1, <2>2, Unseen
<1> QED
  BY <1>1, <1>2, <1>3, <1>4, <1>5, <1>6, <1>7 DEF Next, Step

\* To make_node the table is the set that Manager has in its place: it answers
\* yes exactly to the keys the caller gave it, through any collisions, growths
\* and rebuildings, and a rebuilding keeps what it was given.
THEOREM TableIsKeySet == Spec => ImplementsKeySet
<1>1. Init => KS!Init
  BY InitHoldsGiven DEF KS!Init
<1>2. TableInv /\ HoldsGiven /\ [Next]_vars => KSNext
  BY NextIsKeySet
<1> QED
  BY <1>1, <1>2, TableInvariance, NothingLost, PTL
  DEF Spec, ImplementsKeySet, KS!Spec, KSNext
-----------------------------------------------------------------------------
(* Every call's turns come to an end. *)

\* The slots a probe from h that has come to j has yet to try, of a table of c.
Ahead(h, j, c) == IF h <= j THEN c - 1 - (j - h) ELSE h - j - 1

\* What is left of a call: the keys to insert, the loops to come, the slots to
\* move from, and the turns of the probe under way.
Stage ==
  CASE pc = "idle"             -> 0
    [] pc = "probe"            -> 1
    [] pc \in {"grow", "move"} -> 2
    [] pc = "insert"           -> 3
    [] OTHER                   -> 4
ToMove == IF pc \in {"grow", "move"} THEN Cap - at ELSE 0
ToTry ==
  CASE pc \in {"lookup", "probe"} -> Ahead(Home(key, Cap), i, Cap)
    [] pc = "move"                -> Ahead(Home(slots[at] - 1, 2 * Cap), i, 2 * Cap)
    [] pc = "grow"                -> 2 * Cap
    [] OTHER                      -> 0
Rank == <<Cardinality(todo), Stage, ToMove, ToTry>>

\* Four numbers are lower than four others when the first in which they differ is.
LessThan == {p \in Nat \X Nat : p[1] < p[2]}
Lower == LexProductOrdering(LessThan, Nat, 4)

\* There is no endless descent.
LEMMA LowerEnds == IsWellFoundedOn(Lower, [1 .. 4 -> Nat])
<1>1. IsWellFoundedOn(LessThan, Nat)
  BY NatLessThanWellFounded DEF OpToRel, LessThan
<1> QED
  BY <1>1, WFLexProductOrdering DEF Lower

\* One number falls, and those before it stay.
Falls(a, b, c, d, p, q, r, t) ==
  \/ p < a
  \/ p = a /\ q < b
  \/ p = a /\ q = b /\ r < c
  \/ p = a /\ q = b /\ r = c /\ t < d

LEMMA FallsIsLower ==
  ASSUME NEW a \in Nat, NEW b \in Nat, NEW c \in Nat, NEW d \in Nat,
         NEW p \in Nat, NEW q \in Nat, NEW r \in Nat, NEW t \in Nat,
         Falls(a, b, c, d, p, q, r, t)
  PROVE  <<<<p, q, r, t>>, <<a, b, c, d>>>> \in Lower
<1> PICK x, y : x = <<p, q, r, t>> /\ y = <<a, b, c, d>>
  OBVIOUS
<1>1. /\ x[1] = p /\ x[2] = q /\ x[3] = r /\ x[4] = t
      /\ y[1] = a /\ y[2] = b /\ y[3] = c /\ y[4] = d
  OBVIOUS
<1>2. x \in [1 .. 4 -> Nat] /\ y \in [1 .. 4 -> Nat]
  OBVIOUS
<1>3. \E j \in 1 .. 4 : /\ \A m \in 1 .. j - 1 : x[m] = y[m]
                       /\ x[j] < y[j]
  <2>1. CASE p < a
    <3>1. \A m \in 1 .. 1 - 1 : x[m] = y[m]
      OBVIOUS
    <3> QED
      BY <1>1, <2>1, <3>1
  <2>2. CASE p = a /\ q < b
    <3>1. \A m \in 1 .. 2 - 1 : x[m] = y[m]
      BY <1>1, <2>2
    <3> QED
      BY <1>1, <2>2, <3>1
  <2>3. CASE p = a /\ q = b /\ r < c
    <3>1. \A m \in 1 .. 3 - 1 : x[m] = y[m]
      BY <1>1, <2>3
    <3> QED
      BY <1>1, <2>3, <3>1
  <2>4. CASE p = a /\ q = b /\ r = c /\ t < d
    <3>1. \A m \in 1 .. 4 - 1 : x[m] = y[m]
      BY <1>1, <2>4
    <3> QED
      BY <1>1, <2>4, <3>1
  <2> QED
    BY <2>1, <2>2, <2>3, <2>4 DEF Falls
<1>4. \A m \in 1 .. 4 : x[m] \in Nat /\ y[m] \in Nat
  BY <1>2
<1> QED
  BY <1>2, <1>3, <1>4 DEF Lower, LexProductOrdering, LessThan

\* A probe that passes a slot and leaves one untried has one less ahead of it.
LEMMA AheadNext ==
  ASSUME NEW c \in Nat \ {0}, NEW h \in 0 .. c - 1, NEW j \in 0 .. c - 1
  PROVE  /\ Ahead(h, j, c) \in 0 .. c - 1
         /\ 0 .. c - 1 \subseteq Chain(h, j, c)
              \/ Ahead(h, (j + 1) % c, c) = Ahead(h, j, c) - 1
<1>1. Ahead(h, j, c) \in 0 .. c - 1
  BY DEF Ahead
<1>2. PICK n : n = (j + 1) % c
  OBVIOUS
<1>3. n = IF j = c - 1 THEN 0 ELSE j + 1
  BY <1>2, ModNext
<1>4. 0 .. c - 1 \subseteq Chain(h, j, c) \/ Ahead(h, n, c) = Ahead(h, j, c) - 1
  <2>1. CASE Ahead(h, j, c) = 0
    BY <2>1 DEF Ahead, Chain
  <2>2. CASE Ahead(h, j, c) # 0
    BY <1>3, <2>2 DEF Ahead
  <2> QED
    BY <2>1, <2>2
<1> QED
  BY <1>1, <1>2, <1>4

\* So has one that passes a live slot of a table that is not full.
LEMMA ProbeCloser ==
  ASSUME hash \in HashFns, NEW k \in Keys, NEW c \in Nat \ {0}, NEW tg, NEW j,
         OnChain(k, j, tg, c), NEW e \in 0 .. c - 1, e \notin LiveIn(tg)
  PROVE  /\ Ahead(Home(k, c), j, c) \in 0 .. c - 1
         /\ j \in LiveIn(tg) =>
              Ahead(Home(k, c), (j + 1) % c, c) = Ahead(Home(k, c), j, c) - 1
<1>1. Home(k, c) \in 0 .. c - 1 /\ j \in 0 .. c - 1
  BY HashType DEF OnChain
<1>2. j \in LiveIn(tg) => Chain(Home(k, c), j, c) \subseteq LiveIn(tg)
  BY DEF OnChain
<1> QED
  BY <1>1, <1>2, AheadNext

\* resize's new table has a slot that is not live: it has twice as many.
LEMMA NewNotFull ==
  ASSUME TableInv, pc = "move"
  PROVE  \E e \in 0 .. 2 * Cap - 1 : e \notin LiveIn(newTags)
<1>1. /\ ArraysOK(newSlots, newTags, 2 * Cap) /\ HeldIn(newSlots, newTags) = Moved
      /\ Cap \in Nat \ {0} /\ 2 * Cap \in Nat
  BY DEF TableInv
<1>2. Moved \subseteq Held
  BY DEF Moved, Held, HeldIn, Live
<1>3. Cardinality(Moved) <= len /\ len <= resizeAt /\ resizeAt = (3 * Cap) \div 4
      /\ len \in Nat /\ Cardinality(Moved) \in Nat
  BY <1>2, InvFacts, FS_Subset, FS_CardinalityType DEF TableInv
<1>4. Cardinality(LiveIn(newTags)) = Cardinality(Moved) /\ LiveIn(newTags) \subseteq 0 .. 2 * Cap - 1
  BY <1>1, ArraysFacts
<1> SUFFICES ASSUME LiveIn(newTags) = 0 .. 2 * Cap - 1 PROVE FALSE
  BY <1>4
<1>5. Cardinality(0 .. 2 * Cap - 1) = 2 * Cap
  BY <1>1, FS_Interval
<1>6. PICK c, m : c = Cap /\ m = Cardinality(Moved)
  OBVIOUS
<1>7. c \in Nat \ {0} /\ m = 2 * c /\ m <= (3 * c) \div 4
  BY <1>1, <1>3, <1>4, <1>5, <1>6
<1> QED
  BY <1>7

\* What a probe under way has ahead of it, now and at its next turn.
LEMMA ProbeAhead ==
  ASSUME TableInv, pc \in {"lookup", "probe"}
  PROVE  /\ ToTry = Ahead(Home(key, Cap), i, Cap) /\ ToTry \in 0 .. Cap - 1
         /\ i \in 0 .. Cap - 1
         /\ tags[i] # 0 => Ahead(Home(key, Cap), (i + 1) % Cap, Cap) = ToTry - 1
<1>1. ToTry = Ahead(Home(key, Cap), i, Cap)
  BY DEF ToTry
<1>2. OnChain(key, i, tags, Cap) /\ key \in Keys
  BY DEF TableInv, TypeOK
<1>3. PICK e \in 0 .. Cap - 1 : e \notin LiveIn(tags)
  BY NotFull, InvFacts DEF SlotLeft, LiveIn
<1>4. /\ hash \in HashFns /\ Cap \in Nat \ {0} /\ i \in 0 .. Cap - 1
      /\ tags[i] # 0 => i \in LiveIn(tags)
  BY <1>2, InvFacts DEF OnChain, Live
<1> QED
  BY <1>1, <1>2, <1>3, <1>4, ProbeCloser

LEMMA MoveAhead ==
  ASSUME TableInv, pc = "move"
  PROVE  /\ ToTry = Ahead(Home(slots[at] - 1, 2 * Cap), i, 2 * Cap)
         /\ ToTry \in 0 .. 2 * Cap - 1 /\ at \in 0 .. Cap - 1
         /\ newTags[i] # 0 =>
              Ahead(Home(slots[at] - 1, 2 * Cap), (i + 1) % (2 * Cap), 2 * Cap)
                = ToTry - 1
<1>1. ToTry = Ahead(Home(slots[at] - 1, 2 * Cap), i, 2 * Cap)
  BY DEF ToTry
<1>2. /\ OnChain(slots[at] - 1, i, newTags, 2 * Cap) /\ at \in Live
      /\ ArraysOK(newSlots, newTags, 2 * Cap)
  BY DEF TableInv
<1>3. slots[at] - 1 \in Keys /\ at \in 0 .. Cap - 1
  BY <1>2, InvFacts
<1>4. PICK e \in 0 .. 2 * Cap - 1 : e \notin LiveIn(newTags)
  BY NewNotFull
<1>5. hash \in HashFns /\ 2 * Cap \in Nat \ {0}
  BY InvFacts
<1>6. newTags[i] # 0 => i \in LiveIn(newTags)
  BY <1>2 DEF OnChain, ArraysOK, LiveIn
<1> QED
  BY <1>1, <1>2, <1>3, <1>4, <1>5, <1>6, ProbeCloser

LEMMA RankType ==
  TableInv => /\ Cardinality(todo) \in Nat /\ Stage \in Nat
              /\ ToMove \in Nat /\ ToTry \in Nat
<1> SUFFICES ASSUME TableInv
             PROVE  /\ Cardinality(todo) \in Nat /\ Stage \in Nat
                    /\ ToMove \in Nat /\ ToTry \in Nat
  OBVIOUS
<1>1. Cardinality(todo) \in Nat /\ Cap \in Nat \ {0}
  BY InvFacts
<1>2. Stage \in Nat
  BY DEF Stage
<1>3. ToMove \in Nat
  BY <1>1 DEF ToMove, TableInv, TypeOK
<1>4. ToTry \in Nat
  <2>1. CASE pc \in {"lookup", "probe"}
    BY <1>1, <2>1, ProbeAhead
  <2>2. CASE pc = "move"
    BY <1>1, <2>2, MoveAhead
  <2>3. CASE pc \notin {"lookup", "probe", "move"}
    BY <1>1, <2>3 DEF ToTry
  <2> QED
    BY <2>1, <2>2, <2>3
<1> QED
  BY <1>1, <1>2, <1>3, <1>4

LEMMA RankTypeNext ==
  TableInv' => /\ Cardinality(todo') \in Nat /\ Stage' \in Nat
               /\ ToMove' \in Nat /\ ToTry' \in Nat
<1>1. (TableInv => /\ Cardinality(todo) \in Nat /\ Stage \in Nat
                   /\ ToMove \in Nat /\ ToTry \in Nat)'
  BY RankType, PTL
<1> QED
  BY <1>1

LEMMA LookupFalls ==
  ASSUME TableInv, Lookup
  PROVE  /\ todo' = todo
         /\ Stage' < Stage \/ (Stage' = Stage /\ ToMove' = ToMove /\ ToTry' < ToTry)
<1>1. /\ pc = "lookup" /\ UNCHANGED <<hash, tableVars, growVars, key, todo>>
      /\ \/ pc' \in {"insert", "idle"}
         \/ pc' = pc /\ i' = (i + 1) % Cap /\ tags[i] # 0
  BY DEF Lookup
<1>2. CASE pc' \in {"insert", "idle"}
  BY <1>1, <1>2 DEF Stage
<1>3. CASE pc' = pc /\ i' = (i + 1) % Cap /\ tags[i] # 0
  <2>1. Cap' = Cap /\ Home(key, Cap)' = Home(key, Cap) /\ i' = (i + 1) % Cap
    BY <1>1, <1>3 DEF Cap, Home, tableVars
  <2>2. ToTry' = Ahead(Home(key, Cap), (i + 1) % Cap, Cap)
    BY <1>1, <1>3, <2>1 DEF ToTry, Ahead
  <2>3. ToTry \in Nat /\ ToTry' = ToTry - 1
    BY <1>1, <1>3, <2>2, InvFacts, ProbeAhead
  <2> QED
    BY <1>1, <1>3, <2>3 DEF Stage, ToMove
<1> QED
  BY <1>1, <1>2, <1>3

LEMMA InsertFalls ==
  ASSUME TableInv, Insert
  PROVE  todo' = todo /\ Stage' < Stage
<1>1. pc = "insert" /\ todo' = todo /\ pc' \in {"probe", "grow"}
  BY DEF Insert, StartProbe
<1> QED
  BY <1>1 DEF Stage

\* A slot is passed over, or its entry's loop begins, which has fewer turns
\* than the new table has slots.
LEMMA GrowFalls ==
  ASSUME TableInv, TableInv', Grow
  PROVE  /\ todo' = todo /\ Stage' = Stage
         /\ ToMove' < ToMove \/ (ToMove' = ToMove /\ ToTry' < ToTry)
<1>1. /\ pc = "grow" /\ UNCHANGED <<hash, tableVars, newSlots, newTags, key, todo>>
      /\ \/ at' = at + 1 /\ pc' = "grow"
         \/ at' = at /\ pc' = "move"
  BY DEF Grow
<1>2. Cap' = Cap /\ Cap \in Nat \ {0} /\ at \in Nat
  BY <1>1, InvFacts DEF Cap, tableVars, TableInv, TypeOK
<1>3. CASE at' = at + 1 /\ pc' = "grow"
  BY <1>1, <1>2, <1>3 DEF Stage, ToMove
<1>4. CASE at' = at /\ pc' = "move"
  <2>1. ToTry' \in 0 .. 2 * Cap' - 1
    <3>1. (TableInv /\ pc = "move" => ToTry \in 0 .. 2 * Cap - 1)'
      <4>1. TableInv /\ pc = "move" => ToTry \in 0 .. 2 * Cap - 1
        BY MoveAhead
      <4> QED
        BY MoveAhead, PTL
    <3> QED
      BY <1>4, <3>1
  <2>2. ToTry = 2 * Cap
    BY <1>1 DEF ToTry
  <2> QED
    BY <1>1, <1>2, <1>4, <2>1, <2>2 DEF Stage, ToMove
<1> QED
  BY <1>1, <1>3, <1>4

LEMMA MoveFalls ==
  ASSUME TableInv, Move
  PROVE  /\ todo' = todo /\ Stage' = Stage
         /\ ToMove' < ToMove \/ (ToMove' = ToMove /\ ToTry' < ToTry)
<1>1. /\ pc = "move" /\ UNCHANGED <<hash, tableVars, key, todo>>
      /\ \/ newTags[i] # 0 /\ i' = (i + 1) % (2 * Cap) /\ at' = at /\ pc' = pc
         \/ at' = at + 1 /\ pc' = "grow"
  BY DEF Move
<1>2. Cap' = Cap /\ Cap \in Nat \ {0} /\ at \in Nat
  BY <1>1, InvFacts DEF Cap, tableVars, TableInv, TypeOK
<1>3. CASE at' = at + 1 /\ pc' = "grow"
  BY <1>1, <1>2, <1>3 DEF Stage, ToMove
<1>4. CASE newTags[i] # 0 /\ i' = (i + 1) % (2 * Cap) /\ at' = at /\ pc' = pc
  <2>1. slots' = slots /\ at' = at /\ \A k, c : Home(k, c)' = Home(k, c)
    BY <1>1, <1>4 DEF Home, tableVars
  <2>2. ToTry' = Ahead(Home(slots[at] - 1, 2 * Cap), (i + 1) % (2 * Cap), 2 * Cap)
    BY <1>1, <1>2, <1>4, <2>1 DEF ToTry, Ahead
  <2>3. ToTry \in Nat /\ ToTry' = ToTry - 1
    BY <1>1, <1>2, <1>4, <2>2, MoveAhead
  <2> QED
    BY <1>1, <1>2, <1>4, <2>3 DEF Stage, ToMove
<1> QED
  BY <1>1, <1>3, <1>4

LEMMA GrownFalls ==
  ASSUME TableInv, Grown
  PROVE  todo' = todo /\ Stage' < Stage
<1>1. pc = "grow" /\ todo' = todo /\ pc' = "probe"
  BY DEF Grown, StartProbe
<1> QED
  BY <1>1 DEF Stage

LEMMA ProbeFalls ==
  ASSUME TableInv, Probe
  PROVE  \/ Cardinality(todo') < Cardinality(todo)
         \/ /\ todo' = todo
            /\ Stage' < Stage \/ (Stage' = Stage /\ ToMove' = ToMove /\ ToTry' < ToTry)
<1>1. pc = "probe" /\ UNCHANGED <<hash, resizeAt, growVars>>
  BY DEF Probe
<1>2. CASE tags[i] # 0
  <2>1. i' = (i + 1) % Cap /\ UNCHANGED <<slots, tags, len, pc, key, todo, found>>
    BY <1>2 DEF Probe
  <2>2. Cap' = Cap /\ Home(key, Cap)' = Home(key, Cap)
    BY <1>1, <2>1 DEF Cap, Home
  <2>3. ToTry' = Ahead(Home(key, Cap), (i + 1) % Cap, Cap)
    BY <1>1, <2>1, <2>2 DEF ToTry, Ahead
  <2>4. ToTry \in Nat /\ ToTry' = ToTry - 1
    BY <1>1, <1>2, <2>3, InvFacts, ProbeAhead
  <2> QED
    BY <1>1, <2>1, <2>4 DEF Stage, ToMove
<1>3. CASE tags[i] = 0
  <2>1. /\ todo' = todo \ {key}
        /\ todo \subseteq {key} => pc' = "idle"
    BY <1>3 DEF Probe
  <2>2. CASE todo = {}
    BY <1>1, <2>1, <2>2 DEF Stage
  <2>3. CASE todo # {}
    <3>1. key \in todo
      BY <2>3 DEF TableInv
    <3>2. Cardinality(todo \ {key}) = Cardinality(todo) - 1 /\ Cardinality(todo) \in Nat
      BY <3>1, InvFacts, FS_RemoveElement
    <3> QED
      BY <2>1, <3>2
  <2> QED
    BY <2>2, <2>3
<1> QED
  BY <1>2, <1>3

\* Each turn of each loop of lookup, insert, resize and rebuild_from_arena, and
\* each step between them, leaves less of the call to do, in an order with no
\* endless descent: every call is a finite number of turns (unique.rs:83-151).
THEOREM TurnsRunOut == Spec => [][Step => <<Rank', Rank>> \in Lower]_vars
<1>1. ASSUME TableInv, TableInv', Step PROVE <<Rank', Rank>> \in Lower
  <2>1. Falls(Cardinality(todo), Stage, ToMove, ToTry,
              Cardinality(todo'), Stage', ToMove', ToTry')
    <3>1. CASE Lookup
      BY <1>1, <3>1, LookupFalls DEF Falls
    <3>2. CASE Insert
      BY <1>1, <3>2, InsertFalls DEF Falls
    <3>3. CASE Grow
      BY <1>1, <3>3, GrowFalls DEF Falls
    <3>4. CASE Move
      BY <1>1, <3>4, MoveFalls DEF Falls
    <3>5. CASE Grown
      BY <1>1, <3>5, GrownFalls DEF Falls
    <3>6. CASE Probe
      BY <1>1, <3>6, ProbeFalls DEF Falls
    <3> QED
      BY <1>1, <3>1, <3>2, <3>3, <3>4, <3>5, <3>6 DEF Step
  <2> PICK a, b, c, d : a = Cardinality(todo) /\ b = Stage /\ c = ToMove /\ d = ToTry
    OBVIOUS
  <2> PICK p, q, r, t :
        p = Cardinality(todo') /\ q = Stage' /\ r = ToMove' /\ t = ToTry'
    OBVIOUS
  <2>2. /\ a \in Nat /\ b \in Nat /\ c \in Nat /\ d \in Nat
        /\ p \in Nat /\ q \in Nat /\ r \in Nat /\ t \in Nat
    BY <1>1, RankType, RankTypeNext
  <2>3. <<<<p, q, r, t>>, <<a, b, c, d>>>> \in Lower
    BY <2>1, <2>2, FallsIsLower
  <2> QED
    BY <2>3 DEF Rank
<1>2. TableInv /\ [Next]_vars => TableInv'
  BY NextTableInv
<1>3. TableInv /\ TableInv' /\ [Next]_vars => [Step => <<Rank', Rank>> \in Lower]_vars
  BY <1>1
<1> QED
  BY <1>2, <1>3, InitTableInv, PTL DEF Spec
=============================================================================
