----------------------------- MODULE Leb_proofs -----------------------------
(***************************************************************************)
(* Proofs about the scan of an arena's bytes, for any group and word size, *)
(* any nodes and any number of them, cut anywhere.                         *)
(***************************************************************************)
EXTENDS Leb, SequenceTheorems, Diagram_proofs
-----------------------------------------------------------------------------
(* The encoding. *)

\* What encode_u128's loop writes: a last group, or a marked one and the rest.
LEMMA EncodeDef ==
  ASSUME NEW x \in Nat
  PROVE  EncodeU128(x) = IF x < Radix THEN <<x>>
                         ELSE <<Radix + (x % Radix)>> \o EncodeU128(x \div Radix)
<1> DEFINE enc == CHOOSE f : f = [y \in Nat |-> IF y < Radix THEN <<y>>
                                   ELSE <<Radix + (y % Radix)>> \o f[y \div Radix]]
<1>1. Radix \in Nat \ {0, 1}
  BY CodecAssumption
<1>2. enc = [y \in Nat |-> IF y < Radix THEN <<y>>
                           ELSE <<Radix + (y % Radix)>> \o enc[y \div Radix]]
  BY <1>1, GroupsDefined
<1>3. \A y : EncodeU128(y) = enc[y]
  BY DEF EncodeU128
<1> HIDE DEF enc
<1>4. enc[x] = IF x < Radix THEN <<x>>
               ELSE <<Radix + (x % Radix)>> \o enc[x \div Radix]
  BY <1>2
<1> QED
  BY <1>3, <1>4

LEMMA EncodeType ==
  ASSUME NEW x \in Nat
  PROVE  /\ EncodeU128(x) \in Seq(Nat)
         /\ Len(EncodeU128(x)) = LebLen(x) /\ LebLen(x) \in Nat \ {0}
<1> DEFINE f == [y \in Nat |-> EncodeU128(y)]
<1>1. Radix \in Nat \ {0, 1}
  BY CodecAssumption
<1>2. ASSUME NEW y \in Nat
      PROVE  f[y] = IF y < Radix THEN <<y>>
                    ELSE <<Radix + (y % Radix)>> \o f[y \div Radix]
  <2>1. y \div Radix \in Nat
    BY <1>1, DivLess
  <2>2. f[y] = EncodeU128(y) /\ f[y \div Radix] = EncodeU128(y \div Radix)
    BY <2>1
  <2> QED
    BY <2>2, EncodeDef
<1> HIDE DEF f
<1>3. f[x] \in Seq(Nat) /\ Len(f[x]) \in Nat \ {0}
  BY <1>1, <1>2, GroupsType
<1>4. f[x] = EncodeU128(x)
  BY DEF f
<1> QED
  BY <1>3, <1>4 DEF LebLen

\* A number below Radix is one byte.
LEMMA LastGroup ==
  ASSUME NEW x \in Nat, EncodeU128(x)[1] < Radix
  PROVE  x < Radix /\ LebLen(x) = 1 /\ EncodeU128(x)[1] = x
<1>1. CASE x < Radix
  <2>1. EncodeU128(x) = <<x>>
    BY <1>1, EncodeDef
  <2> QED
    BY <1>1, <2>1 DEF LebLen
<1>2. CASE ~ (x < Radix)
  <2>1. PICK s \in Seq(Nat) : s = EncodeU128(x \div Radix)
    BY EncodeType, DivLess, CodecAssumption
  <2>2. EncodeU128(x) = <<Radix + (x % Radix)>> \o s
    BY <1>2, <2>1, EncodeDef
  <2>3. x % Radix \in Nat
    BY CodecAssumption
  <2>4. EncodeU128(x)[1] = Radix + (x % Radix)
    BY <2>2, <2>3
  <2> QED
    BY <2>3, <2>4, CodecAssumption
<1> QED
  BY <1>1, <1>2

\* A marked group is the remainder, and after it comes the quotient.
LEMMA MarkedGroup ==
  ASSUME NEW x \in Nat, EncodeU128(x)[1] >= Radix
  PROVE  /\ x >= Radix /\ x \div Radix \in Nat \ {0}
         /\ EncodeU128(x)[1] % Radix = x % Radix
         /\ LebLen(x) = 1 + LebLen(x \div Radix)
         /\ \A i \in 1 .. LebLen(x \div Radix) :
              EncodeU128(x)[i + 1] = EncodeU128(x \div Radix)[i]
<1>1. CASE x < Radix
  <2>1. EncodeU128(x) = <<x>>
    BY <1>1, EncodeDef
  <2> QED
    BY <1>1, <2>1, CodecAssumption
<1>2. CASE ~ (x < Radix)
  <2>1. PICK s \in Seq(Nat) : s = EncodeU128(x \div Radix) /\ Len(s) = LebLen(x \div Radix)
    BY EncodeType, DivLess, CodecAssumption DEF LebLen
  <2>2. EncodeU128(x) = <<Radix + (x % Radix)>> \o s
    BY <1>2, <2>1, EncodeDef
  <2>3. x % Radix \in 0 .. Radix - 1
    BY CodecAssumption
  <2>4. /\ EncodeU128(x)[1] = Radix + (x % Radix)
        /\ Len(EncodeU128(x)) = 1 + Len(s)
        /\ \A i \in 1 .. Len(s) : EncodeU128(x)[i + 1] = s[i]
    BY <2>2, <2>3, CodecAssumption
  <2>5. (Radix + (x % Radix)) % Radix = x % Radix
    BY <2>3, ModShift, CodecAssumption
  <2>6. x \div Radix \in Nat \ {0}
    BY <1>2, DivLess, CodecAssumption
  <2> QED
    BY <1>2, <2>1, <2>4, <2>5, <2>6, CodecAssumption DEF LebLen
<1> QED
  BY <1>1, <1>2

\* A node's bytes are its var, then the groups of lo, then those of hi.
LEMMA NodeLayout ==
  ASSUME NEW n \in Fields
  PROVE  /\ n.var \in Nat /\ n.lo \in Nat /\ n.hi \in Nat
         /\ n.lo < Word /\ n.hi < Word
         /\ LebLen(n.lo) \in Nat \ {0} /\ LebLen(n.hi) \in Nat \ {0}
         /\ NodeBytes(n) \in Seq(Nat) /\ Len(NodeBytes(n)) = NodeSize(n)
         /\ NodeSize(n) = 1 + LebLen(n.lo) + LebLen(n.hi)
         /\ NodeBytes(n)[1] = n.var
         /\ \A i \in 1 .. LebLen(n.lo) : NodeBytes(n)[1 + i] = EncodeU128(n.lo)[i]
         /\ \A i \in 1 .. LebLen(n.hi) :
              NodeBytes(n)[1 + LebLen(n.lo) + i] = EncodeU128(n.hi)[i]
<1>1. /\ n.var \in Nat /\ n.lo \in Nat /\ n.hi \in Nat
      /\ n.lo < Word /\ n.hi < Word
  BY LebAssumption, CodecAssumption DEF Fields
<1>2. PICK s \in Seq(Nat) : /\ s = EncodeU128(n.lo)
                           /\ Len(s) = LebLen(n.lo) /\ Len(s) \in Nat \ {0}
  BY <1>1, EncodeType
<1>3. PICK t \in Seq(Nat) : /\ t = EncodeU128(n.hi)
                           /\ Len(t) = LebLen(n.hi) /\ Len(t) \in Nat \ {0}
  BY <1>1, EncodeType
<1>4. NodeBytes(n) = <<n.var>> \o s \o t
  BY <1>2, <1>3 DEF NodeBytes
<1>5. PICK u \in Seq(Nat) : /\ u = <<n.var>> \o s /\ Len(u) = 1 + Len(s)
                           /\ u[1] = n.var /\ \A i \in 1 .. Len(s) : u[1 + i] = s[i]
  <2>1. PICK v \in Nat : v = n.var
    BY <1>1
  <2>2. /\ <<v>> \o s \in Seq(Nat) /\ Len(<<v>> \o s) = 1 + Len(s)
        /\ (<<v>> \o s)[1] = v /\ \A i \in 1 .. Len(s) : (<<v>> \o s)[1 + i] = s[i]
    OBVIOUS
  <2> QED
    BY <2>1, <2>2
<1>6. /\ u \o t \in Seq(Nat) /\ Len(u \o t) = Len(u) + Len(t)
      /\ \A i \in 1 .. Len(u) : (u \o t)[i] = u[i]
      /\ \A i \in 1 .. Len(t) : (u \o t)[Len(u) + i] = t[i]
  OBVIOUS
<1>7. NodeBytes(n) = u \o t
  BY <1>4, <1>5
<1>8. /\ Len(NodeBytes(n)) = 1 + Len(s) + Len(t)
      /\ NodeBytes(n)[1] = n.var
      /\ \A i \in 1 .. Len(s) : NodeBytes(n)[1 + i] = s[i]
      /\ \A i \in 1 .. Len(t) : NodeBytes(n)[1 + Len(s) + i] = t[i]
  <2>1. Len(u) = 1 + Len(s) /\ 1 \in 1 .. Len(u) /\ \A i \in 1 .. Len(s) : 1 + i \in 1 .. Len(u)
    BY <1>5
  <2>2. (u \o t)[1] = n.var /\ \A i \in 1 .. Len(s) : (u \o t)[1 + i] = s[i]
    BY <1>5, <1>6, <2>1
  <2>3. /\ Len(u \o t) = 1 + Len(s) + Len(t)
        /\ \A i \in 1 .. Len(t) : (u \o t)[1 + Len(s) + i] = t[i]
    BY <1>6, <2>1
  <2> QED
    BY <1>7, <2>2, <2>3, Zenon
<1> QED
  BY <1>1, <1>2, <1>3, <1>6, <1>7, <1>8 DEF NodeSize
-----------------------------------------------------------------------------
(* The numbers. *)

\* Of a code that fits the word, read is read and x is left from the weight w on.
Split(code, read, w, x) ==
  /\ code \in 0 .. Word - 1 /\ read \in Nat /\ w \in Nat \ {0} /\ x \in Nat
  /\ read + (w * x) = code

\* The least group of what is left stays within the word, and after it comes
\* the quotient, at the next weight.
LEMMA GroupArithmetic ==
  ASSUME NEW code, NEW read, NEW w, NEW x, Split(code, read, w, x)
  PROVE  \E g \in Nat :
           /\ g = (x % Radix) * w /\ g % Word = g
           /\ Split(code, read + g, w * Radix, x \div Radix)
           /\ x >= Radix => w * Radix < Word
           /\ x < Radix => read + g = code
<1>1. /\ Radix \in Nat \ {0, 1} /\ Word \in Nat
  BY CodecAssumption, LebAssumption
<1>2. /\ code \in 0 .. Word - 1 /\ read \in Nat /\ w \in Nat \ {0} /\ x \in Nat
      /\ read + (w * x) = code
  BY DEF Split
<1>3. PICK q \in Nat, d \in 0 .. Radix - 1 :
        q = x \div Radix /\ d = x % Radix /\ x = (Radix * q) + d
  <2>1. x % Radix \in 0 .. Radix - 1
    BY <1>1, <1>2, ModRange
  <2>2. x \div Radix \in Nat /\ x = (Radix * (x \div Radix)) + (x % Radix)
    BY <1>1, <1>2, DivLess
  <2> QED
    BY <2>1, <2>2
<1>4. PICK v \in Nat \ {0}, a \in Nat, b \in Nat : v = w * Radix /\ a = v * q /\ b = d * w
  <2>1. \A k, l \in Nat : k * l \in Nat /\ (k > 0 /\ l > 0 => k * l > 0)
    OBVIOUS
  <2> QED
    BY <1>1, <1>2, <1>3, <2>1
<1>5. w * x = a + b
  <2>1. w * ((Radix * q) + d) = ((w * Radix) * q) + (d * w)
    <3>1. w \in Int /\ Radix \in Int /\ q \in Int /\ d \in Int
      BY <1>1, <1>2
    <3> QED
      BY <3>1, MulSplit
  <2> QED
    BY <1>3, <1>4, <2>1
<1>6. (read + b) + a = code /\ b \in 0 .. Word - 1 /\ read + b \in Nat
  BY <1>1, <1>2, <1>4, <1>5
<1>7. b % Word = b
  BY <1>1, <1>6
<1>8. Split(code, read + b, v, q)
  BY <1>2, <1>3, <1>4, <1>6 DEF Split
<1>9. ASSUME x >= Radix PROVE v < Word
  <2>1. w * Radix <= w * x
    BY <1>1, <1>2, <1>9
  <2> QED
    BY <1>1, <1>2, <1>4, <2>1
<1>10. ASSUME x < Radix PROVE read + b = code
  <2>1. d = x
    BY <1>1, <1>2, <1>3, <1>10
  <2>2. x * w = w * x
    BY <1>2
  <2> QED
    BY <1>2, <1>4, <2>1, <2>2
<1> QED
  BY <1>3, <1>4, <1>7, <1>8, <1>9, <1>10

\* The byte a turn reads is the arena's.
LEMMA ByteRead ==
  ASSUME LebInv, Reading
  PROVE  /\ pos \in Nat /\ pos + 1 \in 0 .. Len(bytes)
         /\ bytes[pos + 1] = arena[pos + 1] /\ bytes[pos + 1] \in Nat
         /\ pos < Len(arena)
<1>1. /\ bytes \in Seq(Nat) /\ arena \in Seq(Nat) /\ Len(bytes) <= Len(arena)
      /\ pos \in 0 .. Len(bytes) /\ pos < Len(bytes)
      /\ \A i \in DOMAIN bytes : bytes[i] = arena[i]
  BY DEF LebInv, ArenaInv, Reading
<1>2. /\ Len(bytes) \in Nat /\ Len(arena) \in Nat /\ DOMAIN bytes = 1 .. Len(bytes)
      /\ \A i \in 1 .. Len(bytes) : bytes[i] \in Nat
  BY <1>1
<1>3. pos \in Nat /\ pos + 1 \in 1 .. Len(bytes)
  BY <1>1, <1>2
<1>4. bytes[pos + 1] = arena[pos + 1] /\ bytes[pos + 1] \in Nat
  BY <1>1, <1>2, <1>3
<1>5. pos < Len(arena) /\ pos + 1 \in 0 .. Len(bytes)
  BY <1>1, <1>2, <1>3
<1> QED
  BY <1>3, <1>4, <1>5

\* A marked group of a number under way.
LEMMA NumberGoesOn ==
  ASSUME LebInv, Reading, bytes[pos + 1] >= Radix,
         NEW code \in 0 .. Word - 1, NEW read \in Nat,
         NEW left \in 0 .. Word - 1, Numbered(code, read, left),
         NEW next, next = read + (((bytes[pos + 1] % Radix) * weight) % Word),
         pos' = pos + 1, weight' = weight * Radix, arena' = arena
  PROVE  /\ next \in Nat /\ weight' \in Nat \ {0} /\ ~ Full(weight')
         /\ \E rest \in 0 .. Word - 1 :
              Numbered(code, next, rest)' /\ LebLen(left) = 1 + LebLen(rest)
<1>1. /\ weight \in Nat \ {0} /\ Word \in Nat /\ Radix \in Nat \ {0, 1}
  BY LebAssumption, CodecAssumption DEF LebInv, ScanInv
<1>2. left \in Nat /\ read + (weight * left) = code
  BY <1>1 DEF Numbered
<1>3. bytes[pos + 1] = EncodeU128(left)[1]
  <2>1. LebLen(left) \in Nat \ {0}
    BY <1>2, EncodeType
  <2>2. 1 \in 1 .. LebLen(left)
    BY <2>1
  <2>3. arena[pos + 1] = EncodeU128(left)[1]
    BY <2>2 DEF Numbered
  <2> QED
    BY <2>3, ByteRead
<1>4. PICK rest \in Nat \ {0} :
        /\ rest = left \div Radix /\ left >= Radix
        /\ bytes[pos + 1] % Radix = left % Radix
        /\ LebLen(left) = 1 + LebLen(rest)
        /\ \A i \in 1 .. LebLen(rest) : EncodeU128(left)[i + 1] = EncodeU128(rest)[i]
  BY <1>2, <1>3, MarkedGroup
<1>5. /\ next \in Nat /\ weight' \in Nat \ {0} /\ weight' < Word
      /\ next + (weight' * rest) = code
  <2>1. PICK w : w = weight
    OBVIOUS
  <2>2. Split(code, read, w, left)
    BY <1>1, <1>2, <2>1 DEF Split
  <2>3. PICK g \in Nat : /\ g = (left % Radix) * w /\ g % Word = g
                         /\ Split(code, read + g, w * Radix, rest)
                         /\ w * Radix < Word
    BY <1>4, <2>2, GroupArithmetic
  <2>4. next = read + g /\ weight' = w * Radix
    BY <1>4, <2>1, <2>3
  <2>5. Split(code, next, weight', rest) /\ weight' < Word
    BY <2>3, <2>4
  <2> QED
    BY <2>5 DEF Split
<1>6. rest \in 0 .. Word - 1
  BY <1>1, <1>2, <1>4, DivLess
<1>7. \A i \in 1 .. LebLen(rest) : arena'[pos' + i] = EncodeU128(rest)[i]
  <2> TAKE i \in 1 .. LebLen(rest)
  <2>1. LebLen(rest) \in Nat
    BY <1>4, EncodeType
  <2>2. i + 1 \in 1 .. LebLen(left)
    BY <1>4, <2>1
  <2>3. arena[pos + (i + 1)] = EncodeU128(left)[i + 1]
    BY <2>2 DEF Numbered
  <2>4. pos + (i + 1) = pos' + i
    <3>1. pos \in Nat /\ i \in Nat
      BY <2>1, ByteRead
    <3> QED
      BY <3>1
  <2> QED
    BY <1>4, <2>3, <2>4
<1> QED
  BY <1>1, <1>4, <1>5, <1>6, <1>7 DEF Numbered, Full

\* The last group of a number under way makes the code.
LEMMA NumberEnds ==
  ASSUME LebInv, Reading, bytes[pos + 1] < Radix,
         NEW code \in 0 .. Word - 1, NEW read \in Nat,
         NEW left \in 0 .. Word - 1, Numbered(code, read, left)
  PROVE  /\ read + (((bytes[pos + 1] % Radix) * weight) % Word) = code
         /\ LebLen(left) = 1
<1>1. /\ weight \in Nat \ {0} /\ Word \in Nat /\ Radix \in Nat \ {0, 1}
  BY LebAssumption, CodecAssumption DEF LebInv, ScanInv
<1>2. left \in Nat /\ read + (weight * left) = code
  BY <1>1 DEF Numbered
<1>3. bytes[pos + 1] = EncodeU128(left)[1]
  <2>1. LebLen(left) \in Nat \ {0}
    BY <1>2, EncodeType
  <2>2. 1 \in 1 .. LebLen(left)
    BY <2>1
  <2>3. arena[pos + 1] = EncodeU128(left)[1]
    BY <2>2 DEF Numbered
  <2> QED
    BY <2>3, ByteRead
<1>4. left < Radix /\ LebLen(left) = 1 /\ bytes[pos + 1] = left
  BY <1>2, <1>3, LastGroup
<1>5. PICK w : w = weight
  OBVIOUS
<1>6. Split(code, read, w, left)
  BY <1>1, <1>2, <1>5 DEF Split
<1>7. PICK g \in Nat : g = (left % Radix) * w /\ g % Word = g /\ read + g = code
  BY <1>4, <1>6, GroupArithmetic
<1> QED
  BY <1>4, <1>5, <1>7
-----------------------------------------------------------------------------
(* The inductive invariant. *)

\* A node in the arena, byte for byte.
LEMMA NodeAt ==
  ASSUME ArenaInv, NEW k \in Nat, k < Len(written), NEW n, n = written[k + 1]
  PROVE  /\ n \in Fields /\ End(k) \in Nat /\ End(k + 1) \in Nat
         /\ End(k + 1) = End(k) + (1 + LebLen(n.lo) + LebLen(n.hi))
         /\ arena[End(k) + 1] = n.var
         /\ \A i \in 1 .. LebLen(n.lo) : arena[End(k) + 1 + i] = EncodeU128(n.lo)[i]
         /\ \A i \in 1 .. LebLen(n.hi) :
              arena[End(k) + 1 + LebLen(n.lo) + i] = EncodeU128(n.hi)[i]
<1>1. /\ written \in Seq(Nodes) /\ ends \in Seq(Nat) /\ Len(ends) = Len(written)
      /\ \A j \in 1 .. Len(written) :
           /\ End(j) = End(j - 1) + NodeSize(written[j])
           /\ \A i \in 1 .. NodeSize(written[j]) :
                arena[End(j - 1) + i] = NodeBytes(written[j])[i]
  BY DEF ArenaInv
<1>2. k + 1 \in 1 .. Len(written) /\ (k + 1) - 1 = k
  BY <1>1
<1>3. n \in Nodes /\ n \in Fields
  BY <1>1, <1>2, LebAssumption
<1>4. \A j \in 0 .. Len(written) : End(j) \in Nat
  BY <1>1 DEF End
<1>5. End(k) \in Nat /\ End(k + 1) \in Nat
  BY <1>2, <1>4
<1>6. /\ End(k + 1) = End(k) + NodeSize(n)
      /\ \A i \in 1 .. NodeSize(n) : arena[End(k) + i] = NodeBytes(n)[i]
  BY <1>1, <1>2
<1>7. PICK a \in Nat \ {0}, b \in Nat \ {0} :
        /\ a = LebLen(n.lo) /\ b = LebLen(n.hi) /\ NodeSize(n) = 1 + a + b
        /\ NodeBytes(n)[1] = n.var
        /\ \A i \in 1 .. a : NodeBytes(n)[1 + i] = EncodeU128(n.lo)[i]
        /\ \A i \in 1 .. b : NodeBytes(n)[1 + a + i] = EncodeU128(n.hi)[i]
  BY <1>3, NodeLayout
<1>8. PICK e \in Nat : e = End(k)
  BY <1>5
<1>9. arena[e + 1] = n.var
  BY <1>6, <1>7, <1>8
<1>10. ASSUME NEW i \in 1 .. a PROVE arena[e + 1 + i] = EncodeU128(n.lo)[i]
  <2>1. 1 + i \in 1 .. NodeSize(n) /\ e + (1 + i) = e + 1 + i
    BY <1>7
  <2> QED
    BY <1>6, <1>7, <1>8, <2>1
<1>11. ASSUME NEW i \in 1 .. b PROVE arena[e + 1 + a + i] = EncodeU128(n.hi)[i]
  <2>1. NodeSize(n) = 1 + a + b
    BY <1>7
  <2>2. 1 + a + i \in 1 .. NodeSize(n) /\ e + (1 + a + i) = e + 1 + a + i
    BY <2>1
  <2>3. arena[e + (1 + a + i)] = NodeBytes(n)[1 + a + i]
    BY <1>6, <1>8, <2>2
  <2> QED
    BY <1>7, <2>2, <2>3
<1> QED
  BY <1>3, <1>5, <1>6, <1>7, <1>8, <1>9, <1>10, <1>11

LEMMA LebInit == Init => LebInv
<1> SUFFICES ASSUME Init PROVE LebInv
  OBVIOUS
<1>1. /\ written = <<>> /\ ends = <<>> /\ arena = <<>> /\ bytes = <<>> /\ found = <<>>
      /\ pos = 0 /\ field = "var" /\ weight = 1 /\ pc = "write"
      /\ node = NoNode
  BY DEF Init
<1>2. End(0) = 0
  BY DEF End
<1>3. ArenaInv
  BY <1>1, <1>2 DEF ArenaInv
<1>4. node \in [at : Nat, var : Nat, lo : Nat, hi : Nat]
  BY <1>1 DEF NoNode
<1>5. ScanInv
  BY <1>1, <1>2, <1>4 DEF ScanInv
<1> QED
  BY <1>1, <1>3, <1>5 DEF LebInv

\* A turn leaves the arena as it is.
LEMMA ArenaKept ==
  ASSUME ArenaInv, UNCHANGED arenaVars
  PROVE  ArenaInv' /\ \A k : End(k)' = End(k)
<1>1. written' = written /\ ends' = ends /\ arena' = arena
  BY DEF arenaVars
<1>2. \A k : End(k)' = End(k)
  BY <1>1 DEF End
<1> QED
  BY <1>1, <1>2 DEF ArenaInv

\* A node written comes after the others.
LEMMA WriteArena ==
  ASSUME ArenaInv, NEW n \in Nodes, Write(n)
  PROVE  ArenaInv' /\ End(0)' = 0
<1>1. PICK w, e, a, l, b :
        /\ w = written /\ e = ends /\ a = arena /\ l = Len(written)
        /\ b = NodeBytes(n)
  OBVIOUS
<1>2. /\ w \in Seq(Nodes) /\ e \in Seq(Nat) /\ Len(e) = l /\ a \in Seq(Nat)
      /\ l = Len(w) /\ l \in Nat
  BY <1>1 DEF ArenaInv
<1>3. /\ b \in Seq(Nat) /\ Len(b) = NodeSize(n) /\ NodeSize(n) \in Nat \ {0}
  <2>1. n \in Fields
    BY LebAssumption
  <2>2. PICK x \in Nat \ {0}, y \in Nat \ {0} : NodeSize(n) = 1 + x + y
    BY <2>1, NodeLayout
  <2>3. b \in Seq(Nat) /\ Len(b) = NodeSize(n)
    BY <1>1, <2>1, NodeLayout
  <2> QED
    BY <2>2, <2>3
<1>4. /\ written' = Append(w, n) /\ arena' = a \o b
      /\ ends' = Append(e, Len(arena'))
  BY <1>1 DEF Write
<1>5. /\ arena' \in Seq(Nat) /\ Len(arena') = Len(a) + NodeSize(n)
      /\ \A i \in 1 .. Len(a) : arena'[i] = a[i]
      /\ \A i \in 1 .. NodeSize(n) : arena'[Len(a) + i] = b[i]
  <2>1. /\ a \o b \in Seq(Nat) /\ Len(a \o b) = Len(a) + Len(b)
        /\ \A i \in 1 .. Len(a) : (a \o b)[i] = a[i]
        /\ \A i \in 1 .. Len(b) : (a \o b)[Len(a) + i] = b[i]
    <3>1. a \in Seq(Nat) /\ b \in Seq(Nat)
      BY <1>2, <1>3
    <3> QED
      BY <3>1
  <2> QED
    BY <1>3, <1>4, <2>1
<1>6. /\ written' \in Seq(Nodes) /\ Len(written') = l + 1
      /\ \A k \in 1 .. l : written'[k] = w[k]
      /\ written'[l + 1] = n
  BY <1>2, <1>4
<1>7. /\ ends' \in Seq(Nat) /\ Len(ends') = l + 1
      /\ \A k \in 1 .. l : ends'[k] = e[k]
      /\ ends'[l + 1] = Len(arena')
  <2>1. Len(arena') \in Nat
    BY <1>5
  <2> QED
    BY <1>2, <1>4, <2>1
<1>8. /\ \A k \in 0 .. l : End(k)' = End(k) /\ End(k) \in Nat
      /\ End(l + 1)' = Len(arena') /\ End(0) = 0
  BY <1>1, <1>2, <1>7 DEF End
<1>9. /\ Len(a) = End(l)
      /\ \A k \in 1 .. l :
           /\ End(k) = End(k - 1) + NodeSize(w[k])
           /\ \A i \in 1 .. NodeSize(w[k]) : a[End(k - 1) + i] = NodeBytes(w[k])[i]
      /\ \A j, k \in 0 .. l : j < k => End(j) < End(k)
  BY <1>1 DEF ArenaInv
<1>10. ASSUME NEW k \in 1 .. Len(written')
       PROVE  /\ End(k)' = End(k - 1)' + NodeSize(written'[k])
              /\ \A i \in 1 .. NodeSize(written'[k]) :
                   arena'[End(k - 1)' + i] = NodeBytes(written'[k])[i]
  <2>1. CASE k \in 1 .. l
    <3>1. k - 1 \in 0 .. l /\ k \in 0 .. l /\ written'[k] = w[k]
      BY <1>2, <1>6, <2>1
    <3>2. PICK x \in Nat, y \in Nat, z \in Nat :
            /\ x = End(k - 1) /\ y = End(k) /\ z = End(l)
            /\ End(k - 1)' = x /\ End(k)' = y /\ y <= z
      <4>1. k = l \/ End(k) < End(l)
        BY <1>2, <1>9, <2>1
      <4>2. /\ End(k - 1)' = End(k - 1) /\ End(k - 1) \in Nat
            /\ End(k)' = End(k) /\ End(k) \in Nat
        BY <1>8, <3>1
      <4>3. End(l) \in Nat
        BY <1>2, <1>8
      <4>4. End(k) <= End(l)
        BY <4>1, <4>2, <4>3
      <4> QED
        BY <4>2, <4>3, <4>4
    <3>3. y = x + NodeSize(w[k])
      BY <1>9, <2>1, <3>2
    <3>4. PICK m \in Fields : m = w[k]
      BY <1>2, <2>1, LebAssumption
    <3>5. NodeSize(w[k]) \in Nat
      <4>1. NodeSize(m) = 1 + LebLen(m.lo) + LebLen(m.hi)
        BY NodeLayout
      <4>2. LebLen(m.lo) \in Nat /\ LebLen(m.hi) \in Nat
        BY NodeLayout
      <4> QED
        BY <3>4, <4>1, <4>2
    <3>6. ASSUME NEW i \in 1 .. NodeSize(w[k])
          PROVE  arena'[x + i] = NodeBytes(w[k])[i]
      <4>1. x + i \in 1 .. Len(a)
        BY <1>9, <3>2, <3>3, <3>5
      <4> QED
        BY <1>5, <1>9, <2>1, <3>2, <4>1
    <3> QED
      BY <3>1, <3>2, <3>3, <3>6
  <2>2. CASE k = l + 1
    <3>1. /\ k - 1 = l /\ l \in 0 .. l /\ End(k - 1)' = End(l) /\ written'[k] = n
          /\ End(k)' = Len(arena')
      BY <1>2, <1>6, <1>8, <2>2
    <3>2. End(k)' = End(k - 1)' + NodeSize(n)
      BY <1>5, <1>9, <3>1
    <3>3. \A i \in 1 .. NodeSize(n) : arena'[End(k - 1)' + i] = NodeBytes(n)[i]
      BY <1>1, <1>5, <1>9, <3>1
    <3> QED
      BY <3>1, <3>2, <3>3
  <2>3. k \in 1 .. l + 1
    BY <1>6
  <2> QED
    BY <1>2, <2>1, <2>2, <2>3
<1>11. ASSUME NEW j \in 0 .. Len(written'), NEW k \in 0 .. Len(written'), j < k
       PROVE  End(j)' < End(k)'
  <2>1. j \in 0 .. l
    BY <1>2, <1>6, <1>11
  <2>2. CASE k \in 0 .. l
    BY <1>8, <1>9, <1>11, <2>1, <2>2
  <2>3. CASE k = l + 1
    <3>1. j = l \/ End(j) < End(l)
      <4>1. l \in 0 .. l /\ (j = l \/ j < l)
        BY <1>2, <2>1
      <4> QED
        BY <1>9, <2>1, <4>1
    <3>2. End(j) \in Nat /\ End(l) \in Nat /\ End(j) <= End(l)
      BY <1>2, <1>8, <2>1, <3>1
    <3>3. End(l) < Len(arena')
      BY <1>3, <1>5, <1>9, <3>2
    <3> QED
      BY <1>5, <1>8, <2>1, <2>3, <3>2, <3>3
  <2> QED
    BY <1>2, <1>6, <2>2, <2>3
<1>12. Len(arena') = End(Len(written))'
  BY <1>6, <1>8 DEF End
<1>13. /\ written' \in Seq(Nodes) /\ ends' \in Seq(Nat) /\ Len(ends') = Len(written')
       /\ arena' \in Seq(Nat)
  BY <1>5, <1>6, <1>7
<1> QED
  BY <1>2, <1>8, <1>10, <1>11, <1>12, <1>13 DEF ArenaInv

LEMMA WriteInv ==
  ASSUME LebInv, NEW n \in Nodes, Write(n)
  PROVE  LebInv'
<1>1. /\ pc = "write" /\ bytes = <<>> /\ found = <<>> /\ field = "var"
      /\ pos \in 0 .. Len(bytes) /\ Len(bytes) = 0
      /\ weight = 1 /\ node \in [at : Nat, var : Nat, lo : Nat, hi : Nat]
  BY DEF LebInv, ScanInv, Write
<1>2. /\ bytes' = bytes /\ pos' = pos /\ field' = field /\ node' = node
      /\ weight' = weight /\ found' = found /\ pc' = pc
  BY DEF Write
<1>3. ArenaInv' /\ End(0)' = 0
  BY WriteArena DEF LebInv
<1>4. /\ pos' = 0 /\ Len(found') = 0 /\ DOMAIN found' = {} /\ DOMAIN bytes' = {}
      /\ bytes' \in Seq(Nat)
  BY <1>1, <1>2
<1>5. ScanInv'
  BY <1>1, <1>2, <1>3, <1>4 DEF ScanInv
<1>6. Len(arena') \in Nat /\ Len(written') \in Nat
  BY <1>3 DEF ArenaInv
<1> QED
  BY <1>1, <1>2, <1>3, <1>4, <1>5, <1>6 DEF LebInv

LEMMA ScanStart ==
  ASSUME LebInv, NEW len \in 0 .. Len(arena), Scan(len)
  PROVE  LebInv'
<1>1. /\ pc = "write" /\ bytes = <<>> /\ found = <<>> /\ field = "var"
      /\ pos \in 0 .. Len(bytes) /\ Len(bytes) = 0
      /\ weight = 1 /\ node \in [at : Nat, var : Nat, lo : Nat, hi : Nat]
  BY DEF LebInv, ScanInv, Scan
<1>2. /\ pos' = pos /\ field' = field /\ node' = node /\ weight' = weight
      /\ found' = found /\ pc' = "read" /\ bytes' = SubSeq(arena, 1, len)
      /\ UNCHANGED arenaVars
  BY DEF Scan
<1>3. ArenaInv' /\ arena' = arena /\ written' = written
  BY <1>2, ArenaKept DEF LebInv, arenaVars
<1>4. /\ bytes' \in Seq(Nat) /\ Len(bytes') = len
      /\ \A i \in 1 .. len : bytes'[i] = arena[i]
  <2>1. PICK a \in Seq(Nat) : a = arena
    BY DEF LebInv, ArenaInv
  <2>2. len \in 0 .. Len(a)
    BY <2>1
  <2>3. \A i \in 1 .. len : i \in 1 .. Len(a)
    BY <2>1, <2>2
  <2>4. /\ SubSeq(a, 1, len) \in Seq(Nat) /\ Len(SubSeq(a, 1, len)) = len
        /\ \A i \in 1 .. len : SubSeq(a, 1, len)[i] = a[i]
    BY <2>2, <2>3
  <2> QED
    BY <1>2, <2>1, <2>4
<1>5. /\ pos' = 0 /\ Len(found') = 0 /\ DOMAIN found' = {} /\ End(0)' = 0
      /\ DOMAIN bytes' = 1 .. len
  BY <1>1, <1>2, <1>4 DEF End
<1>6. ScanInv'
  BY <1>1, <1>2, <1>5 DEF ScanInv
<1>7. Len(arena') \in Nat /\ Len(written') \in Nat /\ len <= Len(arena') /\ 0 \in 0 .. len
  BY <1>3 DEF ArenaInv
<1> QED
  BY <1>1, <1>2, <1>3, <1>4, <1>5, <1>6, <1>7 DEF LebInv

\* What a turn that reads a byte and leaves found alone has to show.
LEMMA ReadInv ==
  ASSUME LebInv, Reading, UNCHANGED <<arenaVars, bytes, found>>,
         pos' = pos + 1, pc' = "read", ScanInv'
  PROVE  LebInv'
<1>1. /\ ArenaInv' /\ \A k : End(k)' = End(k)
      /\ arena' = arena /\ written' = written
  BY ArenaKept DEF LebInv, arenaVars
<1>2. pos' \in 0 .. Len(bytes')
  BY ByteRead
<1> QED
  BY <1>1, <1>2 DEF LebInv

LEMMA ReadVarInv ==
  ASSUME LebInv, ReadVar
  PROVE  LebInv'
<1>1. /\ Reading /\ field = "var" /\ pos' = pos + 1 /\ field' = "lo"
      /\ node' = [NoNode EXCEPT !.at = pos, !.var = bytes[pos + 1]]
      /\ weight' = weight /\ pc' = "read" /\ UNCHANGED <<arenaVars, bytes, found>>
  BY DEF ReadVar, Reading
<1>2. /\ arena' = arena /\ written' = written /\ \A k : End(k)' = End(k)
  BY <1>1, ArenaKept DEF LebInv, arenaVars
<1>3. PICK k, n : k \in Nat /\ k = Len(found) /\ n = written[k + 1]
  <2>1. Len(found) \in Nat
    BY DEF LebInv
  <2> QED
    BY <2>1
<1>4. weight = 1 /\ pos = End(k)
  BY <1>1, <1>3 DEF LebInv, ScanInv
<1>5. /\ pos \in Nat /\ pos < Len(arena)
      /\ bytes[pos + 1] = arena[pos + 1] /\ bytes[pos + 1] \in Nat
  BY <1>1, ByteRead
<1>6. k < Len(written)
  <2>1. k <= Len(written) /\ Len(written) \in Nat /\ Len(arena) = End(Len(written))
    BY <1>3 DEF LebInv, ArenaInv
  <2>2. k # Len(written)
    BY <1>4, <1>5, <2>1
  <2>3. k \in Nat
    BY <1>3
  <2> QED
    BY <2>1, <2>2, <2>3
<1>7. ArenaInv
  BY DEF LebInv
<1>8. /\ n \in Fields /\ End(k) \in Nat /\ End(k + 1) \in Nat
      /\ End(k + 1) = End(k) + (1 + LebLen(n.lo) + LebLen(n.hi))
      /\ arena[End(k) + 1] = n.var
      /\ \A i \in 1 .. LebLen(n.lo) : arena[End(k) + 1 + i] = EncodeU128(n.lo)[i]
  BY <1>3, <1>6, <1>7, NodeAt
<1>9. /\ n.lo \in Nat /\ n.lo \in 0 .. Word - 1
      /\ LebLen(n.lo) \in Nat /\ LebLen(n.hi) \in Nat
  <2>1. /\ n.lo \in Nat /\ n.lo < Word /\ LebLen(n.lo) \in Nat \ {0}
        /\ LebLen(n.hi) \in Nat \ {0}
    BY <1>8, NodeLayout
  <2> QED
    BY <2>1, LebAssumption
<1>10. /\ node' = [at |-> pos, var |-> n.var, lo |-> 0, hi |-> 0] /\ n.var \in Nat
  BY <1>1, <1>4, <1>5, <1>8 DEF NoNode
<1>11. node'.at = pos /\ node'.var = n.var /\ node'.lo = 0 /\ node'.hi = 0
  <2>1. PICK r : r = node'
    OBVIOUS
  <2>2. r = [at |-> pos, var |-> n.var, lo |-> 0, hi |-> 0]
    BY <1>10, <2>1
  <2>3. r.at = pos /\ r.var = n.var /\ r.lo = 0 /\ r.hi = 0
    BY <2>2
  <2> QED
    BY <2>1, <2>3
<1>12. Numbered(n.lo, node.lo, n.lo)'
  <2>1. node'.lo = 0 /\ weight' = 1 /\ 0 + (1 * n.lo) = n.lo
    <3>1. \A x \in Nat : 0 + (1 * x) = x
      OBVIOUS
    <3> QED
      BY <1>1, <1>4, <1>9, <1>11, <3>1
  <2>2. \A i \in 1 .. LebLen(n.lo) : arena'[pos' + i] = EncodeU128(n.lo)[i]
    BY <1>1, <1>2, <1>4, <1>8
  <2> QED
    BY <2>1, <2>2 DEF Numbered
<1>13. pos' + LebLen(n.lo) + LebLen(n.hi) = End(k + 1)
  BY <1>1, <1>4, <1>8, <1>9
<1>14. /\ Len(found') = k /\ n = written'[k + 1] /\ k < Len(written')
       /\ node' \in [at : Nat, var : Nat, lo : Nat, hi : Nat]
       /\ node'.at = End(k) /\ node'.at < pos' /\ node'.var = n.var /\ node'.hi = 0
       /\ weight' \in Nat \ {0}
  <2>1. /\ Len(found') = k /\ n = written'[k + 1] /\ k < Len(written')
        /\ weight' \in Nat \ {0}
    BY <1>1, <1>2, <1>3, <1>4, <1>6
  <2>2. node' \in [at : Nat, var : Nat, lo : Nat, hi : Nat]
    BY <1>5, <1>10
  <2>3. node'.at = End(k) /\ node'.at < pos' /\ node'.var = n.var /\ node'.hi = 0
    BY <1>1, <1>4, <1>5, <1>11
  <2> QED
    BY <2>1, <2>2, <2>3
<1>15. ScanInv'
  <2>1. \E left \in 0 .. Word - 1 :
          /\ Numbered(n.lo, node.lo, left)'
          /\ pos' + LebLen(left) + LebLen(n.hi) = End(k + 1)'
    BY <1>2, <1>9, <1>12, <1>13
  <2> QED
    BY <1>1, <1>2, <1>14, <2>1 DEF ScanInv
<1> QED
  BY <1>1, <1>15, ReadInv

\* Between two nodes the scan reads a var; within one, a number.
LEMMA InNode ==
  ASSUME LebInv, Reading, field \in {"lo", "hi"},
         NEW k, k = Len(found), NEW n, n = written[k + 1]
  PROVE  /\ k \in Nat /\ k < Len(written) /\ n \in Fields
         /\ n.var \in Nat /\ n.lo \in 0 .. Word - 1 /\ n.hi \in 0 .. Word - 1
         /\ LebLen(n.lo) \in Nat /\ LebLen(n.hi) \in Nat
         /\ weight \in Nat \ {0} /\ pos \in Nat
         /\ node \in [at : Nat, var : Nat, lo : Nat, hi : Nat]
         /\ node.at = End(k) /\ node.at < pos /\ node.var = n.var
<1>1. /\ k < Len(written) /\ weight \in Nat \ {0}
      /\ node \in [at : Nat, var : Nat, lo : Nat, hi : Nat]
      /\ node.at = End(k) /\ node.at < pos /\ node.var = n.var
  BY DEF LebInv, ScanInv
<1>2. k \in Nat
  BY DEF LebInv
<1>3. ArenaInv
  BY DEF LebInv
<1>4. n \in Fields
  BY <1>1, <1>2, <1>3, NodeAt
<1>5. /\ n.var \in Nat /\ n.lo \in Nat /\ n.lo < Word /\ n.hi \in Nat /\ n.hi < Word
      /\ LebLen(n.lo) \in Nat \ {0} /\ LebLen(n.hi) \in Nat \ {0}
  BY <1>4, NodeLayout
<1>6. n.lo \in 0 .. Word - 1 /\ n.hi \in 0 .. Word - 1
  BY <1>5, LebAssumption
<1>7. pos \in Nat
  BY ByteRead
<1> QED
  BY <1>1, <1>2, <1>4, <1>5, <1>6, <1>7

LEMMA ReadGroupInv ==
  ASSUME LebInv, ReadGroup
  PROVE  LebInv'
<1>1. /\ Reading /\ field \in {"lo", "hi"} /\ bytes[pos + 1] >= Radix
      /\ node' = GroupAdded(bytes[pos + 1]) /\ weight' = weight * Radix
      /\ pc' = (IF Full(weight') THEN "overflow" ELSE "read") /\ pos' = pos + 1
      /\ UNCHANGED <<arenaVars, bytes, field, found>>
  BY DEF ReadGroup
<1>2. /\ arena' = arena /\ written' = written /\ \A k : End(k)' = End(k)
  BY <1>1, ArenaKept DEF LebInv, arenaVars
<1>3. PICK k, n, g : /\ k = Len(found) /\ n = written[k + 1]
                     /\ g = ((bytes[pos + 1] % Radix) * weight) % Word
  OBVIOUS
<1>4. /\ k \in Nat /\ k < Len(written)
      /\ n.lo \in 0 .. Word - 1 /\ n.hi \in 0 .. Word - 1
      /\ LebLen(n.lo) \in Nat /\ LebLen(n.hi) \in Nat /\ pos \in Nat
      /\ node \in [at : Nat, var : Nat, lo : Nat, hi : Nat]
      /\ node.at = End(k) /\ node.at < pos /\ node.var = n.var
  BY <1>1, <1>3, InNode
<1>5. PICK at \in Nat, var \in Nat, lo \in Nat, hi \in Nat :
        /\ node = [at |-> at, var |-> var, lo |-> lo, hi |-> hi]
        /\ node.at = at /\ node.var = var /\ node.lo = lo /\ node.hi = hi
  BY <1>4
<1>6. node' = [node EXCEPT ![field] = @ + g]
  BY <1>1, <1>3 DEF GroupAdded
<1>7. CASE field = "lo"
  <2>1. /\ hi = 0
        /\ \E left \in 0 .. Word - 1 : /\ Numbered(n.lo, lo, left)
                                      /\ pos + LebLen(left) + LebLen(n.hi) = End(k + 1)
    BY <1>3, <1>5, <1>7 DEF LebInv, ScanInv
  <2>2. PICK left \in 0 .. Word - 1 : /\ Numbered(n.lo, lo, left)
                                      /\ pos + LebLen(left) + LebLen(n.hi) = End(k + 1)
    BY <2>1
  <2>3. PICK next : next = lo + g
    OBVIOUS
  <2>4. /\ next \in Nat /\ weight' \in Nat \ {0} /\ ~ Full(weight')
        /\ \E rest \in 0 .. Word - 1 :
             Numbered(n.lo, next, rest)' /\ LebLen(left) = 1 + LebLen(rest)
    <3>1. next = lo + (((bytes[pos + 1] % Radix) * weight) % Word)
      BY <1>3, <2>3
    <3>2. PICK code \in 0 .. Word - 1 : code = n.lo
      BY <1>4
    <3>3. Numbered(code, lo, left)
      BY <2>2, <3>2
    <3>4. /\ next \in Nat /\ weight' \in Nat \ {0} /\ ~ Full(weight')
          /\ \E rest \in 0 .. Word - 1 :
               Numbered(code, next, rest)' /\ LebLen(left) = 1 + LebLen(rest)
      BY <1>1, <1>2, <3>1, <3>3, NumberGoesOn
    <3> QED
      BY <3>2, <3>4
  <2>5. PICK rest \in 0 .. Word - 1 :
          Numbered(n.lo, next, rest)' /\ LebLen(left) = 1 + LebLen(rest)
    BY <2>4
  <2>6. /\ node' = [at |-> at, var |-> var, lo |-> next, hi |-> hi]
        /\ node'.at = at /\ node'.var = var /\ node'.lo = next /\ node'.hi = 0
    <3>1. PICK r : r = node'
      OBVIOUS
    <3>2. r = [at |-> at, var |-> var, lo |-> next, hi |-> hi]
      BY <1>5, <1>6, <1>7, <2>3, <3>1
    <3>3. r.at = at /\ r.var = var /\ r.lo = next /\ r.hi = hi
      BY <3>2
    <3> QED
      BY <2>1, <3>1, <3>2, <3>3
  <2>7. Numbered(n.lo, node.lo, rest)'
    BY <2>5, <2>6 DEF Numbered
  <2>8. pos' + LebLen(rest) + LebLen(n.hi) = End(k + 1)'
    <3>1. LebLen(rest) \in Nat
      BY EncodeType, LebAssumption
    <3> QED
      BY <1>1, <1>2, <1>4, <2>2, <2>5, <3>1
  <2>9. /\ Len(found') = k /\ n = written'[k + 1] /\ k < Len(written')
        /\ field' = "lo" /\ pc' = "read"
        /\ node' \in [at : Nat, var : Nat, lo : Nat, hi : Nat]
        /\ node'.at = End(k)' /\ node'.at < pos' /\ node'.var = n.var
    <3>1. /\ Len(found') = k /\ n = written'[k + 1] /\ k < Len(written')
          /\ field' = "lo" /\ pc' = "read"
      BY <1>1, <1>2, <1>3, <1>4, <1>7, <2>4
    <3>2. node' \in [at : Nat, var : Nat, lo : Nat, hi : Nat]
      BY <2>4, <2>6
    <3>3. at = End(k) /\ at < pos /\ var = n.var
      BY <1>4, <1>5
    <3>4. at < pos'
      BY <1>1, <1>4, <3>3
    <3>5. node'.at = End(k)' /\ node'.at < pos' /\ node'.var = n.var
      BY <1>2, <2>6, <3>3, <3>4
    <3> QED
      BY <3>1, <3>2, <3>5
  <2>10. ScanInv'
    BY <2>4, <2>6, <2>7, <2>8, <2>9 DEF ScanInv
  <2> QED
    BY <1>1, <2>9, <2>10, ReadInv
<1>8. CASE field = "hi"
  <2>1. /\ lo = n.lo
        /\ \E left \in 0 .. Word - 1 : /\ Numbered(n.hi, hi, left)
                                      /\ pos + LebLen(left) = End(k + 1)
    BY <1>3, <1>5, <1>8 DEF LebInv, ScanInv
  <2>2. PICK left \in 0 .. Word - 1 : /\ Numbered(n.hi, hi, left)
                                      /\ pos + LebLen(left) = End(k + 1)
    BY <2>1
  <2>3. PICK next : next = hi + g
    OBVIOUS
  <2>4. /\ next \in Nat /\ weight' \in Nat \ {0} /\ ~ Full(weight')
        /\ \E rest \in 0 .. Word - 1 :
             Numbered(n.hi, next, rest)' /\ LebLen(left) = 1 + LebLen(rest)
    <3>1. next = hi + (((bytes[pos + 1] % Radix) * weight) % Word)
      BY <1>3, <2>3
    <3>2. PICK code \in 0 .. Word - 1 : code = n.hi
      BY <1>4
    <3>3. Numbered(code, hi, left)
      BY <2>2, <3>2
    <3>4. /\ next \in Nat /\ weight' \in Nat \ {0} /\ ~ Full(weight')
          /\ \E rest \in 0 .. Word - 1 :
               Numbered(code, next, rest)' /\ LebLen(left) = 1 + LebLen(rest)
      BY <1>1, <1>2, <3>1, <3>3, NumberGoesOn
    <3> QED
      BY <3>2, <3>4
  <2>5. PICK rest \in 0 .. Word - 1 :
          Numbered(n.hi, next, rest)' /\ LebLen(left) = 1 + LebLen(rest)
    BY <2>4
  <2>6. /\ node' = [at |-> at, var |-> var, lo |-> lo, hi |-> next]
        /\ node'.at = at /\ node'.var = var /\ node'.lo = lo /\ node'.hi = next
    <3>1. PICK r : r = node'
      OBVIOUS
    <3>2. r = [at |-> at, var |-> var, lo |-> lo, hi |-> next]
      BY <1>5, <1>6, <1>8, <2>3, <3>1
    <3>3. r.at = at /\ r.var = var /\ r.lo = lo /\ r.hi = next
      BY <3>2
    <3> QED
      BY <3>1, <3>2, <3>3
  <2>7. Numbered(n.hi, node.hi, rest)'
    BY <2>5, <2>6 DEF Numbered
  <2>8. pos' + LebLen(rest) = End(k + 1)'
    <3>1. LebLen(rest) \in Nat
      BY EncodeType, LebAssumption
    <3> QED
      BY <1>1, <1>2, <1>4, <2>2, <2>5, <3>1
  <2>9. /\ Len(found') = k /\ n = written'[k + 1] /\ k < Len(written')
        /\ field' = "hi" /\ pc' = "read"
        /\ node' \in [at : Nat, var : Nat, lo : Nat, hi : Nat]
        /\ node'.at = End(k)' /\ node'.at < pos' /\ node'.var = n.var
    <3>1. /\ Len(found') = k /\ n = written'[k + 1] /\ k < Len(written')
          /\ field' = "hi" /\ pc' = "read"
      BY <1>1, <1>2, <1>3, <1>4, <1>8, <2>4
    <3>2. node' \in [at : Nat, var : Nat, lo : Nat, hi : Nat]
      BY <2>4, <2>6
    <3>3. at = End(k) /\ at < pos /\ var = n.var
      BY <1>4, <1>5
    <3>4. at < pos'
      BY <1>1, <1>4, <3>3
    <3>5. node'.at = End(k)' /\ node'.at < pos' /\ node'.var = n.var
      BY <1>2, <2>6, <3>3, <3>4
    <3> QED
      BY <3>1, <3>2, <3>5
  <2>10. ScanInv'
    BY <2>1, <2>4, <2>6, <2>7, <2>8, <2>9 DEF ScanInv
  <2> QED
    BY <1>1, <2>9, <2>10, ReadInv
<1> QED
  BY <1>1, <1>7, <1>8

LEMMA ReadLastInv ==
  ASSUME LebInv, ReadLast
  PROVE  LebInv'
<1>1. /\ Reading /\ field \in {"lo", "hi"} /\ bytes[pos + 1] < Radix
      /\ node' = GroupAdded(bytes[pos + 1]) /\ weight' = 1 /\ pos' = pos + 1
      /\ field' = (IF field = "lo" THEN "hi" ELSE "var")
      /\ found' = (IF field = "hi" THEN Append(found, node') ELSE found)
      /\ UNCHANGED <<arenaVars, bytes, pc>>
  BY DEF ReadLast
<1>2. /\ arena' = arena /\ written' = written /\ \A k : End(k)' = End(k)
      /\ ArenaInv /\ ArenaInv'
  BY <1>1, ArenaKept DEF LebInv, arenaVars
<1>3. PICK k, n, g : /\ k = Len(found) /\ n = written[k + 1]
                     /\ g = ((bytes[pos + 1] % Radix) * weight) % Word
  OBVIOUS
<1>4. /\ k \in Nat /\ k < Len(written) /\ n.var \in Nat
      /\ n.lo \in 0 .. Word - 1 /\ n.hi \in 0 .. Word - 1
      /\ LebLen(n.lo) \in Nat /\ LebLen(n.hi) \in Nat /\ pos \in Nat
      /\ node \in [at : Nat, var : Nat, lo : Nat, hi : Nat]
      /\ node.at = End(k) /\ node.at < pos /\ node.var = n.var
  BY <1>1, <1>3, InNode
<1>5. PICK at \in Nat, var \in Nat, lo \in Nat, hi \in Nat :
        /\ node = [at |-> at, var |-> var, lo |-> lo, hi |-> hi]
        /\ node.at = at /\ node.var = var /\ node.lo = lo /\ node.hi = hi
  BY <1>4
<1>6. node' = [node EXCEPT ![field] = @ + g]
  BY <1>1, <1>3 DEF GroupAdded
<1>7. /\ End(k) \in Nat /\ End(k + 1) \in Nat
      /\ End(k + 1) = End(k) + (1 + LebLen(n.lo) + LebLen(n.hi))
      /\ \A i \in 1 .. LebLen(n.hi) :
           arena[End(k) + 1 + LebLen(n.lo) + i] = EncodeU128(n.hi)[i]
  <2>1. ArenaInv /\ k \in Nat /\ k < Len(written) /\ n = written[k + 1]
    BY <1>2, <1>3, <1>4
  <2>2. /\ End(k) \in Nat /\ End(k + 1) \in Nat
        /\ End(k + 1) = End(k) + (1 + LebLen(n.lo) + LebLen(n.hi))
    BY <2>1, NodeAt
  <2>3. \A i \in 1 .. LebLen(n.hi) :
          arena[End(k) + 1 + LebLen(n.lo) + i] = EncodeU128(n.hi)[i]
    BY <2>1, NodeAt
  <2> QED
    BY <2>2, <2>3
<1>8. pc' = "read"
  BY <1>1 DEF Reading
<1>9. ASSUME NEW code \in 0 .. Word - 1, NEW read \in Nat,
             NEW left \in 0 .. Word - 1, Numbered(code, read, left)
      PROVE  read + g = code /\ LebLen(left) = 1
  BY <1>1, <1>3, <1>9, NumberEnds
<1>10. CASE field = "lo"
  <2>1. /\ hi = 0
        /\ \E left \in 0 .. Word - 1 : /\ Numbered(n.lo, lo, left)
                                      /\ pos + LebLen(left) + LebLen(n.hi) = End(k + 1)
    BY <1>3, <1>5, <1>10 DEF LebInv, ScanInv
  <2>2. PICK left \in 0 .. Word - 1 : /\ Numbered(n.lo, lo, left)
                                      /\ pos + LebLen(left) + LebLen(n.hi) = End(k + 1)
    BY <2>1
  <2>3. lo + g = n.lo /\ LebLen(left) = 1
    BY <1>4, <1>9, <2>2
  <2>4. /\ node' = [at |-> at, var |-> var, lo |-> n.lo, hi |-> 0]
        /\ node'.at = at /\ node'.var = var /\ node'.lo = n.lo /\ node'.hi = 0
    <3>1. PICK r : r = node'
      OBVIOUS
    <3>2. r = [at |-> at, var |-> var, lo |-> n.lo, hi |-> 0]
      BY <1>5, <1>6, <1>10, <2>1, <2>3, <3>1
    <3>3. r.at = at /\ r.var = var /\ r.lo = n.lo /\ r.hi = 0
      BY <3>2
    <3> QED
      BY <3>1, <3>2, <3>3
  <2>5. pos' = End(k) + 1 + LebLen(n.lo)
    <3>1. PICK p \in Nat, e \in Nat, l \in Nat, h \in Nat :
            p = pos /\ e = End(k) /\ l = LebLen(n.lo) /\ h = LebLen(n.hi)
      BY <1>4, <1>7
    <3>2. p + 1 + h = e + (1 + l + h)
      BY <1>7, <2>2, <2>3, <3>1
    <3>3. p + 1 = e + 1 + l
      BY <3>2
    <3> QED
      BY <1>1, <3>1, <3>3
  <2>6. Numbered(n.hi, node.hi, n.hi)'
    <3>1. \A x \in Nat : 0 + (1 * x) = x
      OBVIOUS
    <3>2. node'.hi + (weight' * n.hi) = n.hi
      BY <1>1, <1>4, <2>4, <3>1
    <3>3. \A i \in 1 .. LebLen(n.hi) : arena'[pos' + i] = EncodeU128(n.hi)[i]
      BY <1>2, <1>7, <2>5
    <3> QED
      BY <1>1, <3>2, <3>3 DEF Numbered
  <2>7. pos' + LebLen(n.hi) = End(k + 1)'
    <3>1. \A e, l, h \in Nat : (e + 1 + l) + h = e + (1 + l + h)
      OBVIOUS
    <3>2. (End(k) + 1 + LebLen(n.lo)) + LebLen(n.hi) = End(k + 1)
      BY <1>4, <1>7, <3>1
    <3> QED
      BY <1>2, <2>5, <3>2
  <2>8. /\ Len(found') = k /\ n = written'[k + 1] /\ k < Len(written')
        /\ field' = "hi" /\ found' = found /\ weight' \in Nat \ {0}
        /\ node'.at = End(k)' /\ node'.at < pos' /\ node'.var = n.var
    BY <1>1, <1>2, <1>3, <1>4, <1>5, <1>10, <2>4
  <2>9. node' \in [at : Nat, var : Nat, lo : Nat, hi : Nat]
    <3>1. n.lo \in Nat
      BY <1>4
    <3> QED
      BY <2>4, <3>1
  <2>10. \E rest \in 0 .. Word - 1 :
           Numbered(n.hi, node.hi, rest)' /\ pos' + LebLen(rest) = End(k + 1)'
    BY <1>4, <2>6, <2>7
  <2>11. ScanInv'
    BY <2>4, <2>8, <2>9, <2>10 DEF ScanInv
  <2> QED
    BY <1>1, <1>8, <2>8, <2>11, ReadInv
<1>11. CASE field = "hi"
  <2>1. /\ lo = n.lo
        /\ \E left \in 0 .. Word - 1 : /\ Numbered(n.hi, hi, left)
                                      /\ pos + LebLen(left) = End(k + 1)
    BY <1>3, <1>5, <1>11 DEF LebInv, ScanInv
  <2>2. PICK left \in 0 .. Word - 1 : /\ Numbered(n.hi, hi, left)
                                      /\ pos + LebLen(left) = End(k + 1)
    BY <2>1
  <2>3. hi + g = n.hi /\ LebLen(left) = 1
    BY <1>4, <1>9, <2>2
  <2>4. PICK r \in [at : Nat, var : Nat, lo : Nat, hi : Nat] :
          /\ r = node' /\ r = [at |-> End(k), var |-> n.var, lo |-> n.lo, hi |-> n.hi]
    <3>1. node' = [at |-> at, var |-> var, lo |-> lo, hi |-> n.hi]
      BY <1>5, <1>6, <1>11, <2>3
    <3>2. n.hi \in Nat /\ at = End(k) /\ var = n.var
      BY <1>4, <1>5
    <3> QED
      BY <2>1, <3>1, <3>2
  <2>5. PICK f \in Seq([at : Nat, var : Nat, lo : Nat, hi : Nat]) :
          /\ f = found
          /\ \A j \in DOMAIN f : f[j] = [at |-> End(j - 1), var |-> written[j].var,
                                         lo |-> written[j].lo, hi |-> written[j].hi]
    BY DEF LebInv
  <2>6. /\ found' = Append(f, r) /\ Len(f) = k /\ DOMAIN f = 1 .. k
    BY <1>1, <1>3, <1>11, <2>4, <2>5
  <2>7. /\ found' \in Seq([at : Nat, var : Nat, lo : Nat, hi : Nat])
        /\ Len(found') = k + 1 /\ DOMAIN found' = 1 .. k + 1
        /\ \A j \in 1 .. k : found'[j] = f[j]
        /\ found'[k + 1] = r
    <3>1. /\ Append(f, r) \in Seq([at : Nat, var : Nat, lo : Nat, hi : Nat])
          /\ Len(Append(f, r)) = Len(f) + 1 /\ DOMAIN Append(f, r) = 1 .. Len(f) + 1
          /\ \A j \in 1 .. Len(f) : Append(f, r)[j] = f[j]
          /\ Append(f, r)[Len(f) + 1] = r
      BY AppendProperties
    <3> QED
      BY <2>6, <3>1
  <2>8. ASSUME NEW j \in DOMAIN found'
        PROVE  found'[j] = [at |-> End(j - 1)', var |-> written'[j].var,
                            lo |-> written'[j].lo, hi |-> written'[j].hi]
    <3>1. CASE j \in 1 .. k
      BY <1>2, <2>5, <2>6, <2>7, <3>1
    <3>2. CASE j = k + 1
      <4>1. j - 1 = k
        BY <1>4, <3>2
      <4>2. End(j - 1)' = End(k) /\ written'[j] = n
        BY <1>2, <1>3, <3>2, <4>1
      <4>3. found'[j] = [at |-> End(k), var |-> n.var, lo |-> n.lo, hi |-> n.hi]
        BY <2>4, <2>7, <3>2
      <4> QED
        BY <4>2, <4>3
    <3>3. j \in 1 .. k \/ j = k + 1
      <4>1. DOMAIN found' = 1 .. k + 1
        BY <2>7
      <4>2. j \in 1 .. k + 1
        BY <4>1, Zenon
      <4>3. \A x \in Nat : \A y \in 1 .. x + 1 : y \in 1 .. x \/ y = x + 1
        OBVIOUS
      <4> QED
        BY <1>4, <4>2, <4>3, Zenon
    <3> QED
      BY <3>1, <3>2, <3>3, Zenon
  <2>9. /\ pos' = End(Len(found))' /\ Len(found') <= Len(written')
        /\ field' = "var"
    <3>1. Len(written) \in Nat
      BY DEF LebInv, ArenaInv
    <3>2. pos' = End(k + 1)'
      <4>1. pos + 1 = End(k + 1)
        BY <2>2, <2>3
      <4> QED
        BY <1>1, <1>2, <4>1
    <3>3. k + 1 <= Len(written')
      <4>1. k \in Nat /\ k < Len(written) /\ written' = written
        BY <1>2, <1>4
      <4> QED
        BY <3>1, <4>1
    <3> QED
      BY <1>1, <1>11, <2>7, <3>2, <3>3
  <2>10. node' \in [at : Nat, var : Nat, lo : Nat, hi : Nat] /\ weight' = 1
    BY <1>1, <2>4
  <2>11. ScanInv'
    BY <2>9, <2>10 DEF ScanInv
  <2>12. pos' \in 0 .. Len(bytes')
    BY <1>1, ByteRead
  <2> QED
    BY <1>1, <1>2, <1>8, <2>7, <2>8, <2>9, <2>11, <2>12 DEF LebInv
<1> QED
  BY <1>1, <1>10, <1>11

LEMMA NoMoreInv ==
  ASSUME LebInv, NoMore
  PROVE  LebInv'
<1>1. /\ pc' = (IF field = "var" THEN "end" ELSE "truncated") /\ pos = Len(bytes)
      /\ UNCHANGED <<arenaVars, bytes, pos, field, node, weight, found>>
  BY DEF NoMore
<1>2. ArenaInv' /\ arena' = arena /\ written' = written /\ \A k : End(k)' = End(k)
  BY <1>1, ArenaKept DEF LebInv, arenaVars
<1>3. ScanInv'
  BY <1>1, <1>2 DEF LebInv, ScanInv, Numbered
<1> QED
  BY <1>1, <1>2, <1>3 DEF LebInv

LEMMA LebNext == LebInv /\ [Next]_vars => LebInv'
<1> SUFFICES ASSUME LebInv, [Next]_vars PROVE LebInv'
  OBVIOUS
<1>1. ASSUME NEW n \in Nodes, Write(n) PROVE LebInv'
  BY <1>1, WriteInv
<1>2. ASSUME NEW len \in 0 .. Len(arena), Scan(len) PROVE LebInv'
  BY <1>2, ScanStart
<1>3. CASE ReadVar
  BY <1>3, ReadVarInv
<1>4. CASE ReadGroup
  BY <1>4, ReadGroupInv
<1>5. CASE ReadLast
  BY <1>5, ReadLastInv
<1>6. CASE NoMore
  BY <1>6, NoMoreInv
<1>7. CASE UNCHANGED vars
  <2>1. UNCHANGED <<arenaVars, bytes, pos, field, node, weight, found, pc>>
    BY <1>7 DEF vars
  <2>2. ArenaInv' /\ arena' = arena /\ written' = written /\ \A k : End(k)' = End(k)
    BY <2>1, ArenaKept DEF LebInv, arenaVars
  <2>3. ScanInv'
    BY <2>1, <2>2 DEF LebInv, ScanInv, Numbered
  <2> QED
    BY <2>1, <2>2, <2>3 DEF LebInv
<1> QED
  BY <1>1, <1>2, <1>3, <1>4, <1>5, <1>6, <1>7 DEF Next, Turn
-----------------------------------------------------------------------------
(* The theorems. *)

\* However the arena was written and wherever it was cut, the scan is where
\* the invariant says: between two of the nodes written, or in one of them
\* with a part of its number read and the rest ahead (leb.rs:16-30).
THEOREM ScanInvariance == Spec => []LebInv
<1> QED
  BY LebInit, LebNext, PTL DEF Spec

\* The scan finds the nodes that were written, in order and each where it
\* starts, whatever was cut off (codec.rs:75-96).
THEOREM ScanCorrect == Spec => []ScanFindsNodes
<1>1. LebInv => ScanFindsNodes
  <2> SUFFICES ASSUME LebInv PROVE ScanFindsNodes
    OBVIOUS
  <2>1. Len(found) <= Len(written) /\ Len(found) \in Nat /\ DOMAIN found = 1 .. Len(found)
    BY DEF LebInv
  <2>2. ASSUME NEW k \in DOMAIN found
        PROVE  /\ found[k].at = IF k = 1 THEN 0
                                ELSE found[k - 1].at + NodeSize(written[k - 1])
               /\ \A f \in {"var", "lo", "hi"} : found[k][f] = written[k][f]
    <3>1. found[k] = [at |-> End(k - 1), var |-> written[k].var,
                      lo |-> written[k].lo, hi |-> written[k].hi]
      BY DEF LebInv
    <3>2. k = 1 => End(k - 1) = 0
      BY DEF End
    <3>3. ASSUME k # 1 PROVE End(k - 1) = found[k - 1].at + NodeSize(written[k - 1])
      <4>1. k - 1 \in DOMAIN found /\ k - 1 \in 1 .. Len(written)
        <5>1. Len(written) \in Nat
          BY DEF LebInv, ArenaInv
        <5> QED
          BY <2>1, <3>3, <5>1
      <4>2. found[k - 1].at = End((k - 1) - 1)
        BY <4>1 DEF LebInv
      <4>3. End(k - 1) = End((k - 1) - 1) + NodeSize(written[k - 1])
        BY <4>1 DEF LebInv, ArenaInv
      <4> QED
        BY <4>2, <4>3
    <3>4. PICK r, w : r = found[k] /\ w = written[k]
      OBVIOUS
    <3>5. r = [at |-> End(k - 1), var |-> w.var, lo |-> w.lo, hi |-> w.hi]
      BY <3>1, <3>4
    <3>6. /\ r.at = End(k - 1)
          /\ r["var"] = w["var"] /\ r["lo"] = w["lo"] /\ r["hi"] = w["hi"]
      BY <3>5
    <3> QED
      BY <3>2, <3>3, <3>4, <3>6
  <2> QED
    BY <2>1, <2>2 DEF ScanFindsNodes
<1> QED
  BY <1>1, ScanInvariance, PTL

\* Only bytes cut between two nodes end the scan in silence, bytes cut within
\* one do not, and no number that was written overflows (leb.rs:26-30).
THEOREM CutsSeen == Spec => []CutsAreSeen
<1>1. LebInv => CutsAreSeen
  <2> SUFFICES ASSUME LebInv PROVE CutsAreSeen
    OBVIOUS
  <2>1. pc # "overflow"
    BY DEF LebInv
  <2>2. pc = "end" => Len(bytes) = End(Len(found))
    BY DEF LebInv, ScanInv
  <2>3. ASSUME pc = "truncated", NEW j \in 0 .. Len(written), Len(bytes) = End(j)
        PROVE  FALSE
    <3>1. PICK k, n : k = Len(found) /\ n = written[k + 1]
      OBVIOUS
    <3>2. /\ k \in Nat /\ field \in {"lo", "hi"} /\ pos = Len(bytes)
          /\ ArenaInv /\ pos \in 0 .. Len(bytes) /\ Len(bytes) \in Nat
      BY <2>3, <3>1 DEF LebInv, ScanInv
    <3>3. k < Len(written) /\ End(k) < pos
      BY <3>1, <3>2 DEF LebInv, ScanInv
    <3>4. n \in Fields /\ End(k) \in Nat /\ End(k + 1) \in Nat
      BY <3>1, <3>2, <3>3, NodeAt
    <3>5. LebLen(n.hi) \in Nat
      BY <3>4, NodeLayout
    <3>6. pos < End(k + 1)
      <4>1. ASSUME NEW x \in 0 .. Word - 1 PROVE LebLen(x) \in Nat \ {0}
        <5>1. x \in Nat
          BY LebAssumption
        <5> QED
          BY <5>1, EncodeType
      <4>2. CASE field = "lo"
        <5>1. \E left \in 0 .. Word - 1 : pos + LebLen(left) + LebLen(n.hi) = End(k + 1)
          BY <3>1, <4>2 DEF LebInv, ScanInv
        <5>2. PICK left \in 0 .. Word - 1 : pos + LebLen(left) + LebLen(n.hi) = End(k + 1)
          BY <5>1
        <5>3. LebLen(left) \in Nat \ {0} /\ pos \in Nat
          BY <3>2, <4>1
        <5> QED
          BY <3>4, <3>5, <5>2, <5>3
      <4>3. CASE field = "hi"
        <5>1. \E left \in 0 .. Word - 1 : pos + LebLen(left) = End(k + 1)
          BY <3>1, <4>3 DEF LebInv, ScanInv
        <5>2. PICK left \in 0 .. Word - 1 : pos + LebLen(left) = End(k + 1)
          BY <5>1
        <5>3. LebLen(left) \in Nat \ {0} /\ pos \in Nat
          BY <3>2, <4>1
        <5> QED
          BY <3>4, <3>5, <5>2, <5>3
      <4> QED
        BY <3>2, <4>2, <4>3
    <3>7. \A i, l \in 0 .. Len(written) : i < l => End(i) < End(l)
      BY <3>2 DEF ArenaInv
    <3>8. /\ k \in 0 .. Len(written) /\ k + 1 \in 0 .. Len(written)
          /\ j <= k \/ j >= k + 1
      BY <3>2, <3>3 DEF ArenaInv
    <3>9. End(j) \in Nat
      BY <2>3, <3>2
    <3> QED
      BY <2>3, <3>2, <3>3, <3>4, <3>6, <3>7, <3>8, <3>9
  <2> QED
    BY <2>1, <2>2, <2>3 DEF CutsAreSeen
<1> QED
  BY <1>1, ScanInvariance, PTL

\* A scan of the whole arena that is over found every node that was written: it
\* neither panicked as truncated nor stopped between two of them, so that what
\* WholeArenaRead leaves to fairness is that it ends (codec.rs:75-96).
WholeArenaFound ==
  bytes = arena /\ pc \notin {"write", "read"} => pc = "end" /\ Len(found) = Len(written)
THEOREM WholeArena == Spec => []WholeArenaFound
<1>1. LebInv /\ CutsAreSeen => WholeArenaFound
  <2> SUFFICES ASSUME LebInv, CutsAreSeen, bytes = arena, pc \notin {"write", "read"}
               PROVE  pc = "end" /\ Len(found) = Len(written)
    BY DEF WholeArenaFound
  <2>1. /\ Len(bytes) = End(Len(written)) /\ Len(written) \in Nat
        /\ Len(found) \in Nat /\ Len(found) <= Len(written)
        /\ \A j, k \in 0 .. Len(written) : j < k => End(j) < End(k)
    BY DEF LebInv, ArenaInv
  <2>2. pc = "end"
    BY <2>1 DEF LebInv, CutsAreSeen
  <2>3. Len(bytes) = End(Len(found)) /\ Len(bytes) \in Nat
    BY <2>2 DEF CutsAreSeen, LebInv
  <2>4. PICK m, n : m = Len(found) /\ n = Len(written)
    OBVIOUS
  <2>5. /\ m \in Nat /\ n \in Nat /\ m <= n /\ m \in 0 .. n /\ n \in 0 .. n
        /\ End(m) = End(n) /\ End(n) \in Nat
    <3>1. End(Len(found)) = End(Len(written)) /\ End(Len(written)) \in Nat
      BY <2>1, <2>3
    <3>2. m \in Nat /\ n \in Nat /\ m <= n
      BY <2>1, <2>4
    <3>3. m \in 0 .. n /\ n \in 0 .. n
      BY <3>2
    <3>4. End(m) = End(n) /\ End(n) \in Nat
      BY <2>4, <3>1, Zenon
    <3> QED
      BY <3>2, <3>3, <3>4
  <2>6. ~ m < n
    BY <2>1, <2>4, <2>5
  <2> QED
    BY <2>2, <2>4, <2>5, <2>6
<1> QED
  BY <1>1, ScanInvariance, CutsSeen, PTL

\* Every turn of a scan leaves less of it, whether it reads a byte or ends the
\* scan, so that no scan goes on forever: what WholeArenaRead leaves to fairness
\* is only that turns are taken (leb.rs:16-31).
ScanLeft == IF pc = "read" THEN Len(bytes) - pos + 1 ELSE 0
THEOREM ScanProgress ==
  Spec => [][Turn => ScanLeft \in Nat /\ ScanLeft' \in 0 .. ScanLeft - 1]_vars
<1>1. LebInv /\ Turn => ScanLeft \in Nat /\ ScanLeft' \in 0 .. ScanLeft - 1
  <2> SUFFICES ASSUME LebInv, Turn
               PROVE  ScanLeft \in Nat /\ ScanLeft' \in 0 .. ScanLeft - 1
    OBVIOUS
  <2>1. /\ Len(bytes) \in Nat /\ pos \in 0 .. Len(bytes)
        /\ pc = "read" /\ bytes' = bytes
    BY DEF LebInv, Turn, Reading, ReadVar, ReadGroup, ReadLast, NoMore
  <2>2. CASE pos < Len(bytes) /\ pos' = pos + 1
    BY <2>1, <2>2 DEF ScanLeft
  <2>3. CASE pos = Len(bytes) /\ pc' # "read"
    BY <2>1, <2>3 DEF ScanLeft
  <2>4. ReadVar \/ ReadGroup \/ ReadLast => pos < Len(bytes) /\ pos' = pos + 1
    BY DEF Reading, ReadVar, ReadGroup, ReadLast
  <2>5. NoMore => pos = Len(bytes) /\ pc' # "read"
    BY DEF NoMore
  <2> QED
    BY <2>2, <2>3, <2>4, <2>5 DEF Turn
<1> QED
  BY <1>1, ScanInvariance, PTL
=============================================================================
