-------------------------- MODULE Exchange_proofs --------------------------
(***************************************************************************)
(* Proofs about the exchange of slabs and diffs: in a lineage of           *)
(* publications both processes hold the same bytes below a recorded        *)
(* length, whoever receives has an engine as sound as one that built its   *)
(* arena, and what it holds are the functions published.                   *)
(***************************************************************************)
EXTENDS Exchange, Collector_proofs
-----------------------------------------------------------------------------
(* A manager at rest, as a record and as the variables. *)

\* The engine between two calls is sound.
LEMMA RestIsSound ==
  ASSUME BetweenInv, pc = "idle", baseLen \in Headers \cup {bufLen}
  PROVE  Sound(Current)
<1> DEFINE m == Current
<1>1. /\ m.buf = buf /\ m.bufLen = bufLen /\ m.den = den /\ m.unique = unique
      /\ m.numVars = numVars /\ m.cache = cache /\ m.cacheLen = cacheLen
      /\ m.held = held /\ m.baseLen = baseLen
  BY DEF Current
<1>2. \A r : FnIn(m.den, r) = Den(r)
  BY <1>1 DEF FnIn, Den
<1>3. /\ BytesTypeOK /\ Reduced /\ Meaning /\ UniqueExact /\ Canonical
      /\ unique \in [DOMAIN unique -> SUBSET Headers]
      /\ \/ DOMAIN unique = 0 .. numVars - 1
         \/ numVars = 0 /\ DOMAIN unique = {0}
      /\ CallTypeOK /\ CacheSound /\ VarBytesFit
      /\ bufLen > 0 => numVars > 0
  BY DEF BetweenInv, IInv, IteInv, ArenaInv, ArenaTypeOK
<1>4. Nodes = Terminals \cup DOMAIN m.buf /\ Headers = DOMAIN m.buf
  BY <1>1 DEF Nodes, Headers
<1> HIDE DEF m
<1>5. \A o \in DOMAIN m.buf : NodeSound(m, o)
  <2> SUFFICES ASSUME NEW o \in Headers PROVE NodeSound(m, o)
    BY <1>4
  <2>1. Decode(m.buf, o) = Node(o) /\ Node(o).var = VarOf(o) /\ VarOf(o) = m.buf[o].var
    BY <1>1 DEF Node, Decode, VarOf
  <2>2. \A c \in {Node(o).lo, Node(o).hi} \ Terminals :
          c \in DOMAIN m.buf /\ c < o /\ m.buf[c].var > Node(o).var
    BY <1>1, <1>3, <1>4 DEF Reduced, Nodes, IsNode, VarOf
  <2>3. Node(o).var < numVars /\ Node(o).lo # Node(o).hi
    BY <1>3 DEF Reduced
  <2>4. o \in 0 .. bufLen - 1 /\ VarOf(o) < VarRadix
    BY <1>3 DEF BytesTypeOK, VarBytesFit
  <2>5. /\ den[o] = Shannon(VarOf(o), Den(Node(o).lo), Den(Node(o).hi))
        /\ \A u \in 0 .. VarOf(o) - 1 : IndependentOf(den[o], u)
    BY <1>3 DEF Meaning
  <2> QED
    BY <1>1, <1>2, <2>1, <2>2, <2>3, <2>4, <2>5 DEF NodeSound
<1>6. m.unique = [v \in DOMAIN m.unique |-> {o \in DOMAIN m.buf : m.buf[o].var = v}]
  BY <1>1, <1>3 DEF UniqueExact, Headers, VarOf
<1>7. m.cache \in [0 .. CacheSlots - 1 ->
        {EmptyEntry} \cup [f : Terminals \cup DOMAIN m.buf, g : Terminals \cup DOMAIN m.buf,
                           h : Terminals \cup DOMAIN m.buf, r : Terminals \cup DOMAIN m.buf]]
  BY <1>1, <1>3, <1>4 DEF CallTypeOK, Entries
<1>8. \A s \in DOMAIN m.cache :
        m.cache[s] # EmptyEntry =>
          FnIn(m.den, m.cache[s].r) =
            IteFn(FnIn(m.den, m.cache[s].f), FnIn(m.den, m.cache[s].g),
                  FnIn(m.den, m.cache[s].h))
  BY <1>1, <1>2, <1>3 DEF CacheSound
<1>9. \A q, r \in Terminals \cup DOMAIN m.buf :
        FnIn(m.den, q) = FnIn(m.den, r) => q = r
  BY <1>2, <1>3, <1>4 DEF Canonical
<1>10. /\ m.bufLen \in 0 .. MaxOffset /\ m.numVars \in 0 .. MaxVars
       /\ m.bufLen > 0 => m.numVars > 0
       /\ m.buf \in [DOMAIN m.buf -> RawNodes]
       /\ m.den \in [DOMAIN m.buf -> Functions]
       /\ m.cacheLen \in Nat
       /\ m.held \in [Handles -> Terminals \cup DOMAIN m.buf]
       /\ m.baseLen \in DOMAIN m.buf \cup {m.bufLen}
  BY <1>1, <1>3, <1>4 DEF BytesTypeOK, CallTypeOK
<1>11. \/ DOMAIN m.unique = 0 .. m.numVars - 1
       \/ m.numVars = 0 /\ DOMAIN m.unique = {0}
  BY <1>1, <1>3
<1>12. Sound(m)
  BY <1>5, <1>6, <1>7, <1>8, <1>9, <1>10, <1>11 DEF Sound
<1> QED
  BY <1>12 DEF m

\* What runs once the sound manager m has taken its turn is the engine between
\* two calls.
LEMMA SoundRuns ==
  ASSUME NEW m, Sound(m), Run(m), pc' = "idle", call' = NoCall,
         stack' = <<>>, results' = <<>>,
         gcStack' = <<>>, remap' = <<>>, postOrder' = <<>>
  PROVE  BetweenInv' /\ baseLen' \in Headers' \cup {bufLen'}
<1>1. /\ m.buf = buf' /\ m.bufLen = bufLen' /\ m.den = den' /\ m.unique = unique'
      /\ m.numVars = numVars' /\ m.cache = cache' /\ m.cacheLen = cacheLen'
      /\ m.held = held' /\ m.baseLen = baseLen'
  BY DEF Run
<1>2. \A r : FnIn(m.den, r) = Den(r)'
  BY <1>1 DEF FnIn, Den
<1>3. Nodes' = Terminals \cup DOMAIN m.buf /\ Headers' = DOMAIN m.buf
  BY <1>1 DEF Nodes, Headers
<1>4. \A o \in Headers' :
        /\ NodeSound(m, o)
        /\ Decode(m.buf, o) = Node(o)'
        /\ VarOf(o)' = Node(o).var' /\ VarOf(o)' = m.buf[o].var
  BY <1>1, <1>3 DEF Sound, Node, Decode, VarOf
<1>5. /\ bufLen' \in 0 .. MaxOffset /\ numVars' \in 0 .. MaxVars
      /\ bufLen' > 0 => numVars' > 0
      /\ buf' \in [Headers' -> RawNodes] /\ den' \in [Headers' -> Functions]
      /\ cacheLen' \in Nat /\ held' \in [Handles -> Nodes']
      /\ baseLen' \in Headers' \cup {bufLen'}
      /\ \/ DOMAIN unique' = 0 .. numVars' - 1
         \/ numVars' = 0 /\ DOMAIN unique' = {0}
  BY <1>1, <1>3 DEF Sound
<1>6. BytesTypeOK'
  <2>1. \A o \in Headers' : o \in 0 .. bufLen' - 1
    BY <1>1, <1>4 DEF NodeSound
  <2> QED
    BY <1>5, <2>1 DEF BytesTypeOK
<1>7. Reduced'
  <2> SUFFICES ASSUME NEW o \in Headers'
               PROVE  /\ Node(o).var' < numVars'
                      /\ Node(o).lo' # Node(o).hi'
                      /\ \A c \in {Node(o).lo', Node(o).hi'} :
                           /\ c \in Nodes'
                           /\ c < o
                           /\ IsNode(c) => VarOf(c)' > Node(o).var'
    BY DEF Reduced
  <2>1. o \in Nat
    BY <1>5, <1>6, CodecAssumption DEF BytesTypeOK
  <2>2. /\ Node(o).var' < numVars' /\ Node(o).lo' # Node(o).hi'
        /\ \A c \in {Node(o).lo', Node(o).hi'} \ Terminals :
             c \in DOMAIN m.buf /\ c < o /\ m.buf[c].var > Node(o).var'
    BY <1>1, <1>4 DEF NodeSound
  <2>3. \A c \in Terminals : c < o
    BY <2>1 DEF Terminals, FalseRef, TrueRef
  <2> QED
    BY <1>3, <1>4, <2>2, <2>3 DEF IsNode
<1>8. Meaning'
  <2> SUFFICES ASSUME NEW o \in Headers'
               PROVE  /\ den'[o] = Shannon(VarOf(o)', Den(Node(o).lo)', Den(Node(o).hi)')
                      /\ \A u \in 0 .. VarOf(o)' - 1 : IndependentOf(den'[o], u)
    BY DEF Meaning
  <2> QED
    BY <1>1, <1>2, <1>4 DEF NodeSound
<1>9. UniqueExact' /\ unique' \in [DOMAIN unique' -> SUBSET Headers']
  <2>1. unique' = [v \in DOMAIN unique' |-> {o \in Headers' : buf'[o].var = v}]
    BY <1>1, <1>3 DEF Sound
  <2> QED
    BY <2>1 DEF UniqueExact, VarOf
<1>10. Canonical'
  <2>1. \A q, r \in Nodes' : FnIn(m.den, q) = FnIn(m.den, r) => q = r
    BY <1>3 DEF Sound
  <2> QED
    BY <1>2, <2>1 DEF Canonical
<1>11. cache' \in [0 .. CacheSlots - 1 -> Entries']
  <2>1. m.cache \in [0 .. CacheSlots - 1 ->
          {EmptyEntry} \cup [f : Nodes', g : Nodes', h : Nodes', r : Nodes']]
    BY <1>3 DEF Sound
  <2> QED
    BY <1>1, <2>1 DEF Entries
<1>12. CacheSound'
  <2> SUFFICES ASSUME NEW s \in DOMAIN cache', cache'[s] # EmptyEntry
               PROVE  /\ {cache'[s].f, cache'[s].g, cache'[s].h, cache'[s].r} \subseteq Nodes'
                      /\ Den(cache[s].r)' =
                           IteFn(Den(cache[s].f)', Den(cache[s].g)', Den(cache[s].h)')
    BY DEF CacheSound
  <2>1. cache'[s] \in [f : Nodes', g : Nodes', h : Nodes', r : Nodes']
    BY <1>11 DEF Entries
  <2>2. FnIn(m.den, cache'[s].r) =
          IteFn(FnIn(m.den, cache'[s].f), FnIn(m.den, cache'[s].g), FnIn(m.den, cache'[s].h))
    BY <1>1 DEF Sound
  <2> QED
    BY <1>2, <2>1, <2>2
<1>13. CallTypeOK'
  BY <1>5, <1>11 DEF CallTypeOK
<1>14. VarBytesFit'
  BY <1>1, <1>4 DEF VarBytesFit, NodeSound
<1>15. IteInv'
  BY <1>12, <1>14 DEF IteInv, NoPanic, OnItsWay
<1> QED
  BY <1>5, <1>6, <1>7, <1>8, <1>9, <1>10, <1>13, <1>15
  DEF BetweenInv, IInv, ArenaInv, ArenaTypeOK
-----------------------------------------------------------------------------
(* The arena of a sound manager. *)

\* Where its nodes are.
LEMMA SoundOffsets ==
  ASSUME NEW m, Sound(m)
  PROVE  /\ m.bufLen \in Nat /\ m.bufLen <= MaxOffset
         /\ m.baseLen \in Nat /\ m.baseLen <= m.bufLen
         /\ \A o \in DOMAIN m.buf : o \in Nat /\ o < m.bufLen /\ o \notin Terminals
<1>1. m.bufLen \in Nat /\ m.bufLen <= MaxOffset
  BY CodecAssumption DEF Sound
<1>2. \A o \in DOMAIN m.buf : o \in 0 .. m.bufLen - 1
  BY DEF Sound, NodeSound
<1>3. \A o \in DOMAIN m.buf : o \in Nat /\ o < m.bufLen /\ o \notin Terminals
  BY <1>1, <1>2 DEF Terminals, FalseRef, TrueRef
<1>4. m.baseLen \in DOMAIN m.buf \cup {m.bufLen}
  BY DEF Sound
<1> QED
  BY <1>1, <1>3, <1>4

\* The arena's bytes below n say what its nodes there stand for.
LEMMA PrefixMeans ==
  ASSUME NEW m, Sound(m), NEW n \in Nat,
         NEW b, b = [o \in {o \in DOMAIN m.buf : o < n} |-> m.buf[o]]
  PROVE  /\ \A o \in DOMAIN b : Decode(b, o) = Decode(m.buf, o)
         /\ Meanings(b) \in [DOMAIN b -> Functions]
         /\ \A o \in DOMAIN b : Meanings(b)[o] = m.den[o]
<1>1. \A o \in DOMAIN b : o \in DOMAIN m.buf /\ b[o] = m.buf[o] /\ o < n
  OBVIOUS
<1>2. \A o \in DOMAIN b : Decode(b, o) = Decode(m.buf, o)
  BY <1>1 DEF Decode
<1>3. MaxOffset \in Nat /\ DOMAIN b \subseteq 0 .. MaxOffset
  BY <1>1, SoundOffsets, CodecAssumption
<1>4. ASSUME NEW o \in DOMAIN b, NEW c \in {Decode(b, o).lo, Decode(b, o).hi}
      PROVE  c \in Terminals \/ (c \in DOMAIN b /\ c < o)
  <2> SUFFICES ASSUME c \notin Terminals PROVE c \in DOMAIN b /\ c < o
    OBVIOUS
  <2>1. NodeSound(m, o)
    BY <1>1 DEF Sound
  <2>2. c \in DOMAIN m.buf /\ c < o
    BY <1>2, <2>1 DEF NodeSound
  <2>3. o \in DOMAIN m.buf /\ o < n
    BY <1>1
  <2>4. \A x, y \in DOMAIN m.buf : x < y /\ y < n => x < n
    <3>1. \A x \in DOMAIN m.buf : x \in Nat
      BY SoundOffsets
    <3> QED
      BY <3>1
  <2> QED
    BY <2>2, <2>3, <2>4
<1>5. Rooted(b)
  BY <1>4 DEF Rooted
<1>6. ASSUME NEW o \in DOMAIN b
      PROVE  m.den[o] = NodeFn(b, m.den, o)
  <2>1. NodeFn(b, m.den, o) =
          Shannon(b[o].var, FnIn(m.den, Decode(b, o).lo), FnIn(m.den, Decode(b, o).hi))
    BY <1>5, NodeFnBelow
  <2>2. NodeSound(m, o) /\ Decode(b, o) = Decode(m.buf, o)
    BY <1>1, <1>2 DEF Sound
  <2>3. Decode(b, o).var = b[o].var
    BY DEF Decode
  <2> QED
    BY <2>1, <2>2, <2>3 DEF NodeSound
<1>7. \A o \in DOMAIN b : m.den[o] = Meanings(b)[o]
  BY <1>3, <1>5, <1>6, MeaningsUnique
<1>8. Meanings(b) \in [DOMAIN b -> Functions]
  BY <1>3, <1>5, MeaningsDef
<1> QED
  BY <1>2, <1>7, <1>8

\* The arenas of s and c hold the same nodes below n, and they mean the same.
LEMMA SameMeans ==
  ASSUME NEW s, Sound(s), NEW c, Sound(c), NEW n \in Nat, SameBelow(s, c, n)
  PROVE  \A o \in DOMAIN c.buf :
           o < n => o \in DOMAIN s.buf /\ s.buf[o] = c.buf[o] /\ s.den[o] = c.den[o]
<1> DEFINE bs == [o \in {o \in DOMAIN s.buf : o < n} |-> s.buf[o]]
           bc == [o \in {o \in DOMAIN c.buf : o < n} |-> c.buf[o]]
<1>1. bs = bc
  BY DEF SameBelow
<1>2. \A o \in DOMAIN bs : Meanings(bs)[o] = s.den[o]
  <2> HIDE DEF bs
  <2> QED
    BY PrefixMeans DEF bs
<1>3. \A o \in DOMAIN bc : Meanings(bc)[o] = c.den[o]
  <2> HIDE DEF bc
  <2> QED
    BY PrefixMeans DEF bc
<1>4. \A o \in DOMAIN c.buf : o < n => o \in DOMAIN s.buf /\ s.buf[o] = c.buf[o] /\ o \in DOMAIN bc
  BY DEF SameBelow
<1>5. \A o \in DOMAIN bc : s.den[o] = c.den[o]
  <2> HIDE DEF bs, bc
  <2> QED
    BY <1>1, <1>2, <1>3
<1> QED
  BY <1>4, <1>5

\* An empty manager with its variables' tables is sound.
LEMMA EmptyIsSound ==
  ASSUME NEW n \in 0 .. MaxVars
  PROVE  Sound(Declaring(n)) /\ Sound(NewManager)
<1>1. ASSUME NEW m, m.buf = <<>>, m.bufLen = 0, m.den = <<>>, m.numVars \in 0 .. MaxVars,
             m.unique = [v \in 0 .. m.numVars - 1 |-> {}],
             m.cache = [s \in 0 .. CacheSlots - 1 |-> EmptyEntry], m.cacheLen = 0,
             m.held = [k \in Handles |-> FalseRef], m.baseLen = 0
      PROVE  Sound(m)
  <2>1. DOMAIN m.buf = {} /\ DOMAIN m.den = {}
    BY <1>1
  <2>2. m.buf \in [DOMAIN m.buf -> RawNodes] /\ m.den \in [DOMAIN m.buf -> Functions]
    BY <1>1, <2>1
  <2>3. \A q, r \in Terminals \cup DOMAIN m.buf : FnIn(m.den, q) = FnIn(m.den, r) => q = r
    <3>1. FalseFn # TrueFn
      <4>1. {} \in Assignments
        BY DEF Assignments
      <4> QED
        BY <4>1 DEF FalseFn, TrueFn
    <3> QED
      BY <2>1, <3>1 DEF FnIn, Terminals, FalseRef, TrueRef
  <2>4. DOMAIN m.unique = 0 .. m.numVars - 1
    BY <1>1
  <2>5. m.unique = [v \in DOMAIN m.unique |-> {o \in DOMAIN m.buf : m.buf[o].var = v}]
    BY <1>1, <2>1, <2>4
  <2>6. 0 \in 0 .. MaxOffset /\ 0 \in Nat
    BY CodecAssumption
  <2>7. \A s \in DOMAIN m.cache : m.cache[s] = EmptyEntry
    BY <1>1
  <2>8. \A o \in DOMAIN m.buf : NodeSound(m, o)
    BY <2>1
  <2> QED
    BY <1>1, <2>2, <2>3, <2>4, <2>5, <2>6, <2>7, <2>8 DEF Sound, Terminals
<1>2. 0 \in 0 .. MaxVars
  BY MaxVarsAssumption
<1>3. <<>> = [v \in 0 .. 0 - 1 |-> {}]
  OBVIOUS
<1>4. Sound(NewManager)
  BY <1>1, <1>2, <1>3 DEF NewManager
<1>5. Sound(Declaring(n))
  <2> DEFINE m == Declaring(n)
  <2>1. /\ m.buf = <<>> /\ m.bufLen = 0 /\ m.den = <<>> /\ m.numVars = n
        /\ m.unique = [v \in 0 .. n - 1 |-> {}]
        /\ m.cache = [s \in 0 .. CacheSlots - 1 |-> EmptyEntry] /\ m.cacheLen = 0
        /\ m.held = [k \in Handles |-> FalseRef] /\ m.baseLen = 0
    BY DEF Declaring, NewManager
  <2> HIDE DEF m
  <2>2. Sound(m)
    BY <1>1, <2>1
  <2> QED
    BY <2>2 DEF m
<1> QED
  BY <1>4, <1>5
-----------------------------------------------------------------------------
(* What a publication carries. *)

LEMMA TailFacts ==
  ASSUME NEW s, Sound(s), NEW a, Published(s, a)
  PROVE  /\ a.base \in Nat /\ a.tailLen \in Nat /\ End(a) \in Nat /\ a.base <= End(a)
         /\ End(a) = a.base + a.tailLen
         /\ End(a) <= s.baseLen /\ End(a) <= s.bufLen /\ s.baseLen \in Nat
         /\ \A o \in Stretch(s, a) :
              /\ o \in Nat /\ o \in DOMAIN s.buf /\ a.base <= o /\ o < End(a)
              /\ o - a.base \in DOMAIN a.tail /\ a.tail[o - a.base] = s.buf[o]
         /\ \A i \in DOMAIN a.tail :
              i \in Nat /\ a.base + i \in Stretch(s, a) /\ a.tail[i] = s.buf[a.base + i]
<1>1. /\ a.base \in Nat /\ a.tailLen \in Nat /\ End(a) <= s.baseLen
      /\ a.tail = [i \in {o - a.base : o \in Stretch(s, a)} |-> s.buf[a.base + i]]
  BY DEF Published
<1>2. End(a) = a.base + a.tailLen
  BY DEF End
<1>3. s.baseLen \in Nat /\ s.bufLen \in Nat /\ s.baseLen <= s.bufLen
  BY SoundOffsets
<1>4. \A o \in Stretch(s, a) : o \in Nat /\ o \in DOMAIN s.buf /\ a.base <= o /\ o < End(a)
  BY SoundOffsets DEF Stretch
<1>5. ASSUME NEW o \in Stretch(s, a)
      PROVE  o - a.base \in DOMAIN a.tail /\ a.tail[o - a.base] = s.buf[o]
  <2>1. o - a.base \in DOMAIN a.tail
    BY <1>1
  <2>2. a.tail[o - a.base] = s.buf[a.base + (o - a.base)]
    BY <1>1, <2>1
  <2>3. a.base + (o - a.base) = o
    BY <1>1, <1>4
  <2> QED
    BY <2>1, <2>2, <2>3
<1>6. ASSUME NEW i \in DOMAIN a.tail
      PROVE  i \in Nat /\ a.base + i \in Stretch(s, a) /\ a.tail[i] = s.buf[a.base + i]
  <2>1. PICK o \in Stretch(s, a) : i = o - a.base
    BY <1>1
  <2>2. i \in Nat /\ a.base + i = o
    BY <1>1, <1>4, <2>1
  <2> QED
    BY <1>1, <2>2
<1> QED
  BY <1>1, <1>2, <1>3, <1>4, <1>5, <1>6

\* scan_max_var returns a number of variables, and enough of them.
LEMMA ScanCovers ==
  ASSUME NEW s, Sound(s), NEW a, Published(s, a)
  PROVE  /\ ScanMaxVar(a) \in 0 .. MaxVars
         /\ \A o \in Stretch(s, a) : s.buf[o].var < ScanMaxVar(a)
<1> DEFINE U == UNION {0 .. a.tail[i].var : i \in DOMAIN a.tail}
           n == Cardinality(U)
<1>1. \A o \in Stretch(s, a) : s.buf[o].var \in 0 .. MaxVars - 1
  <2> SUFFICES ASSUME NEW o \in Stretch(s, a) PROVE s.buf[o].var \in 0 .. MaxVars - 1
    OBVIOUS
  <2>1. o \in DOMAIN s.buf
    BY DEF Stretch
  <2>2. s.buf[o] \in RawNodes /\ NodeSound(s, o) /\ s.numVars \in 0 .. MaxVars
    BY <2>1 DEF Sound
  <2>3. s.buf[o].var \in Nat /\ s.buf[o].var < s.numVars
    BY <2>2 DEF RawNodes, NodeSound, Decode
  <2> QED
    BY <2>2, <2>3, MaxVarsAssumption
<1>2. \A i \in DOMAIN a.tail : a.tail[i].var \in 0 .. MaxVars - 1
  BY <1>1, TailFacts
<1>3. U \subseteq 0 .. MaxVars - 1
  BY <1>2, MaxVarsAssumption
<1>4. IsFiniteSet(0 .. MaxVars - 1) /\ Cardinality(0 .. MaxVars - 1) = MaxVars
  BY MaxVarsAssumption, FS_Interval
<1>5. IsFiniteSet(U) /\ n <= MaxVars /\ n \in Nat
  <2> HIDE DEF U
  <2>1. IsFiniteSet(U) /\ Cardinality(U) <= Cardinality(0 .. MaxVars - 1)
    BY <1>3, <1>4, FS_Subset
  <2> QED
    BY <1>4, <2>1, FS_CardinalityType
<1>6. ASSUME NEW o \in Stretch(s, a) PROVE s.buf[o].var < n
  <2> DEFINE v == s.buf[o].var
  <2>1. v \in Nat
    BY <1>1, MaxVarsAssumption
  <2>2. 0 .. v \subseteq U
    <3>1. o - a.base \in DOMAIN a.tail /\ a.tail[o - a.base].var = v
      BY TailFacts
    <3> QED
      BY <3>1
  <2>3. IsFiniteSet(0 .. v) /\ Cardinality(0 .. v) = v + 1
    <3> HIDE DEF v
    <3> QED
      BY <2>1, FS_Interval
  <2>4. Cardinality(0 .. v) <= n
    <3> HIDE DEF v, U
    <3> QED
      BY <1>5, <2>2, FS_Subset
  <2> HIDE DEF v, n
  <2>5. v < n
    BY <1>5, <2>1, <2>3, <2>4
  <2> QED
    BY <2>5 DEF v
<1>7. ScanMaxVar(a) = n
  BY DEF ScanMaxVar
<1> HIDE DEF n
<1> QED
  BY <1>5, <1>6, <1>7, MaxVarsAssumption

\* Appended to an arena with the bytes of s below its base, a's bytes make the
\* arena of s up to a's end.
LEMMA GraftIsPrefix ==
  ASSUME NEW s, Sound(s), NEW a, Published(s, a), NEW m, Sound(m),
         m.bufLen = a.base, SameBelow(s, m, a.base)
  PROVE  Grafted(m.buf, m.bufLen, a) =
           [o \in {o \in DOMAIN s.buf : o < End(a)} |-> s.buf[o]]
<1> DEFINE D == DOMAIN m.buf \cup {a.base + i : i \in DOMAIN a.tail}
           E == {o \in DOMAIN s.buf : o < End(a)}
<1>1. \A o \in DOMAIN m.buf :
        o \in Nat /\ o < a.base /\ o \in DOMAIN s.buf /\ s.buf[o] = m.buf[o]
  BY SoundOffsets DEF SameBelow
<1>2. \A o \in DOMAIN s.buf : o \in Nat /\ (o < a.base => o \in DOMAIN m.buf)
  BY SoundOffsets DEF SameBelow
<1>3. a.base \in Nat /\ End(a) \in Nat /\ a.base <= End(a)
  BY TailFacts
<1>4. D \subseteq E
  <2>1. DOMAIN m.buf \subseteq E
    BY <1>1, <1>3
  <2>2. ASSUME NEW i \in DOMAIN a.tail PROVE a.base + i \in E
    <3>1. a.base + i \in Stretch(s, a)
      BY TailFacts
    <3> QED
      BY <3>1, TailFacts
  <2> QED
    BY <2>1, <2>2
<1>5. ASSUME NEW o \in E, o \notin DOMAIN m.buf
      PROVE  o \in D /\ a.tail[o - a.base] = s.buf[o]
  <2>1. o \in Stretch(s, a)
    BY <1>2, <1>3, <1>5 DEF Stretch
  <2>2. o - a.base \in DOMAIN a.tail /\ a.tail[o - a.base] = s.buf[o] /\ o \in Nat
    BY <2>1, TailFacts
  <2>3. a.base + (o - a.base) = o
    BY <1>3, <2>2
  <2> QED
    BY <2>2, <2>3
<1>6. D = E
  BY <1>4, <1>5
<1>7. \A o \in D :
        (IF o \in DOMAIN m.buf THEN m.buf[o] ELSE a.tail[o - a.base]) = s.buf[o]
  BY <1>1, <1>5, <1>6
<1>8. Grafted(m.buf, m.bufLen, a) =
        [o \in D |-> IF o \in DOMAIN m.buf THEN m.buf[o] ELSE a.tail[o - a.base]]
  BY DEF Grafted
<1> HIDE DEF D, E
<1> QED
  BY <1>6, <1>7, <1>8 DEF E
-----------------------------------------------------------------------------
(* Receiving. *)

\* m may receive a, which s published: it holds what s holds below a's base,
\* nothing else, and has declared the variables of a's nodes.
Receives(m, s, a) ==
  /\ Sound(s) /\ Sound(m) /\ Published(s, a)
  /\ m.bufLen = a.base /\ SameBelow(s, m, a.base)
  /\ ScanMaxVar(a) <= m.numVars

\* Then what m becomes, r, is the arena of s up to a's end.
IsReceived(r, m, s, a) ==
  /\ r.buf = [o \in {o \in DOMAIN s.buf : o < End(a)} |-> s.buf[o]]
  /\ r.den \in [DOMAIN r.buf -> Functions]
  /\ \A o \in DOMAIN r.buf : r.den[o] = s.den[o]
  /\ \A o \in DOMAIN r.buf : Decode(r.buf, o) = Decode(s.buf, o)
  /\ r.bufLen = End(a) /\ r.baseLen = End(a) /\ r.numVars = m.numVars
  /\ r.cache = m.cache /\ r.cacheLen = m.cacheLen
  /\ r.unique = Tables(DOMAIN m.unique, m.numVars, r.buf)
  /\ r.held = [k \in Handles |-> IF k \in DOMAIN a.roots THEN a.roots[k]
                                                       ELSE m.held[k]]

LEMMA ReceivedArena ==
  ASSUME NEW m, NEW s, NEW a, Receives(m, s, a), NEW r, r = Received(m, a)
  PROVE  IsReceived(r, m, s, a)
<1>1. Sound(s) /\ Sound(m) /\ Published(s, a) /\ m.bufLen = a.base /\ SameBelow(s, m, a.base)
  BY DEF Receives
<1> DEFINE b == Grafted(m.buf, m.bufLen, a)
<1>2. /\ r.buf = b /\ r.den = Meanings(b)
      /\ r.bufLen = m.bufLen + a.tailLen /\ r.baseLen = m.bufLen + a.tailLen
      /\ r.numVars = m.numVars /\ r.cache = m.cache /\ r.cacheLen = m.cacheLen
      /\ r.unique = Tables(DOMAIN m.unique, m.numVars, b)
      /\ r.held = [k \in Handles |-> IF k \in DOMAIN a.roots THEN a.roots[k]
                                                            ELSE m.held[k]]
  BY DEF Received
<1>3. End(a) = m.bufLen + a.tailLen /\ End(a) \in Nat
  BY <1>1, TailFacts DEF End
<1>4. b = [o \in {o \in DOMAIN s.buf : o < End(a)} |-> s.buf[o]]
  BY <1>1, GraftIsPrefix
<1> HIDE DEF b
<1>5. /\ \A o \in DOMAIN b : Decode(b, o) = Decode(s.buf, o)
      /\ Meanings(b) \in [DOMAIN b -> Functions]
      /\ \A o \in DOMAIN b : Meanings(b)[o] = s.den[o]
  BY <1>1, <1>3, <1>4, PrefixMeans
<1> QED
  BY <1>2, <1>3, <1>4, <1>5 DEF IsReceived

\* The arena and its functions grow.
LEMMA ReceivedKeeps ==
  ASSUME NEW m, NEW s, NEW a, Receives(m, s, a), NEW r, r = Received(m, a)
  PROVE  /\ DOMAIN m.buf \subseteq DOMAIN r.buf
         /\ \A o \in DOMAIN m.buf : r.buf[o] = m.buf[o]
         /\ \A q \in Terminals \cup DOMAIN m.buf : FnIn(r.den, q) = FnIn(m.den, q)
<1>1. Sound(s) /\ Sound(m) /\ Published(s, a) /\ m.bufLen = a.base /\ SameBelow(s, m, a.base)
  BY DEF Receives
<1>0. IsReceived(r, m, s, a)
  BY ReceivedArena
<1>2. /\ r.buf = [o \in {o \in DOMAIN s.buf : o < End(a)} |-> s.buf[o]]
      /\ \A o \in DOMAIN r.buf : r.den[o] = s.den[o]
  BY <1>0 DEF IsReceived
<1>3. a.base \in Nat /\ End(a) \in Nat /\ a.base <= End(a)
  BY <1>1, TailFacts
<1>4. \A o \in DOMAIN m.buf : o \in Nat /\ o < a.base /\ o \notin Terminals
  BY <1>1, SoundOffsets
<1>5. \A o \in DOMAIN m.buf : o \in DOMAIN s.buf /\ s.buf[o] = m.buf[o] /\ s.den[o] = m.den[o]
  BY <1>1, <1>3, <1>4, SameMeans
<1>6. \A o \in DOMAIN m.buf :
        o \in DOMAIN r.buf /\ r.buf[o] = m.buf[o] /\ r.den[o] = m.den[o]
  BY <1>2, <1>3, <1>4, <1>5
<1>7. \A q \in Terminals \cup DOMAIN m.buf : FnIn(r.den, q) = FnIn(m.den, q)
  BY <1>6 DEF FnIn, Terminals
<1> QED
  BY <1>6, <1>7

LEMMA ReceivedNodes ==
  ASSUME NEW m, NEW s, NEW a, Receives(m, s, a), NEW r, r = Received(m, a),
         NEW o \in DOMAIN r.buf
  PROVE  NodeSound(r, o) /\ r.buf[o].var < m.numVars /\ r.buf[o].var \in Nat
<1>1. Sound(s) /\ Sound(m) /\ Published(s, a) /\ m.bufLen = a.base /\ SameBelow(s, m, a.base)
  BY DEF Receives
<1>0. IsReceived(r, m, s, a)
  BY ReceivedArena
<1>2. /\ r.buf = [q \in {q \in DOMAIN s.buf : q < End(a)} |-> s.buf[q]]
      /\ \A q \in DOMAIN r.buf : r.den[q] = s.den[q]
      /\ Decode(r.buf, o) = Decode(s.buf, o)
      /\ r.bufLen = End(a) /\ r.numVars = m.numVars
  BY <1>0 DEF IsReceived
<1>3. o \in DOMAIN s.buf /\ o < End(a) /\ r.buf[o] = s.buf[o]
  BY <1>2
<1>4. /\ a.base \in Nat /\ End(a) \in Nat /\ a.base <= End(a)
      /\ \A q \in DOMAIN s.buf : q \in Nat
      /\ \A q \in DOMAIN r.buf : q \notin Terminals
  BY <1>1, <1>2, TailFacts, SoundOffsets
<1>5. NodeSound(s, o) /\ s.buf[o] \in RawNodes
  BY <1>1, <1>3 DEF Sound
<1> DEFINE n == Decode(s.buf, o)
<1>6. n.var = s.buf[o].var /\ n.var \in Nat
  BY <1>5 DEF Decode, RawNodes
<1>7. n.var < m.numVars
  <2>1. CASE o < a.base
    <3>1. o \in DOMAIN m.buf /\ m.buf[o] = s.buf[o]
      BY <1>1, <1>3, <2>1 DEF SameBelow
    <3>2. NodeSound(m, o)
      BY <1>1, <3>1 DEF Sound
    <3> QED
      BY <1>6, <3>1, <3>2 DEF NodeSound, Decode
  <2>2. CASE ~ (o < a.base)
    <3>1. o \in Stretch(s, a)
      BY <1>3, <1>4, <2>2 DEF Stretch
    <3>2. s.buf[o].var < ScanMaxVar(a) /\ ScanMaxVar(a) \in Nat
      BY <1>1, <3>1, ScanCovers, MaxVarsAssumption
    <3>3. ScanMaxVar(a) <= m.numVars /\ m.numVars \in Nat
      BY <1>1, MaxVarsAssumption DEF Receives, Sound
    <3> QED
      BY <1>6, <3>2, <3>3
  <2> QED
    BY <2>1, <2>2
<1>8. /\ n.var < VarRadix /\ n.lo # n.hi
      /\ \A c \in {n.lo, n.hi} \ Terminals :
           c \in DOMAIN s.buf /\ c < o /\ s.buf[c].var > n.var
      /\ s.den[o] = Shannon(n.var, FnIn(s.den, n.lo), FnIn(s.den, n.hi))
      /\ \A u \in 0 .. n.var - 1 : IndependentOf(s.den[o], u)
  BY <1>5 DEF NodeSound
<1> HIDE DEF n
<1>9. \A c \in {n.lo, n.hi} \ Terminals :
        c \in DOMAIN r.buf /\ c < o /\ r.buf[c].var > n.var
  <2> SUFFICES ASSUME NEW c \in {n.lo, n.hi} \ Terminals
               PROVE  c \in DOMAIN r.buf /\ c < o /\ r.buf[c].var > n.var
    OBVIOUS
  <2>1. c \in DOMAIN s.buf /\ c < o /\ s.buf[c].var > n.var
    BY <1>8
  <2>2. c < End(a)
    BY <1>3, <1>4, <2>1
  <2> QED
    BY <1>2, <2>1, <2>2
<1>10. \A c \in {n.lo, n.hi} : FnIn(r.den, c) = FnIn(s.den, c)
  BY <1>2, <1>9 DEF FnIn, Terminals
<1>11. o \in 0 .. r.bufLen - 1
  BY <1>2, <1>3, <1>4
<1>12. r.den[o] = Shannon(n.var, FnIn(r.den, n.lo), FnIn(r.den, n.hi))
  BY <1>2, <1>8, <1>10
<1>13. \A u \in 0 .. n.var - 1 : IndependentOf(r.den[o], u)
  BY <1>2, <1>8
<1>14. NodeSound(r, o)
  BY <1>2, <1>7, <1>8, <1>9, <1>11, <1>12, <1>13 DEF NodeSound, n
<1> QED
  BY <1>3, <1>6, <1>7, <1>14

\* The table a rebuilding leaves.
LEMMA ReceivedTable ==
  ASSUME NEW m, NEW s, NEW a, Receives(m, s, a), NEW r, r = Received(m, a)
  PROVE  /\ r.unique = [v \in DOMAIN r.unique |-> {o \in DOMAIN r.buf : r.buf[o].var = v}]
         /\ \/ DOMAIN r.unique = 0 .. r.numVars - 1
            \/ r.numVars = 0 /\ DOMAIN r.unique = {0}
<1> DEFINE T == DOMAIN m.unique
           b == r.buf
           n == m.numVars
<1>0. IsReceived(r, m, s, a)
  BY ReceivedArena
<1>1. r.unique = Tables(T, n, b) /\ r.numVars = n
  BY <1>0 DEF IsReceived
<1> DEFINE V == T \cup {0} \cup (0 .. n - 1) \cup UNION {0 .. b[o].var : o \in DOMAIN b}
<1>2. r.unique = [v \in V |-> {o \in DOMAIN b : b[o].var = v}]
  BY <1>1 DEF Tables
<1>3. \A o \in DOMAIN b : b[o].var < n /\ b[o].var \in Nat
  BY ReceivedNodes
<1>4. n \in Nat /\ (T = 0 .. n - 1 \/ (n = 0 /\ T = {0}))
  BY MaxVarsAssumption DEF Receives, Sound
<1> HIDE DEF T, b, n
<1>5. CASE n > 0
  <2>1. UNION {0 .. b[o].var : o \in DOMAIN b} \subseteq 0 .. n - 1
    BY <1>3, <1>4
  <2>2. T = 0 .. n - 1 /\ 0 \in 0 .. n - 1
    BY <1>4, <1>5
  <2>3. V = 0 .. n - 1
    BY <2>1, <2>2
  <2> HIDE DEF V
  <2> QED
    BY <1>1, <1>2, <2>3 DEF b
<1>6. CASE n = 0
  <2>1. DOMAIN b = {}
    <3> SUFFICES ASSUME NEW o \in DOMAIN b PROVE FALSE
      OBVIOUS
    <3>1. b[o].var < 0 /\ b[o].var \in Nat
      BY <1>3, <1>6
    <3> QED
      BY <3>1
  <2>2. 0 .. n - 1 = {} /\ T \subseteq {0}
    BY <1>4, <1>6
  <2>3. V = {0}
    BY <2>1, <2>2
  <2> HIDE DEF V
  <2> QED
    BY <1>1, <1>2, <1>6, <2>3 DEF b
<1> QED
  BY <1>4, <1>5, <1>6

\* Its handles mean what was published, or what they meant.
LEMMA ReceivedHandles ==
  ASSUME NEW m, NEW s, NEW a, Receives(m, s, a), NEW r, r = Received(m, a)
  PROVE  /\ r.held \in [Handles -> Terminals \cup DOMAIN r.buf]
         /\ \A k \in Handles :
              FnIn(r.den, r.held[k]) = IF k \in DOMAIN a.roots THEN a.fns[k]
                                       ELSE FnIn(m.den, m.held[k])
<1>0. IsReceived(r, m, s, a)
  BY ReceivedArena
<1>1. /\ r.held = [k \in Handles |-> IF k \in DOMAIN a.roots THEN a.roots[k] ELSE m.held[k]]
      /\ r.buf = [o \in {o \in DOMAIN s.buf : o < End(a)} |-> s.buf[o]]
      /\ \A o \in DOMAIN r.buf : r.den[o] = s.den[o]
  BY <1>0 DEF IsReceived
<1>2. Sound(m) /\ Published(s, a)
  BY DEF Receives
<1>3. /\ a.fns = [k \in DOMAIN a.roots |-> FnIn(s.den, a.roots[k])]
      /\ \A q \in Range(a.roots) \ Terminals : q \in DOMAIN s.buf /\ q < End(a)
  BY <1>2 DEF Published
<1>4. m.held \in [Handles -> Terminals \cup DOMAIN m.buf]
  BY <1>2 DEF Sound
<1>5. ASSUME NEW k \in Handles
      PROVE  /\ r.held[k] \in Terminals \cup DOMAIN r.buf
             /\ FnIn(r.den, r.held[k]) = IF k \in DOMAIN a.roots THEN a.fns[k]
                                         ELSE FnIn(m.den, m.held[k])
  <2>1. CASE k \in DOMAIN a.roots
    <3> DEFINE q == a.roots[k]
    <3>1. q \in Range(a.roots)
      BY <2>1 DEF Range
    <3>2. q \in Terminals \/ (q \in DOMAIN s.buf /\ q < End(a))
      BY <1>3, <3>1
    <3>3. r.held[k] = q /\ a.fns[k] = FnIn(s.den, q)
      BY <1>1, <1>3, <2>1
    <3> HIDE DEF q
    <3>4. q \in Terminals \cup DOMAIN r.buf
      BY <1>1, <3>2
    <3>5. FnIn(r.den, q) = FnIn(s.den, q)
      BY <1>1, <3>4 DEF FnIn, Terminals
    <3> QED
      BY <2>1, <3>3, <3>4, <3>5
  <2>2. CASE k \notin DOMAIN a.roots
    <3>1. r.held[k] = m.held[k] /\ m.held[k] \in Terminals \cup DOMAIN m.buf
      BY <1>1, <1>4, <2>2
    <3>2. /\ m.held[k] \in Terminals \cup DOMAIN r.buf
          /\ FnIn(r.den, m.held[k]) = FnIn(m.den, m.held[k])
      BY <3>1, ReceivedKeeps
    <3> QED
      BY <2>2, <3>1, <3>2
  <2> QED
    BY <2>1, <2>2
<1>6. r.held \in [Handles -> Terminals \cup DOMAIN r.buf]
  BY <1>1, <1>5
<1> QED
  BY <1>5, <1>6

\* The cache of r is right over the references refs.
CacheRight(r, refs) ==
  /\ r.cache \in [0 .. CacheSlots - 1 ->
                  {EmptyEntry} \cup [f : refs, g : refs, h : refs, r : refs]]
  /\ \A i \in DOMAIN r.cache :
       r.cache[i] # EmptyEntry =>
         FnIn(r.den, r.cache[i].r) =
           IteFn(FnIn(r.den, r.cache[i].f), FnIn(r.den, r.cache[i].g),
                 FnIn(r.den, r.cache[i].h))

\* The apply cache stays right: the offsets it names mean what they meant.
LEMMA ReceivedCache ==
  ASSUME NEW m, NEW s, NEW a, Receives(m, s, a), NEW r, r = Received(m, a),
         NEW refs, refs = Terminals \cup DOMAIN r.buf
  PROVE  CacheRight(r, refs)
<1>0. IsReceived(r, m, s, a)
  BY ReceivedArena
<1>1. r.cache = m.cache
  BY <1>0 DEF IsReceived
<1> DEFINE old == Terminals \cup DOMAIN m.buf
<1>2. m.cache \in [0 .. CacheSlots - 1 ->
                   {EmptyEntry} \cup [f : old, g : old, h : old, r : old]]
  BY DEF Receives, Sound
<1>3. \A i \in DOMAIN m.cache :
        m.cache[i] # EmptyEntry =>
          FnIn(m.den, m.cache[i].r) =
            IteFn(FnIn(m.den, m.cache[i].f), FnIn(m.den, m.cache[i].g),
                  FnIn(m.den, m.cache[i].h))
  BY DEF Receives, Sound
<1>4. old \subseteq refs /\ \A q \in old : FnIn(r.den, q) = FnIn(m.den, q)
  BY ReceivedKeeps
<1> HIDE DEF old
<1>5. \A i \in DOMAIN m.cache :
        m.cache[i] # EmptyEntry =>
          /\ m.cache[i] \in [f : old, g : old, h : old, r : old]
          /\ {m.cache[i].f, m.cache[i].g, m.cache[i].h, m.cache[i].r} \subseteq old
  BY <1>2
<1>6. [f : old, g : old, h : old, r : old] \subseteq [f : refs, g : refs, h : refs, r : refs]
  BY <1>4
<1> QED
  BY <1>1, <1>2, <1>3, <1>4, <1>5, <1>6 DEF CacheRight

LEMMA ReceivedIsSound ==
  ASSUME NEW m, NEW s, NEW a, Receives(m, s, a), NEW r, r = Received(m, a)
  PROVE  Sound(r) /\ SameBelow(s, r, End(a)) /\ r.bufLen = End(a) /\ r.baseLen = End(a)
<1>0. IsReceived(r, m, s, a) /\ Sound(s) /\ Sound(m) /\ Published(s, a)
  BY ReceivedArena DEF Receives
<1>1. /\ r.buf = [o \in {o \in DOMAIN s.buf : o < End(a)} |-> s.buf[o]]
      /\ r.den \in [DOMAIN r.buf -> Functions]
      /\ \A o \in DOMAIN r.buf : r.den[o] = s.den[o]
      /\ r.bufLen = End(a) /\ r.baseLen = End(a) /\ r.numVars = m.numVars
      /\ r.cache = m.cache /\ r.cacheLen = m.cacheLen
  BY <1>0 DEF IsReceived
<1>2. /\ s.bufLen \in Nat /\ s.bufLen <= MaxOffset /\ End(a) \in Nat /\ End(a) <= s.bufLen
      /\ End(a) = a.base + a.tailLen /\ a.tailLen \in Nat /\ a.base \in Nat
  BY <1>0, SoundOffsets, TailFacts
<1>3. r.bufLen \in 0 .. MaxOffset /\ r.baseLen \in DOMAIN r.buf \cup {r.bufLen}
  BY <1>1, <1>2, CodecAssumption
<1>4. r.numVars \in 0 .. MaxVars /\ r.cacheLen \in Nat
  BY <1>0, <1>1 DEF Sound
<1>5. r.bufLen > 0 => r.numVars > 0
  <2>1. CASE a.tailLen = 0
    <3>1. m.bufLen = r.bufLen
      BY <1>1, <1>2, <2>1 DEF Receives
    <3> QED
      BY <1>0, <1>1, <3>1 DEF Sound
  <2>2. CASE a.tailLen # 0
    <3>1. 0 \in DOMAIN a.tail
      BY <1>0, <2>2 DEF Published
    <3>2. a.base + 0 \in Stretch(s, a)
      BY <1>0, <3>1, TailFacts
    <3>3. a.base \in DOMAIN s.buf /\ a.base < End(a)
      BY <1>0, <1>2, <3>2, TailFacts
    <3>4. a.base \in DOMAIN r.buf
      BY <1>1, <3>3
    <3>5. r.buf[a.base].var \in Nat /\ r.buf[a.base].var < r.numVars
      BY <1>1, <3>4, ReceivedNodes
    <3> QED
      BY <1>4, <3>5, MaxVarsAssumption
  <2> QED
    BY <2>1, <2>2
<1>6. r.buf \in [DOMAIN r.buf -> RawNodes]
  <2>1. s.buf \in [DOMAIN s.buf -> RawNodes]
    BY <1>0 DEF Sound
  <2> QED
    BY <1>1, <2>1
<1>7. \A o \in DOMAIN r.buf : NodeSound(r, o)
  BY ReceivedNodes
<1>8. \A q, t \in Terminals \cup DOMAIN r.buf : FnIn(r.den, q) = FnIn(r.den, t) => q = t
  <2>1. DOMAIN r.buf \subseteq DOMAIN s.buf
    BY <1>1
  <2>2. \A q \in Terminals \cup DOMAIN r.buf : FnIn(r.den, q) = FnIn(s.den, q)
    BY <1>1 DEF FnIn, Terminals
  <2>3. \A q, t \in Terminals \cup DOMAIN s.buf : FnIn(s.den, q) = FnIn(s.den, t) => q = t
    BY <1>0 DEF Sound
  <2> QED
    BY <2>1, <2>2, <2>3
<1>9. /\ r.unique = [v \in DOMAIN r.unique |-> {o \in DOMAIN r.buf : r.buf[o].var = v}]
      /\ \/ DOMAIN r.unique = 0 .. r.numVars - 1
         \/ r.numVars = 0 /\ DOMAIN r.unique = {0}
  BY ReceivedTable
<1> DEFINE refs == Terminals \cup DOMAIN r.buf
<1>10. CacheRight(r, refs)
  BY ReceivedCache
<1>11. r.held \in [Handles -> refs]
  BY ReceivedHandles
<1>12. Sound(r)
  BY <1>1, <1>3, <1>4, <1>5, <1>6, <1>7, <1>8, <1>9, <1>10, <1>11 DEF Sound, CacheRight
<1>13. SameBelow(s, r, End(a))
  BY <1>1 DEF SameBelow
<1> QED
  BY <1>1, <1>12, <1>13
-----------------------------------------------------------------------------
(* What a step leaves of the arena. *)

\* Below n the arena and its functions stay.
KeptBelow(n) ==
  \A o \in Headers \cup Headers' :
    o < n => /\ o \in Headers \cap Headers'
             /\ buf'[o] = buf[o] /\ den'[o] = den[o]

LEMMA UnchangedKeeps ==
  ASSUME NEW n, UNCHANGED <<buf, den>>
  PROVE  KeptBelow(n)
BY DEF KeptBelow, Headers

LEMMA EncodeKeeps ==
  ASSUME BytesTypeOK, Reduced, NEW v \in 0 .. numVars - 1,
         NEW lo \in Nodes, NEW hi \in Nodes, EncodeNode(v, lo, hi),
         NEW n \in Nat, n <= bufLen
  PROVE  KeptBelow(n) /\ bufLen' >= bufLen /\ Headers' = Headers \cup {bufLen}
<1> PICK e : e = bufLen
  OBVIOUS
<1>1. /\ e \in Nat /\ Headers' = Headers \cup {e} /\ bufLen' \in e + 1 .. MaxOffset
      /\ \A o \in Headers : buf'[o] = buf[o]
      /\ \A r \in Nodes : Den(r)' = Den(r)
  BY EncodeFacts
<1>2. \A o \in Headers : o \notin Terminals /\ o \in Nodes
  BY HeaderType DEF Nodes
<1>3. \A o \in Headers : den'[o] = den[o]
  <2> SUFFICES ASSUME NEW o \in Headers PROVE den'[o] = den[o]
    OBVIOUS
  <2>1. Den(o)' = Den(o)
    BY <1>1, <1>2
  <2> QED
    BY <1>2, <2>1 DEF Den, Terminals
<1>4. bufLen' >= e
  BY <1>1, CodecAssumption
<1> QED
  BY <1>1, <1>3, <1>4 DEF KeptBelow

\* The engine appends and changes nothing it wrote.
LEMMA NextKeeps ==
  ASSUME VarsFit, IInv, Next
  PROVE  /\ KeptBelow(bufLen) /\ bufLen' >= bufLen /\ bufLen \in Nat
         /\ bufLen \in Headers' \cup {bufLen'}
<1>1. BytesTypeOK /\ Reduced /\ bufLen \in Nat
  BY CodecAssumption DEF IInv, ArenaInv, ArenaTypeOK, BytesTypeOK
<1>2. CASE UNCHANGED <<buf, bufLen, den>>
  BY <1>1, <1>2, UnchangedKeeps
<1>3. ASSUME NEW v \in Nat, NEW lo \in Nodes, NEW hi \in Nodes, NEW r,
             ~ MakeNodePanics(v, lo, hi), MakeNode(v, lo, hi, r)
      PROVE  KeptBelow(bufLen) /\ bufLen' >= bufLen /\ bufLen \in Headers' \cup {bufLen'}
  <2>1. CASE UNCHANGED arenaVars
    BY <1>2, <2>1 DEF arenaVars
  <2>2. CASE AppendNode(v, lo, hi)
    <3>1. numVars \in Nat /\ v \in 0 .. numVars - 1
      BY <1>1, <1>3, MaxVarsAssumption DEF MakeNodePanics, BytesTypeOK
    <3> QED
      BY <1>1, <2>2, <3>1, EncodeKeeps DEF AppendNode
  <2> QED
    BY <1>3, <2>1, <2>2 DEF MakeNode
<1>4. CASE \E k \in Handles : CallMakeNode(k)
  <2>1. PICK v \in 0 .. numVars - 1, lo \in Operands, hi \in Operands, r \in Refs :
          ~ MakeNodePanics(v, lo, hi) /\ MakeNode(v, lo, hi, r)
    BY <1>4 DEF CallMakeNode
  <2>2. v \in Nat /\ lo \in Nodes /\ hi \in Nodes
    BY <2>1, OperandsLive DEF IInv
  <2> QED
    BY <1>1, <1>3, <2>1, <2>2
<1>5. CASE IteCombine
  <2> DEFINE c == Head(stack)
             lo == results[2]
             hi == results[1]
  <2>1. /\ stack # <<>>
        /\ stack \in Seq(Frames) /\ results \in Seq(Nodes) /\ c.kind = "combine"
    BY <1>5 DEF IteCombine, IInv, CallTypeOK
  <2>2. CASE Len(results) < 2 \/ MakeNodePanics(c.tv, lo, hi)
    BY <1>2, <1>5, <2>2 DEF IteCombine, arenaVars
  <2>3. CASE ~ (Len(results) < 2 \/ MakeNodePanics(c.tv, lo, hi))
    <3>1. lo \in Nodes /\ hi \in Nodes /\ c.tv \in Nat
      BY <2>1, <2>3, HeadType DEF IInv, Vars
    <3>2. PICK r \in Refs : MakeNode(c.tv, lo, hi, r)
      BY <1>5, <2>3 DEF IteCombine
    <3> HIDE DEF c, lo, hi
    <3> QED
      BY <1>1, <1>3, <2>3, <3>1, <3>2
  <2> QED
    BY <2>2, <2>3
<1>6. CASE NewVar
  BY <1>2, <1>6 DEF NewVar
<1>7. CASE \E k \in Handles : Constant(k) \/ Not(k) \/ And(k) \/ Or(k) \/ Xor(k) \/ Ite(k)
  BY <1>2, <1>7 DEF Constant, Not, And, Or, Xor, Ite, StartIte, arenaVars
<1>8. CASE IteKnown \/ IteBegin \/ IteEnterKnown \/ IteExpand \/ IteReturn
  BY <1>2, <1>8 DEF IteKnown, IteBegin, IteEnterKnown, PopEnter, IteExpand, IteReturn, arenaVars
<1> QED
  BY <1>1, <1>4, <1>5, <1>6, <1>7, <1>8 DEF Next, IteStep

\* A collection changes nothing below its base, and nodes still start at it, or
\* it is the arena's end.
LEMMA GcKeeps ==
  ASSUME GcInv, GcStep
  PROVE  /\ phase # "off" /\ pc = "idle" /\ KeptBelow(base)
         /\ base \in Headers \cup {bufLen} => base \in Headers' \cup {bufLen'}
<1>1. phase # "off"
  BY DEF GcStep, GcRoot, GcEnter, GcExit, Marking, GcTruncate, GcCopy, GcFinish
<1>2. /\ DuringInv /\ BytesTypeOK /\ Reduced
      /\ phase = "copy" => CopyInv
  BY <1>1 DEF GcInv, MarkInv, CopyInv, ArenaInv, ArenaTypeOK
<1>3. base \in Nat /\ base <= bufLen /\ bufLen \in Nat /\ pc = "idle"
  BY <1>2, CodecAssumption DEF DuringInv, BytesTypeOK
<1>4. CASE GcRoot \/ GcEnter \/ GcExit \/ GcFinish
  <2>1. UNCHANGED <<buf, bufLen, den>>
    BY <1>4 DEF GcRoot, GcEnter, GcExit, Marking, GcFinish, vars, arenaVars
  <2> QED
    BY <1>1, <1>3, <2>1, UnchangedKeeps DEF Headers
<1>5. CASE GcTruncate
  <2>1. /\ buf' = [o \in OldNodes |-> buf[o]] /\ den' = [o \in OldNodes |-> den[o]]
        /\ bufLen' = base
    BY <1>5 DEF GcTruncate
  <2> QED
    BY <1>1, <1>3, <2>1 DEF KeptBelow, Headers, OldNodes
<1>6. CASE GcCopy
  <2> PICK n : n = OldNode(Head(postOrder))
    OBVIOUS
  <2> PICK lo : lo = Translate(n.lo)
    OBVIOUS
  <2> PICK hi : hi = Translate(n.hi)
    OBVIOUS
  <2>1. phase = "copy" /\ CopyInv
    BY <1>2, <1>6 DEF GcCopy
  <2>2. postOrder # <<>> /\ EncodeNode(n.var, lo, hi)
    BY <1>2, <1>6, <2>1, GcCopies
  <2>3. lo \in Nodes /\ hi \in Nodes /\ n.var \in 0 .. numVars - 1
    BY <1>2, <2>1, <2>2, CopiedNext
  <2>4. KeptBelow(base) /\ Headers' = Headers \cup {bufLen}
    BY <1>2, <1>3, <2>2, <2>3, EncodeKeeps
  <2> QED
    BY <1>1, <1>3, <2>4
<1> QED
  BY <1>4, <1>5, <1>6 DEF GcStep
-----------------------------------------------------------------------------
(* What the processes share. *)

\* Up to what it recorded, t holds what s held.
SameRecord(s, t) ==
  /\ \A o \in DOMAIN s.buf \cup DOMAIN t.buf : o \in Nat
  /\ s.baseLen \in Nat /\ t.baseLen = s.baseLen
  /\ \A o \in DOMAIN s.buf \cup DOMAIN t.buf :
       o < s.baseLen => /\ o \in DOMAIN s.buf \cap DOMAIN t.buf
                        /\ t.buf[o] = s.buf[o] /\ t.den[o] = s.den[o]

LEMMA PublishedKept ==
  ASSUME NEW s, NEW t, SameRecord(s, t), NEW a, Published(s, a)
  PROVE  Published(t, a) /\ Stretch(t, a) = Stretch(s, a)
<1>1. /\ a.kind \in {"slab", "diff"} /\ (a.kind = "slab" => a.base = 0)
      /\ a.base \in Nat /\ a.tailLen \in Nat /\ End(a) <= s.baseLen
      /\ a.tail = [i \in {o - a.base : o \in Stretch(s, a)} |-> s.buf[a.base + i]]
      /\ a.tailLen = 0 \/ 0 \in DOMAIN a.tail
      /\ DOMAIN a.roots \subseteq Handles
      /\ a.fns = [k \in DOMAIN a.roots |-> FnIn(s.den, a.roots[k])]
      /\ \A r \in Range(a.roots) \ Terminals : r \in DOMAIN s.buf /\ r < End(a)
      /\ \A o \in Stretch(s, a) :
           \/ o \in Range(a.roots)
           \/ \E p \in Stretch(s, a) : o \in {Decode(s.buf, p).lo, Decode(s.buf, p).hi}
  BY DEF Published
<1>2. End(a) \in Nat /\ s.baseLen \in Nat /\ t.baseLen = s.baseLen
  BY <1>1 DEF End, SameRecord
<1>3. \A o \in DOMAIN s.buf \cup DOMAIN t.buf :
        o \in Nat /\ (o < End(a) => /\ o \in DOMAIN s.buf \cap DOMAIN t.buf
                                    /\ t.buf[o] = s.buf[o] /\ t.den[o] = s.den[o])
  BY <1>1, <1>2 DEF SameRecord
<1>4. Stretch(t, a) = Stretch(s, a)
  BY <1>3 DEF Stretch
<1>5. \A o \in Stretch(s, a) :
        o \in Nat /\ t.buf[o] = s.buf[o] /\ Decode(t.buf, o) = Decode(s.buf, o)
  BY <1>3 DEF Stretch, Decode
<1>6. a.tail = [i \in {o - a.base : o \in Stretch(s, a)} |-> t.buf[a.base + i]]
  <2> DEFINE I == {o - a.base : o \in Stretch(s, a)}
  <2>1. ASSUME NEW i \in I PROVE s.buf[a.base + i] = t.buf[a.base + i]
    <3>1. PICK o \in Stretch(s, a) : i = o - a.base
      OBVIOUS
    <3>2. a.base + i = o
      BY <1>1, <1>5, <3>1
    <3> QED
      BY <1>5, <3>2
  <2>2. a.tail = [i \in I |-> s.buf[a.base + i]]
    BY <1>1
  <2> HIDE DEF I
  <2>3. a.tail = [i \in I |-> t.buf[a.base + i]]
    BY <2>1, <2>2
  <2> QED
    BY <2>3 DEF I
<1>7. \A r \in Range(a.roots) \ Terminals : r \in DOMAIN t.buf /\ r < End(a)
  BY <1>1, <1>3
<1>8. ASSUME NEW k \in DOMAIN a.roots PROVE FnIn(s.den, a.roots[k]) = FnIn(t.den, a.roots[k])
  <2>1. a.roots[k] \in Range(a.roots)
    BY DEF Range
  <2>2. a.roots[k] \in Terminals \/ t.den[a.roots[k]] = s.den[a.roots[k]]
    BY <1>1, <1>3, <2>1
  <2> QED
    BY <2>2 DEF FnIn, Terminals
<1>9. a.fns = [k \in DOMAIN a.roots |-> FnIn(t.den, a.roots[k])]
  BY <1>1, <1>8
<1>10. \A o \in Stretch(s, a) :
         \/ o \in Range(a.roots)
         \/ \E p \in Stretch(s, a) : o \in {Decode(t.buf, p).lo, Decode(t.buf, p).hi}
  BY <1>1, <1>5
<1> QED
  BY <1>1, <1>2, <1>4, <1>6, <1>7, <1>9, <1>10 DEF Published

LEMMA SharedRecords ==
  ASSUME NEW s, NEW c, NEW w, Shared(s, c, w), s.baseLen \in Nat
  PROVE  c.baseLen \in Nat /\ c.baseLen <= s.baseLen
<1>1. CASE c.baseLen = 0
  BY <1>1
<1>2. CASE \E a \in Range(w) : c.baseLen = End(a)
  <2>1. PICK a \in Range(w) : c.baseLen = End(a)
    BY <1>2
  <2>2. a.base \in Nat /\ a.tailLen \in Nat /\ End(a) <= s.baseLen
    BY DEF Shared, Published
  <2> QED
    BY <2>1, <2>2 DEF End
<1> QED
  BY <1>1, <1>2 DEF Shared

LEMMA SharedServer ==
  ASSUME NEW s, NEW t, SameRecord(s, t), NEW c, NEW w, Shared(s, c, w)
  PROVE  Shared(t, c, w)
<1>1. /\ \A a \in Range(w) : Published(s, a)
      /\ \A o \in DOMAIN s.buf : o < s.baseLen => \E a \in Range(w) : o \in Stretch(s, a)
      /\ SameBelow(s, c, c.baseLen)
      /\ c.baseLen \in Nat /\ c.baseLen <= s.baseLen /\ s.baseLen \in Nat /\ t.baseLen = s.baseLen
  BY SharedRecords DEF Shared, SameRecord
<1>2. \A a \in Range(w) : Published(t, a) /\ Stretch(t, a) = Stretch(s, a)
  BY <1>1, PublishedKept
<1>3. \A o \in DOMAIN t.buf : o < t.baseLen => \E a \in Range(w) : o \in Stretch(t, a)
  BY <1>1, <1>2 DEF SameRecord
<1>4. SameBelow(t, c, c.baseLen)
  <2> SUFFICES ASSUME NEW o \in DOMAIN t.buf \cup DOMAIN c.buf, o < c.baseLen
               PROVE  o \in DOMAIN t.buf \cap DOMAIN c.buf /\ t.buf[o] = c.buf[o]
    BY DEF SameBelow
  <2>1. o \in DOMAIN s.buf
    <3>1. CASE o \in DOMAIN c.buf
      BY <1>1, <3>1 DEF SameBelow
    <3>2. CASE o \in DOMAIN t.buf
      BY <1>1, <3>2 DEF SameRecord
    <3> QED
      BY <3>1, <3>2
  <2>2. o \in Nat /\ o < s.baseLen
    BY <1>1, <2>1 DEF SameRecord
  <2> QED
    BY <1>1, <2>1, <2>2 DEF SameBelow, SameRecord
<1> QED
  BY <1>1, <1>2, <1>3, <1>4 DEF Shared

\* The client may lose, or receive, what was published.
LEMMA SharedClient ==
  ASSUME NEW s, NEW c, NEW d, NEW w, Shared(s, c, w),
         d.baseLen \in {0} \cup {End(a) : a \in Range(w)}, SameBelow(s, d, d.baseLen)
  PROVE  Shared(s, d, w)
BY DEF Shared

\* What it builds itself is above what it recorded.
LEMMA SharedClientKept ==
  ASSUME NEW s, NEW c, NEW d, SameRecord(c, d), NEW w, Shared(s, c, w)
  PROVE  Shared(s, d, w)
<1>1. d.baseLen = c.baseLen /\ SameBelow(s, c, c.baseLen)
      /\ c.baseLen \in {0} \cup {End(a) : a \in Range(w)}
  BY DEF Shared, SameRecord
<1>2. SameBelow(s, d, d.baseLen)
  BY <1>1 DEF SameBelow, SameRecord
<1> QED
  BY <1>1, <1>2, SharedClient

\* An arena that is at rest may be dropped.
LEMMA SharedNew ==
  ASSUME NEW s, NEW c, NEW w, Shared(s, c, w), \A o \in DOMAIN s.buf : o \in Nat
  PROVE  Shared(s, NewManager, w)
<1>1. NewManager.baseLen = 0 /\ NewManager.buf = <<>> /\ DOMAIN NewManager.buf = {}
  BY DEF NewManager
<1>2. SameBelow(s, NewManager, NewManager.baseLen)
  BY <1>1 DEF SameBelow
<1> QED
  BY <1>1, <1>2, SharedClient
-----------------------------------------------------------------------------
(* Publishing. *)

\* u is w with a at its end.
Longer(u, w, a) ==
  /\ u \in Seq(Range(u)) /\ Range(u) = Range(w) \cup {a} /\ u # <<>>
  /\ Len(w) \in Nat /\ Len(u) = Len(w) + 1 /\ DOMAIN u = 1 .. Len(w) + 1
  /\ DOMAIN w = 1 .. Len(w)
  /\ \A i \in DOMAIN w : u[i] = w[i]
  /\ u[Len(w) + 1] = a
  /\ w = <<>> => Len(w) = 0

LEMMA AppendIsLonger ==
  ASSUME NEW w, w \in Seq(Range(w)), NEW a, NEW u, u = Append(w, a)
  PROVE  Longer(u, w, a)
<1> DEFINE T == Range(w) \cup {a}
<1>1. w \in Seq(T) /\ a \in T
  OBVIOUS
<1>2. /\ u \in Seq(T) /\ Len(u) = Len(w) + 1 /\ Len(w) \in Nat
      /\ DOMAIN u = 1 .. Len(w) + 1 /\ DOMAIN w = 1 .. Len(w)
      /\ \A i \in 1 .. Len(w) : u[i] = w[i]
      /\ u[Len(w) + 1] = a
  <2> HIDE DEF T
  <2> QED
    BY <1>1
<1>3. Range(u) = T
  <2>1. Range(u) \subseteq T
    BY <1>2 DEF Range
  <2>2. Range(w) \subseteq Range(u)
    <3> SUFFICES ASSUME NEW i \in DOMAIN w PROVE w[i] \in Range(u)
      BY DEF Range
    <3>1. i \in DOMAIN u /\ u[i] = w[i]
      BY <1>2
    <3> QED
      BY <3>1 DEF Range
  <2>3. a \in Range(u)
    BY <1>2 DEF Range
  <2> QED
    BY <2>1, <2>2, <2>3
<1>4. u # <<>> /\ (w = <<>> => Len(w) = 0)
  BY <1>2
<1> QED
  BY <1>2, <1>3, <1>4 DEF Longer

\* t is the server s when it has recorded its length, a what it publishes then.
LEMMA SharedPublish ==
  ASSUME NEW s, NEW c, NEW w, Shared(s, c, w), s.baseLen \in Nat, s.baseLen <= s.bufLen,
         s.bufLen \in Nat, \A o \in DOMAIN s.buf : o \in Nat,
         NEW t, t.buf = s.buf, t.den = s.den, t.baseLen = s.bufLen,
         NEW a, Published(t, a), a.base = s.baseLen, End(a) = s.bufLen,
         NEW u, u = Append(w, a)
  PROVE  Shared(t, c, u)
<1>1. /\ w \in Seq(Range(w))
      /\ \A b \in Range(w) : Published(s, b)
      /\ \A i, j \in DOMAIN w : i < j => End(w[i]) <= w[j].base
      /\ \A o \in DOMAIN s.buf :
           o < s.baseLen => \E b \in Range(w) : o \in Stretch(s, b)
      /\ IF w = <<>> THEN s.baseLen = 0
         ELSE w[1].base = 0 /\ End(w[Len(w)]) = s.baseLen
      /\ c.baseLen \in {0} \cup {End(b) : b \in Range(w)}
      /\ SameBelow(s, c, c.baseLen)
  BY DEF Shared
<1>0. Longer(u, w, a)
  BY <1>1, AppendIsLonger
<1>2. /\ u \in Seq(Range(u)) /\ Range(u) = Range(w) \cup {a} /\ u # <<>>
      /\ Len(w) \in Nat /\ Len(u) = Len(w) + 1 /\ DOMAIN u = 1 .. Len(w) + 1
      /\ DOMAIN w = 1 .. Len(w)
      /\ \A i \in DOMAIN w : u[i] = w[i]
      /\ u[Len(w) + 1] = a
      /\ w = <<>> => Len(w) = 0
  BY <1>0 DEF Longer
<1>3. ASSUME NEW b \in Range(w)
      PROVE  Published(t, b) /\ Stretch(t, b) = Stretch(s, b) /\ End(b) <= s.baseLen
  <2>0. Published(s, b)
    BY <1>1
  <2>1. Published(s, b) /\ End(b) <= s.baseLen /\ End(b) \in Nat
    BY <2>0 DEF Published, End
  <2>2. Stretch(t, b) = Stretch(s, b) /\ End(b) <= t.baseLen
    BY <2>1 DEF Stretch
  <2> QED
    BY <2>1, <2>2 DEF Published
<1>4. \A b \in Range(u) : Published(t, b)
  BY <1>2, <1>3
<1>5. ASSUME NEW i \in DOMAIN u, NEW j \in DOMAIN u, i < j
      PROVE  End(u[i]) <= u[j].base
  <2>1. i \in DOMAIN w /\ u[i] = w[i] /\ w[i] \in Range(w)
    BY <1>2, <1>5 DEF Range
  <2>2. CASE j \in DOMAIN w
    BY <1>1, <1>2, <1>5, <2>1, <2>2
  <2>3. CASE j = Len(w) + 1
    BY <1>2, <1>3, <2>1, <2>3
  <2> QED
    BY <1>2, <2>2, <2>3
<1>6. ASSUME NEW o \in DOMAIN t.buf, o < t.baseLen
      PROVE  \E b \in Range(u) : o \in Stretch(t, b)
  <2>1. CASE o < s.baseLen
    BY <1>1, <1>2, <1>3, <2>1
  <2>2. CASE ~ (o < s.baseLen)
    <3>1. o \in Stretch(t, a)
      BY <1>6, <2>2 DEF Stretch
    <3> QED
      BY <1>2, <3>1
  <2> QED
    BY <2>1, <2>2
<1>7. u[1].base = 0 /\ End(u[Len(u)]) = t.baseLen
  <2>1. End(u[Len(u)]) = t.baseLen
    BY <1>2
  <2>2. CASE w = <<>>
    BY <1>1, <1>2, <2>2
  <2>3. CASE w # <<>>
    <3>1. 1 \in DOMAIN w
      BY <1>1, <1>2, <2>3
    <3> QED
      BY <1>1, <1>2, <2>1, <2>3, <3>1
  <2> QED
    BY <2>1, <2>2, <2>3
<1>8. c.baseLen \in {0} \cup {End(b) : b \in Range(u)} /\ SameBelow(t, c, c.baseLen)
  BY <1>1, <1>2 DEF SameBelow
<1> QED
  BY <1>2, <1>4, <1>5, <1>6, <1>7, <1>8 DEF Shared

\* The publication of an engine whose tail is clean.
LEMMA PublishedTail ==
  ASSUME phase = "off", BetweenInv, EmitInv, emit # NoEmit,
         baseLen \in Headers \cup {bufLen}, wire = <<>> => baseLen = 0,
         NEW t, t.buf = buf, t.den = den, t.baseLen = bufLen,
         NEW a,
         a = [kind |-> emit.kind, base |-> emit.base, tail |-> TailBytes(emit.base),
              tailLen |-> bufLen - emit.base,
              roots |-> [k \in emit.keys |-> held[k]], fns |-> emit.fns]
  PROVE  Published(t, a) /\ a.base = baseLen /\ End(a) = bufLen
<1>1. /\ emit.kind = IF wire = <<>> THEN "slab" ELSE "diff"
      /\ emit.base = baseLen
      /\ emit.keys \subseteq Handles
      /\ emit.fns = [k \in emit.keys |-> HeldFns[k]]
      /\ \A o \in YoungNodes(baseLen) :
           \/ \E k \in emit.keys : held[k] = o
           \/ \E p \in YoungNodes(baseLen) : o \in Children(p)
  BY DEF EmitInv
<1>2. /\ BytesTypeOK /\ Reduced /\ held \in [Handles -> Nodes]
      /\ bufLen \in Nat
  BY CodecAssumption DEF BetweenInv, IInv, ArenaInv, ArenaTypeOK, BytesTypeOK, CallTypeOK
<1>3. \A o \in Headers : o \in Nat /\ o < bufLen /\ o \notin Terminals
  BY <1>2, HeaderType
<1>4. baseLen \in Nat /\ baseLen <= bufLen
  BY <1>2, <1>3
<1>5. /\ a.kind = emit.kind /\ a.base = baseLen /\ a.tailLen = bufLen - baseLen
      /\ a.tail = TailBytes(baseLen) /\ a.roots = [k \in emit.keys |-> held[k]]
      /\ a.fns = emit.fns
  BY <1>1
<1>6. End(a) = bufLen
  BY <1>2, <1>4, <1>5 DEF End
<1>7. Stretch(t, a) = YoungNodes(baseLen)
  BY <1>3, <1>4, <1>5, <1>6 DEF Stretch, YoungNodes, Headers
<1>8. a.tail = [i \in {o - a.base : o \in Stretch(t, a)} |-> t.buf[a.base + i]]
  <2>1. a.tail = [i \in {o - baseLen : o \in YoungNodes(baseLen)} |-> buf[baseLen + i]]
    BY <1>5 DEF TailBytes
  <2>2. {o - a.base : o \in Stretch(t, a)} = {o - baseLen : o \in YoungNodes(baseLen)}
    BY <1>5, <1>7
  <2> QED
    BY <1>5, <2>1, <2>2
<1>9. a.tailLen = 0 \/ 0 \in DOMAIN a.tail
  <2>1. CASE baseLen = bufLen
    BY <1>2, <1>5, <2>1
  <2>2. CASE baseLen \in Headers
    <3>1. baseLen \in YoungNodes(baseLen) /\ baseLen - baseLen = 0
      BY <1>4, <2>2 DEF YoungNodes
    <3> QED
      BY <1>5, <3>1 DEF TailBytes
  <2> QED
    BY <2>1, <2>2
<1>10. DOMAIN a.roots = emit.keys /\ \A k \in emit.keys : a.roots[k] = held[k]
  BY <1>5
<1>11. a.fns = [k \in DOMAIN a.roots |-> FnIn(t.den, a.roots[k])]
  <2>1. \A k \in emit.keys : HeldFns[k] = FnIn(den, held[k])
    BY <1>1 DEF HeldFns, FnIn, Den
  <2> QED
    BY <1>1, <1>5, <1>10, <2>1
<1>12. \A r \in Range(a.roots) \ Terminals : r \in DOMAIN t.buf /\ r < End(a)
  BY <1>1, <1>2, <1>3, <1>6, <1>10 DEF Range, Nodes, Headers
<1>13. \A o \in Stretch(t, a) :
         \/ o \in Range(a.roots)
         \/ \E p \in Stretch(t, a) : o \in {Decode(t.buf, p).lo, Decode(t.buf, p).hi}
  <2> SUFFICES ASSUME NEW o \in YoungNodes(baseLen)
               PROVE  \/ o \in Range(a.roots)
                      \/ \E p \in YoungNodes(baseLen) :
                           o \in {Decode(t.buf, p).lo, Decode(t.buf, p).hi}
    BY <1>7
  <2>1. CASE \E k \in emit.keys : held[k] = o
    BY <1>10, <2>1 DEF Range
  <2>2. CASE \E p \in YoungNodes(baseLen) : o \in Children(p)
    BY <2>2 DEF Children, Node
  <2> QED
    BY <1>1, <2>1, <2>2
<1>14. a.kind \in {"slab", "diff"} /\ (a.kind = "slab" => a.base = 0)
  BY <1>1, <1>5
<1>15. a.base \in Nat /\ a.tailLen \in Nat /\ End(a) <= t.baseLen /\ DOMAIN a.roots \subseteq Handles
  BY <1>1, <1>2, <1>4, <1>5, <1>6, <1>10
<1> QED
  BY <1>5, <1>6, <1>8, <1>9, <1>11, <1>12, <1>13, <1>14, <1>15 DEF Published
-----------------------------------------------------------------------------
(* The inductive invariant, one kind of step at a time. *)

\* Between two calls nothing is under way, and the engine that runs is sound.
LEMMA AtRest ==
  ASSUME LineageInv, phase = "off", pc = "idle"
  PROVE  /\ BetweenInv /\ call = NoCall /\ stack = <<>> /\ results = <<>>
         /\ gcStack = <<>> /\ remap = <<>> /\ postOrder = <<>>
         /\ Sound(Current) /\ Sound(other)
<1>1. BetweenInv /\ baseLen \in Headers \cup {bufLen} /\ Sound(other)
  BY DEF LineageInv, GcInv
<1>2. /\ call = NoCall /\ stack = <<>> /\ results = <<>>
      /\ gcStack = <<>> /\ remap = <<>> /\ postOrder = <<>>
  BY <1>1 DEF BetweenInv, IteInv, OnItsWay
<1> QED
  BY <1>1, <1>2, RestIsSound

\* The server's and the client's managers are sound between two calls.
LEMMA BothSound ==
  ASSUME LineageInv, phase = "off", pc = "idle"
  PROVE  Sound(Server) /\ Sound(Client)
BY AtRest DEF LineageInv, Server, Client

\* A sound manager takes its turn, or takes the place of the one that has it.
LEMMA TurnTaken ==
  ASSUME LineageInv, Resting, NEW m, Sound(m), Run(m),
         UNCHANGED <<gcVars, loopVars, emit>>
  PROVE  /\ GcInv' /\ EmitInv' /\ baseLen' \in Headers' \cup {bufLen'}
         /\ SameRecord(m, Current')
<1>1. /\ BetweenInv /\ call = NoCall /\ stack = <<>> /\ results = <<>>
      /\ gcStack = <<>> /\ remap = <<>> /\ postOrder = <<>>
      /\ phase = "off" /\ pc = "idle" /\ emit = NoEmit
  BY AtRest DEF Resting
<1>2. BetweenInv' /\ baseLen' \in Headers' \cup {bufLen'}
  BY <1>1, SoundRuns DEF loopVars, gcVars
<1>3. GcInv' /\ EmitInv'
  BY <1>1, <1>2 DEF GcInv, EmitInv, gcVars
<1>4. /\ \A o \in DOMAIN m.buf : o \in Nat
      /\ m.baseLen \in Nat
  BY SoundOffsets
<1>5. Current'.buf = m.buf /\ Current'.den = m.den /\ Current'.baseLen = m.baseLen
  BY DEF Run, Current
<1>6. SameRecord(m, Current')
  BY <1>4, <1>5 DEF SameRecord
<1> QED
  BY <1>2, <1>3, <1>6

LEMMA SwitchInv ==
  ASSUME LineageInv, Switch
  PROVE  LineageInv'
<1>1. /\ Resting /\ Run(other) /\ other' = Current /\ UNCHANGED <<gcVars, loopVars, wire, emit>>
      /\ who' = IF who = "server" THEN "client" ELSE "server"
      /\ who \in {"server", "client"} /\ WireInv
  BY DEF Switch, LineageInv
<1>2. Sound(Current) /\ Sound(other)
  BY <1>1, AtRest DEF Resting
<1>3. /\ GcInv' /\ EmitInv' /\ baseLen' \in Headers' \cup {bufLen'}
      /\ SameRecord(other, Current')
  BY <1>1, <1>2, TurnTaken
<1>4. Sound(other)'
  BY <1>1, <1>2
<1>5. WireInv'
  <2>1. CASE who = "server"
    <3>1. Shared(Current, other, wire)
      BY <1>1, <2>1 DEF WireInv, Server, Client
    <3>2. Shared(Current, Current', wire)
      BY <1>3, <3>1, SharedClientKept
    <3> QED
      BY <1>1, <2>1, <3>2 DEF WireInv, Server, Client
  <2>2. CASE who = "client"
    <3>1. Shared(other, Current, wire)
      BY <1>1, <2>2 DEF WireInv, Server, Client
    <3>2. Shared(Current', Current, wire)
      BY <1>3, <3>1, SharedServer
    <3> QED
      BY <1>1, <2>2, <3>2 DEF WireInv, Server, Client
  <2> QED
    BY <1>1, <2>1, <2>2
<1> QED
  BY <1>1, <1>3, <1>4, <1>5 DEF LineageInv

\* The client becomes the sound manager m.
LEMMA ClientTurn ==
  ASSUME LineageInv, Resting, who = "client", NEW m, Sound(m), Run(m),
         UNCHANGED <<gcVars, loopVars, wire, emit, who, other>>,
         Shared(other, m, wire)
  PROVE  LineageInv'
<1>1. /\ GcInv' /\ EmitInv' /\ baseLen' \in Headers' \cup {bufLen'}
      /\ SameRecord(m, Current')
  BY TurnTaken
<1>2. Shared(other, Current', wire)
  BY <1>1, SharedClientKept
<1>3. WireInv'
  BY <1>2 DEF WireInv, Server, Client
<1> QED
  BY <1>1, <1>3 DEF LineageInv

LEMMA RestartInv ==
  ASSUME LineageInv, Resting, who = "client", Run(NewManager),
         UNCHANGED <<gcVars, loopVars, wire, emit, who, other>>
  PROVE  LineageInv'
<1>1. Sound(NewManager)
  BY EmptyIsSound, MaxVarsAssumption
<1>2. Shared(other, Current, wire) /\ \A o \in DOMAIN other.buf : o \in Nat
  BY SoundOffsets DEF LineageInv, WireInv, Server, Client
<1>3. Shared(other, NewManager, wire)
  BY <1>2, SharedNew
<1> QED
  BY <1>1, <1>3, ClientTurn

\* The client may receive a where its arena ends where a begins.
LEMMA ClientReceives ==
  ASSUME LineageInv, Resting, who = "client", NEW a \in Range(wire), Declared(a),
         bufLen = a.base, bufLen = baseLen \/ bufLen = 0
  PROVE  Receives(Current, other, a)
<1>1. Sound(Current) /\ Sound(other) /\ Shared(other, Current, wire)
  BY AtRest DEF Resting, LineageInv, WireInv, Server, Client
<1>2. Published(other, a)
  BY <1>1 DEF Shared
<1>3. Current.buf = buf /\ Current.bufLen = bufLen /\ Current.baseLen = baseLen
      /\ Current.numVars = numVars
  BY DEF Current
<1>4. SameBelow(other, Current, bufLen)
  <2>1. CASE bufLen = baseLen
    BY <1>1, <1>3, <2>1 DEF Shared
  <2>2. CASE bufLen = 0
    <3>1. \A o \in DOMAIN other.buf \cup DOMAIN Current.buf : o \in Nat
      BY <1>1, SoundOffsets
    <3> QED
      BY <2>2, <3>1 DEF SameBelow
  <2> QED
    BY <2>1, <2>2
<1> QED
  BY <1>1, <1>2, <1>3, <1>4 DEF Receives, Declared

LEMMA ReceiveInv ==
  ASSUME LineageInv, Resting, who = "client", NEW a \in Range(wire), Declared(a),
         bufLen = a.base, bufLen = baseLen \/ bufLen = 0, Receive(a),
         UNCHANGED <<gcVars, loopVars, wire, emit, who, other>>
  PROVE  LineageInv'
<1> PICK r : r = Received(Current, a)
  OBVIOUS
<1>1. Receives(Current, other, a)
  BY ClientReceives
<1>2. Sound(r) /\ SameBelow(other, r, End(a)) /\ r.baseLen = End(a)
  BY <1>1, ReceivedIsSound
<1>3. Shared(other, Current, wire)
  BY DEF LineageInv, WireInv, Server, Client
<1>4. Shared(other, r, wire)
  BY <1>2, <1>3, SharedClient
<1>5. Run(r)
  BY DEF Receive
<1> QED
  BY <1>2, <1>4, <1>5, ClientTurn

\* What the client does with a publication: it receives it, or refuses it.
LEMMA IngestCases ==
  ASSUME NEW a, IngestSlab(a) \/ (bufLen = baseLen /\ ApplyDiff(a)),
         a.kind = "slab" => a.base = 0
  PROVE  /\ Resting /\ UNCHANGED <<gcVars, loopVars, wire, emit, who, other>>
         /\ \/ bufLen = a.base /\ (bufLen = baseLen \/ bufLen = 0) /\ Receive(a)
            \/ Run(NewManager)
BY DEF IngestSlab, ApplyDiff, Abort

LEMMA IngestInv ==
  ASSUME LineageInv, who = "client", NEW a \in Range(wire), Declared(a),
         IngestSlab(a) \/ (bufLen = baseLen /\ ApplyDiff(a))
  PROVE  LineageInv'
<1>1. a.kind = "slab" => a.base = 0
  BY DEF LineageInv, WireInv, Shared, Published
<1> QED
  BY <1>1, IngestCases, ReceiveInv, RestartInv

\* extend_slab's new manager may receive the one slab there is, which is all the
\* server recorded.
LEMMA ExtendReceives ==
  ASSUME LineageInv, Resting, who = "server", Len(wire) = 1,
         NEW a, a = wire[1], NEW m, m = Declaring(ScanMaxVar(a))
  PROVE  /\ Receives(m, Current, a) /\ a \in Range(wire)
         /\ End(a) = Current.baseLen /\ m.numVars \in 0 .. MaxVars
<1>1. Sound(Current) /\ Shared(Current, other, wire)
  BY AtRest DEF Resting, LineageInv, WireInv, Server, Client
<1>2. wire # <<>> /\ DOMAIN wire = 1 .. 1
  <2> PICK T : T = Range(wire)
    OBVIOUS
  <2>1. wire \in Seq(T)
    BY <1>1 DEF Shared
  <2> QED
    BY <2>1
<1>3. a \in Range(wire)
  BY <1>2 DEF Range
<1>4. Published(Current, a) /\ a.base = 0 /\ End(a) = Current.baseLen
  BY <1>1, <1>2, <1>3 DEF Shared
<1>5. ScanMaxVar(a) \in 0 .. MaxVars
  BY <1>1, <1>4, ScanCovers
<1>6. Sound(m) /\ m.bufLen = 0 /\ m.buf = <<>> /\ m.numVars = ScanMaxVar(a)
  BY <1>5, EmptyIsSound DEF Declaring, NewManager
<1>7. SameBelow(Current, m, 0)
  <2>1. \A o \in DOMAIN Current.buf \cup DOMAIN m.buf : o \in Nat
    BY <1>1, <1>6, SoundOffsets
  <2> QED
    BY <2>1 DEF SameBelow
<1>8. Receives(m, Current, a)
  BY <1>1, <1>4, <1>5, <1>6, <1>7, MaxVarsAssumption DEF Receives
<1> QED
  BY <1>3, <1>4, <1>5, <1>6, <1>8

LEMMA ExtendInv ==
  ASSUME LineageInv, who = "server", Len(wire) = 1, ExtendSlab(wire[1])
  PROVE  LineageInv'
<1> PICK a : a = wire[1]
  OBVIOUS
<1> PICK m : m = Declaring(ScanMaxVar(a))
  OBVIOUS
<1> PICK r : r = Received(m, a)
  OBVIOUS
<1>1. Resting /\ Run(r) /\ UNCHANGED <<gcVars, loopVars, wire, emit, who, other>>
  BY DEF ExtendSlab
<1>2. Sound(Current) /\ Sound(other) /\ Shared(Current, other, wire)
  BY <1>1, AtRest DEF Resting, LineageInv, WireInv, Server, Client
<1>3. Receives(m, Current, a) /\ a \in Range(wire) /\ End(a) = Current.baseLen
  BY <1>1, ExtendReceives
<1>4. Sound(r) /\ SameBelow(Current, r, End(a)) /\ r.baseLen = End(a)
  BY <1>3, ReceivedIsSound
<1>5. End(a) \in Nat
  BY <1>2, <1>3, SoundOffsets
<1>6. \A o \in DOMAIN r.buf :
        o < End(a) => /\ o \in DOMAIN Current.buf /\ Current.buf[o] = r.buf[o]
                      /\ Current.den[o] = r.den[o]
  BY <1>2, <1>4, <1>5, SameMeans
<1>7. \A o \in DOMAIN Current.buf \cup DOMAIN r.buf : o \in Nat
  BY <1>2, <1>4, SoundOffsets
<1>8. SameRecord(Current, r)
  <2>1. \A o \in DOMAIN Current.buf \cup DOMAIN r.buf : o < End(a) => o \in DOMAIN r.buf
    BY <1>4 DEF SameBelow
  <2> QED
    BY <1>3, <1>4, <1>5, <1>6, <1>7, <2>1 DEF SameRecord
<1>9. /\ GcInv' /\ EmitInv' /\ baseLen' \in Headers' \cup {bufLen'}
      /\ SameRecord(r, Current')
  BY <1>1, <1>4, TurnTaken
<1>10. Shared(Current', other, wire)
  BY <1>2, <1>8, <1>9, SharedServer
<1>11. WireInv'
  BY <1>1, <1>10 DEF WireInv, Server, Client
<1> QED
  BY <1>1, <1>2, <1>9, <1>11 DEF LineageInv

LEMMA PublishInv ==
  ASSUME VarsFit, LineageInv, Publish
  PROVE  LineageInv'
<1> PICK a : a = [kind |-> emit.kind, base |-> emit.base, tail |-> TailBytes(emit.base),
                  tailLen |-> bufLen - emit.base,
                  roots |-> [k \in emit.keys |-> held[k]], fns |-> emit.fns]
  OBVIOUS
<1>1. /\ phase = "off" /\ emit # NoEmit /\ wire' = Append(wire, a) /\ baseLen' = bufLen
      /\ emit' = NoEmit /\ UNCHANGED <<allVars, who, other>>
  BY DEF Publish
<1>2. who = "server" /\ pc = "idle"
  BY <1>1 DEF LineageInv, EmitInv
<1>3. BetweenInv /\ Sound(Current) /\ Sound(other) /\ Shared(Current, other, wire)
  BY <1>1, <1>2, AtRest DEF LineageInv, WireInv, Server, Client
<1>4. Current.baseLen = baseLen /\ Current.bufLen = bufLen /\ Current.buf = buf /\ Current.den = den
  BY DEF Current
<1>5. Current'.buf = buf /\ Current'.den = den /\ Current'.baseLen = bufLen
  BY <1>1 DEF Current, allVars, vars, arenaVars
<1>6. wire = <<>> => baseLen = 0
  BY <1>3, <1>4 DEF Shared
<1>7. Published(Current', a) /\ a.base = baseLen /\ End(a) = bufLen
  BY <1>1, <1>3, <1>5, <1>6, PublishedTail DEF LineageInv
<1>8. /\ bufLen \in Nat /\ baseLen \in Nat /\ baseLen <= bufLen
      /\ \A o \in DOMAIN buf : o \in Nat
  BY <1>3, <1>4, SoundOffsets
<1>9. Shared(Current', other, wire')
  BY <1>1, <1>3, <1>4, <1>5, <1>7, <1>8, SharedPublish
<1>10. WireInv'
  BY <1>1, <1>2, <1>9 DEF WireInv, Server, Client
<1>11. GcInv' /\ phase' = "off"
  BY <1>1, GcStutterInv DEF LineageInv, allVars, gcVars
<1>12. EmitInv'
  BY <1>1, <1>11 DEF EmitInv
<1>13. baseLen' \in Headers' \cup {bufLen'}
  BY <1>1 DEF allVars, vars, arenaVars
<1> QED
  BY <1>1, <1>2, <1>3, <1>10, <1>11, <1>12, <1>13 DEF LineageInv

\* The manager's own API builds above what was recorded.
LEMMA WorkInv ==
  ASSUME VarsFit, LineageInv, Work
  PROVE  LineageInv'
<1>1. /\ phase = "off" /\ emit = NoEmit /\ Next
      /\ UNCHANGED <<gcVars, wire, baseLen, emit, who, other>>
  BY DEF Work
<1>2. BetweenInv /\ IInv /\ baseLen \in Headers \cup {bufLen}
  BY <1>1 DEF LineageInv, GcInv, BetweenInv
<1>3. BetweenInv' /\ IInv'
  BY <1>1, <1>2, NextBetween DEF BetweenInv
<1>4. /\ KeptBelow(bufLen) /\ bufLen' >= bufLen /\ bufLen \in Nat
      /\ bufLen \in Headers' \cup {bufLen'}
  BY <1>1, <1>2, NextKeeps
<1>5. \A o \in Headers : o \in Nat /\ o < bufLen
  BY <1>2, HeaderType DEF IInv, ArenaInv, ArenaTypeOK
<1>6. \A o \in Headers' : o \in Nat
  <2>1. BytesTypeOK'
    BY <1>3 DEF IInv, ArenaInv, ArenaTypeOK
  <2> PICK n : n = bufLen'
    OBVIOUS
  <2>2. n \in 0 .. MaxOffset /\ Headers' \subseteq 0 .. n - 1
    BY <2>1 DEF BytesTypeOK
  <2> SUFFICES ASSUME NEW o \in Headers' PROVE o \in Nat
    OBVIOUS
  <2>3. n \in Nat
    BY <2>2, CodecAssumption
  <2>4. o \in 0 .. n - 1
    BY <2>2
  <2> QED
    BY <2>3, <2>4
<1>7. baseLen' \in Headers' \cup {bufLen'}
  BY <1>1, <1>2, <1>4, <1>5 DEF KeptBelow
<1>8. SameRecord(Current, Current')
  <2>1. baseLen \in Nat /\ baseLen <= bufLen
    BY <1>2, <1>4, <1>5
  <2>2. ASSUME NEW o \in Headers \cup Headers', o < baseLen PROVE o < bufLen
    <3>1. o \in Nat /\ bufLen \in Nat
      BY <1>4, <1>5, <1>6
    <3> QED
      BY <2>1, <2>2, <3>1
  <2>3. \A o \in Headers \cup Headers' :
          o < baseLen => o \in Headers \cap Headers' /\ buf'[o] = buf[o] /\ den'[o] = den[o]
    BY <1>4, <2>2 DEF KeptBelow
  <2> QED
    BY <1>1, <1>5, <1>6, <2>1, <2>3 DEF SameRecord, Current, Headers
<1>9. WireInv'
  <2>1. CASE who = "server"
    <3>1. Shared(Current', other, wire)
      BY <1>8, <2>1, SharedServer DEF LineageInv, WireInv, Server, Client
    <3> QED
      BY <1>1, <2>1, <3>1 DEF WireInv, Server, Client
  <2>2. CASE who = "client"
    <3>1. Shared(other, Current', wire)
      BY <1>8, <2>2, SharedClientKept DEF LineageInv, WireInv, Server, Client
    <3> QED
      BY <1>1, <2>2, <3>1 DEF WireInv, Server, Client
  <2> QED
    BY <2>1, <2>2 DEF LineageInv
<1>10. GcInv' /\ EmitInv'
  BY <1>1, <1>3 DEF GcInv, EmitInv, gcVars
<1>11. Sound(other)' /\ who' \in {"server", "client"}
  BY <1>1 DEF LineageInv
<1> QED
  BY <1>7, <1>9, <1>10, <1>11 DEF LineageInv

\* The roots a collection is given are the handles asked for.
LEMMA RootsOfSet ==
  ASSUME NEW S \in SUBSET Handles, NEW roots \in SetToSeqs(S)
  PROVE  roots \in Seq(Handles) /\ Range(roots) = S
<1> PICK n : n = Cardinality(S)
  OBVIOUS
<1>1. IsFiniteSet(S) /\ n \in Nat
  BY CollectorAssumption, FS_Subset, FS_CardinalityType
<1>2. roots \in [1 .. n -> S] /\ \A i, j \in 1 .. n : i # j => roots[i] # roots[j]
  BY DEF SetToSeqs
<1>3. roots \in Injection(1 .. n, S)
  BY <1>2 DEF Injection, IsInjective
<1>4. Cardinality(1 .. n) = n
  BY <1>1, FS_Interval
<1>5. roots \in Surjection(1 .. n, S)
  BY <1>1, <1>3, <1>4, FS_Injection
<1>6. \A k \in S : \E i \in 1 .. n : roots[i] = k
  BY <1>5 DEF Surjection
<1>7. Range(roots) = S
  BY <1>2, <1>6 DEF Range
<1>8. roots \in [1 .. n -> Handles]
  BY <1>2
<1> QED
  BY <1>1, <1>7, <1>8, IsASeq

\* What the caller recorded is no more than there is.
LEMMA RecordInArena ==
  ASSUME LineageInv, Resting
  PROVE  bufLen \in Nat /\ baseLen \in 0 .. bufLen
<1>1. Sound(Current)
  BY AtRest DEF Resting
<1>2. Current.baseLen = baseLen /\ Current.bufLen = bufLen
  BY DEF Current
<1> QED
  BY <1>1, <1>2, SoundOffsets

\* slab_for and diff_since begin with a collection above what was recorded.
LEMMA EmitBegins ==
  ASSUME VarsFit, LineageInv, Resting, who = "server",
         NEW S \in SUBSET Handles, NEW roots \in SetToSeqs(S), Gc(baseLen, roots),
         NEW kind, kind = IF wire = <<>> THEN "slab" ELSE "diff",
         Emit(kind, baseLen, S), UNCHANGED <<wire, baseLen, who, other>>
  PROVE  LineageInv'
<1>1. /\ BetweenInv /\ phase = "off" /\ pc = "idle" /\ emit = NoEmit
      /\ baseLen \in Headers \cup {bufLen} /\ Sound(Current)
  BY AtRest DEF Resting, LineageInv
<1>2. roots \in Seq(Handles) /\ Range(roots) = S
  BY RootsOfSet
<1>3. bufLen \in Nat /\ baseLen \in 0 .. bufLen
  BY RecordInArena
<1>4. GcInv'
  BY <1>1, <1>2, <1>3, GcBegins
<1>5. /\ UNCHANGED vars
      /\ IF baseLen = bufLen THEN UNCHANGED gcVars
         ELSE phase' = "mark" /\ base' = baseLen /\ keep' = roots /\ oldDen' = den
  <2>1. /\ UNCHANGED vars
        /\ \/ baseLen = bufLen /\ UNCHANGED gcVars
           \/ baseLen < bufLen /\ GcBegin(baseLen, roots)
    BY <1>3, GcInArena
  <2>2. baseLen = bufLen => ~ baseLen < bufLen
    BY <1>3
  <2> QED
    BY <2>1, <2>2 DEF GcBegin
<1>6. UNCHANGED <<buf, bufLen, den, unique, numVars, cache, cacheLen, held, pc>>
  BY <1>5 DEF vars, arenaVars, cacheVars, loopVars
<1>7. \A r : Den(r)' = Den(r)
  BY <1>6 DEF Den
<1>8. \A k \in S : Den(held[k]) = HeldFns'[k]
  <2> SUFFICES ASSUME NEW k \in S PROVE Den(held[k]) = HeldFns'[k]
    OBVIOUS
  <2>1. HeldFns'[k] = IF phase' # "off" /\ IsNode(held[k]) THEN oldDen'[held[k]]
                      ELSE Den(held[k])
    BY <1>6, <1>7 DEF HeldFns, IsNode
  <2>2. phase' = "off" \/ oldDen' = den
    BY <1>1, <1>5 DEF gcVars
  <2>3. IsNode(held[k]) => Den(held[k]) = den[held[k]]
    BY DEF IsNode, Den, Terminals
  <2> QED
    BY <2>1, <2>2, <2>3
<1>9. /\ emit'.kind = kind /\ emit'.base = baseLen /\ emit'.keys = S /\ emit' # NoEmit
      /\ emit'.fns = [k \in S |-> Den(held[k])]
  BY DEF Emit, NoEmit
<1>10. emit'.fns = [k \in emit'.keys |-> HeldFns'[k]]
  BY <1>8, <1>9
<1>11. IF phase' # "off"
       THEN base' = baseLen' /\ Range(keep') = emit'.keys
       ELSE \A o \in YoungNodes(baseLen)' :
              \/ \E k \in emit'.keys : held'[k] = o
              \/ \E p \in YoungNodes(baseLen)' : o \in Children(p)'
  <2>1. CASE baseLen = bufLen
    <3>1. \A o \in Headers : o \in Nat /\ o < bufLen
      BY <1>1, HeaderType DEF BetweenInv, IInv, ArenaInv, ArenaTypeOK
    <3>2. YoungNodes(baseLen)' = {}
      BY <1>3, <1>6, <2>1, <3>1 DEF YoungNodes, Headers
    <3> QED
      BY <1>1, <1>5, <2>1, <3>2 DEF gcVars
  <2>2. CASE baseLen # bufLen
    BY <1>2, <1>5, <1>9, <2>2
  <2> QED
    BY <2>1, <2>2
<1>12. EmitInv'
  BY <1>1, <1>6, <1>9, <1>10, <1>11 DEF EmitInv
<1>13. WireInv'
  BY <1>6 DEF LineageInv, WireInv, Server, Client, Current
<1>14. baseLen' \in Headers' \cup {bufLen'}
  BY <1>1, <1>6 DEF Headers
<1>15. Sound(other)' /\ who' \in {"server", "client"}
  BY DEF LineageInv
<1> QED
  BY <1>4, <1>12, <1>13, <1>14, <1>15 DEF LineageInv

LEMMA EmitStepInv ==
  ASSUME VarsFit, LineageInv, who = "server", NEW S \in SUBSET Handles,
         IF wire = <<>> THEN SlabFor(S) ELSE DiffSince(baseLen, S)
  PROVE  LineageInv'
<1>1. CASE wire = <<>>
  <2>1. /\ Resting /\ Emit("slab", 0, S) /\ UNCHANGED <<wire, baseLen, who, other>>
        /\ \E roots \in SetToSeqs(S) : Gc(0, roots)
    BY <1>1 DEF SlabFor, DropRoots
  <2>2. baseLen = 0
    BY <1>1 DEF LineageInv, WireInv, Shared, Server, Current
  <2> QED
    BY <1>1, <2>1, <2>2, EmitBegins
<1>2. CASE wire # <<>>
  <2>1. /\ Resting /\ Emit("diff", baseLen, S) /\ UNCHANGED <<wire, baseLen, who, other>>
        /\ \E roots \in SetToSeqs(S) : Gc(baseLen, roots)
    <3>1. baseLen <= bufLen
      BY <1>2, RecordInArena DEF DiffSince
    <3> QED
      BY <1>2, <3>1 DEF DiffSince
  <2> QED
    BY <1>2, <2>1, EmitBegins
<1> QED
  BY <1>1, <1>2

\* While a collection goes on, the handles stand for what they stood for.
LEMMA CollectKeepsFns ==
  ASSUME GcInv, GcStep
  PROVE  /\ pc' = "idle"
         /\ phase' # "off" => HeldFns' = HeldFns /\ UNCHANGED <<base, keep>>
         /\ phase' = "off" =>
              phase = "copy" /\ DuringInv /\ CopyInv /\ GcFinish /\ GcInv
<1>1. CASE GcRoot \/ GcEnter \/ GcExit \/ GcTruncate \/ GcCopy
  <2>1. /\ phase # "off" /\ phase' # "off"
        /\ UNCHANGED <<held, oldDen, base, keep>>
    <3>1. CASE GcRoot \/ GcEnter \/ GcExit
      BY <3>1 DEF GcRoot, GcEnter, GcExit, Marking, vars, loopVars
    <3>2. CASE GcTruncate
      BY <3>2 DEF GcTruncate, loopVars
    <3>3. CASE GcCopy
      BY <3>3 DEF GcCopy, GcPanic, gcVars
    <3> QED
      BY <1>1, <3>1, <3>2, <3>3
  <2>2. pc' = "idle"
    <3>1. pc = "idle"
      BY <2>1 DEF GcInv, DuringInv
    <3>2. CASE GcRoot \/ GcEnter \/ GcExit
      BY <3>1, <3>2 DEF GcRoot, GcEnter, GcExit, Marking, vars, loopVars
    <3>3. CASE GcTruncate
      BY <3>1, <3>3 DEF GcTruncate, loopVars
    <3>4. CASE GcCopy
      <4>1. phase = "copy" /\ DuringInv /\ CopyInv
        BY <3>4 DEF GcInv, GcCopy
      <4>2. UNCHANGED pc
        BY <3>4, <4>1, GcCopies
      <4> QED
        BY <3>1, <4>2
    <3> QED
      BY <1>1, <3>2, <3>3, <3>4
  <2>3. HeldFns = [k \in Handles |-> OldFn(held[k])]
    BY <2>1, HeldDuring
  <2>4. HeldFns' = [k \in Handles |-> OldFn(held[k])']
    BY <2>1 DEF HeldFns, OldFn
  <2>5. \A r : OldFn(r)' = OldFn(r)
    BY <2>1 DEF OldFn, Den, IsNode, Terminals, FalseRef, TrueRef
  <2>6. \A k : OldFn(held[k])' = OldFn(held[k])
    BY <2>1, <2>5 DEF OldFn
  <2> QED
    BY <2>1, <2>2, <2>3, <2>4, <2>6
<1>2. CASE GcFinish
  <2>1. phase = "copy" /\ DuringInv /\ CopyInv
    BY <1>2 DEF GcInv, GcFinish
  <2>2. phase' = "off" /\ pc' = pc
    BY <1>2, <2>1, FinishHeld
  <2> QED
    BY <1>2, <2>1, <2>2 DEF DuringInv
<1> QED
  BY <1>1, <1>2 DEF GcStep

\* What is collected for a publication is clean and means what was asked for.
LEMMA CollectEmit ==
  ASSUME LineageInv, Collect
  PROVE  EmitInv'
<1>1. /\ GcStep /\ GcInv /\ EmitInv /\ UNCHANGED <<wire, baseLen, emit, who, other>>
  BY DEF Collect, LineageInv
<1>2. phase # "off"
  BY <1>1, GcKeeps
<1>3. /\ emit # NoEmit /\ who = "server"
      /\ emit.kind = IF wire = <<>> THEN "slab" ELSE "diff"
      /\ emit.base = baseLen /\ emit.keys \subseteq Handles
      /\ emit.fns = [k \in emit.keys |-> HeldFns[k]]
      /\ base = baseLen /\ Range(keep) = emit.keys
  BY <1>1, <1>2 DEF EmitInv
<1>4. pc' = "idle"
  BY <1>1, CollectKeepsFns
<1>5. CASE phase' # "off"
  <2>1. HeldFns' = HeldFns /\ base' = base /\ keep' = keep
    BY <1>1, <1>5, CollectKeepsFns
  <2> QED
    BY <1>1, <1>3, <1>4, <1>5, <2>1 DEF EmitInv
<1>6. CASE phase' = "off"
  <2>1. phase = "copy" /\ DuringInv /\ CopyInv /\ GcFinish
    BY <1>1, <1>6, CollectKeepsFns
  <2>2. /\ UNCHANGED <<buf, bufLen, den>>
        /\ \A i \in DOMAIN keep : Den(held'[keep[i]]) = OldFn(held[keep[i]])
    BY <2>1, FinishHeld
  <2>3. \A k \in emit.keys : HeldFns'[k] = HeldFns[k]
    <3> SUFFICES ASSUME NEW k \in emit.keys PROVE HeldFns'[k] = HeldFns[k]
      OBVIOUS
    <3>1. PICK i \in DOMAIN keep : keep[i] = k
      BY <1>3 DEF Range
    <3>2. k \in Handles /\ Den(held'[k]) = OldFn(held[k])
      BY <1>3, <2>2, <3>1
    <3>3. HeldFns[k] = OldFn(held[k])
      BY <1>2, <3>2, HeldDuring
    <3>4. HeldFns'[k] = Den(held[k])'
      BY <1>6, <3>2 DEF HeldFns
    <3>5. Den(held[k])' = Den(held'[k])
      BY <2>2 DEF Den
    <3> QED
      BY <3>2, <3>3, <3>4, <3>5
  <2>4. emit'.fns = [k \in emit'.keys |-> HeldFns'[k]]
    BY <1>1, <1>3, <2>3
  <2>5. \A o \in YoungNodes(baseLen)' :
          \/ \E k \in emit'.keys : held'[k] = o
          \/ \E p \in YoungNodes(baseLen)' : o \in Children(p)'
    <3>1. YoungNodes(baseLen)' = YoungNodes(base) /\ \A p : Children(p)' = Children(p)
      BY <1>1, <1>3, <2>2 DEF YoungNodes, Headers, Children, Node
    <3>2. [GcNext]_allVars
      BY <1>1 DEF GcNext
    <3>3. \A i \in DOMAIN keep : keep[i] \in emit'.keys
      BY <1>1, <1>3 DEF Range
    <3> SUFFICES ASSUME NEW o \in YoungNodes(base)
                 PROVE  \/ \E k \in emit'.keys : held'[k] = o
                        \/ \E p \in YoungNodes(base) : o \in Children(p)
      BY <3>1
    <3>4. \/ \E i \in DOMAIN keep : held'[keep[i]] = o
          \/ \E p \in YoungNodes(base) : o \in Children(p)
      BY <1>1, <1>6, <2>1, <3>2, FinishIsClean
    <3> QED
      BY <3>3, <3>4
  <2> QED
    BY <1>1, <1>3, <1>4, <1>6, <2>4, <2>5 DEF EmitInv
<1> QED
  BY <1>5, <1>6

\* A collection changes nothing below what was recorded.
LEMMA CollectInv ==
  ASSUME VarsFit, LineageInv, Collect
  PROVE  LineageInv'
<1>1. /\ GcStep /\ GcInv /\ EmitInv /\ UNCHANGED <<wire, baseLen, emit, who, other>>
      /\ baseLen \in Headers \cup {bufLen}
  BY DEF Collect, LineageInv
<1>2. GcInv'
  BY <1>1, NextGcInv DEF GcNext
<1>3. /\ phase # "off" /\ KeptBelow(base)
      /\ base \in Headers \cup {bufLen} => base \in Headers' \cup {bufLen'}
  BY <1>1, GcKeeps
<1>4. base = baseLen /\ who = "server"
  BY <1>1, <1>3 DEF EmitInv
<1>5. /\ \A o \in Headers : o \in Nat
      /\ \A o \in Headers' : o \in Nat
      /\ baseLen \in Nat
  <2>1. BytesTypeOK /\ BytesTypeOK'
    BY <1>1, <1>2 DEF GcInv, BetweenInv, IInv, MarkInv, CopyInv, ArenaInv, ArenaTypeOK
  <2>2. base \in Nat
    BY <1>1, <1>3 DEF GcInv, DuringInv
  <2>3. Headers \subseteq 0 .. bufLen - 1 /\ bufLen \in 0 .. MaxOffset
    BY <2>1 DEF BytesTypeOK
  <2>4. Headers' \subseteq 0 .. bufLen' - 1 /\ bufLen' \in 0 .. MaxOffset
    BY <2>1 DEF BytesTypeOK
  <2>5. \A n : \A o \in 0 .. n - 1 : n \in 0 .. MaxOffset => o \in Nat
    BY CodecAssumption
  <2>6. ASSUME NEW o \in Headers PROVE o \in Nat
    BY <2>3, <2>5
  <2>7. ASSUME NEW o \in Headers' PROVE o \in Nat
    BY <2>4, <2>5
  <2> QED
    BY <1>4, <2>2, <2>6, <2>7
<1>6. SameRecord(Current, Current')
  BY <1>1, <1>3, <1>4, <1>5 DEF SameRecord, Current, Headers, KeptBelow
<1>7. Shared(Current', other, wire)
  BY <1>4, <1>6, SharedServer DEF LineageInv, WireInv, Server, Client
<1>8. WireInv'
  BY <1>1, <1>4, <1>7 DEF WireInv, Server, Client
<1>9. EmitInv'
  BY CollectEmit
<1>10. Sound(other)' /\ who' \in {"server", "client"} /\ baseLen' \in Headers' \cup {bufLen'}
  BY <1>1, <1>3, <1>4 DEF LineageInv
<1> QED
  BY <1>2, <1>8, <1>9, <1>10 DEF LineageInv

LEMMA LineageStutter ==
  ASSUME VarsFit, LineageInv, UNCHANGED exVars
  PROVE  LineageInv'
<1>1. UNCHANGED <<allVars, wire, baseLen, emit, who, other>>
  BY DEF exVars
<1>2. GcInv'
  BY <1>1, GcStutterInv DEF LineageInv
<1>3. UNCHANGED <<buf, bufLen, den, unique, numVars, cache, cacheLen, held, pc, phase, base,
                  keep, oldDen>>
  BY <1>1 DEF allVars, gcVars, vars, arenaVars, cacheVars, loopVars
<1>4. Current' = Current /\ HeldFns' = HeldFns /\ Headers' = Headers
  BY <1>1, <1>3 DEF Current, HeldFns, Headers, Den
<1>5. YoungNodes(baseLen)' = YoungNodes(baseLen) /\ \A p : Children(p)' = Children(p)
  BY <1>1, <1>3 DEF YoungNodes, Headers, Children, Node
<1>6. EmitInv'
  BY <1>1, <1>3, <1>4, <1>5 DEF LineageInv, EmitInv
<1>7. WireInv'
  BY <1>1, <1>4 DEF LineageInv, WireInv, Server, Client
<1> QED
  BY <1>1, <1>2, <1>3, <1>4, <1>6, <1>7 DEF LineageInv

LEMMA LineageInit ==
  ASSUME VarsFit, ExInit
  PROVE  LineageInv
<1>1. /\ GcInit /\ wire = <<>> /\ baseLen = 0 /\ emit = NoEmit /\ who = "server"
      /\ other = NewManager
  BY DEF ExInit
<1>2. /\ buf = <<>> /\ bufLen = 0 /\ phase = "off" /\ pc = "idle" /\ Init
  BY <1>1 DEF GcInit, Init
<1>3. GcInv
  BY <1>1, InitGcInv
<1>4. Sound(other)
  BY <1>1, EmptyIsSound, MaxVarsAssumption
<1>5. Shared(Current, NewManager, <<>>)
  <2> DEFINE w == <<>>
  <2>1. DOMAIN w = {} /\ Range(w) = {} /\ w \in Seq(Range(w))
    BY DEF Range
  <2>2. Current.buf = <<>> /\ Current.baseLen = 0 /\ DOMAIN Current.buf = {}
    BY <1>1, <1>2 DEF Current
  <2>3. NewManager.buf = <<>> /\ NewManager.baseLen = 0 /\ DOMAIN NewManager.buf = {}
    BY DEF NewManager
  <2>4. SameBelow(Current, NewManager, 0)
    BY <2>2, <2>3 DEF SameBelow
  <2> HIDE DEF w
  <2>5. w = <<>>
    BY DEF w
  <2>6. Shared(Current, NewManager, w)
    BY <2>1, <2>2, <2>3, <2>4, <2>5 DEF Shared
  <2> QED
    BY <2>6 DEF w
<1>6. WireInv
  BY <1>1, <1>5 DEF WireInv, Server, Client
<1>7. EmitInv
  BY <1>1, <1>2 DEF EmitInv
<1> QED
  BY <1>1, <1>2, <1>3, <1>4, <1>6, <1>7 DEF LineageInv

LEMMA LineageStep == VarsFit /\ LineageInv /\ [LineageNext]_exVars => LineageInv'
<1> SUFFICES ASSUME VarsFit, LineageInv, [LineageNext]_exVars PROVE LineageInv'
  OBVIOUS
<1>1. CASE Work
  BY <1>1, WorkInv
<1>2. CASE Collect
  BY <1>2, CollectInv
<1>3. CASE Publish
  BY <1>3, PublishInv
<1>4. CASE Switch
  BY <1>4, SwitchInv
<1>5. CASE /\ who = "server"
           /\ \E S \in SUBSET Handles :
                IF wire = <<>> THEN SlabFor(S) ELSE DiffSince(baseLen, S)
  <2>1. PICK S \in SUBSET Handles : IF wire = <<>> THEN SlabFor(S) ELSE DiffSince(baseLen, S)
    BY <1>5
  <2> QED
    BY <1>5, <2>1, EmitStepInv
<1>6. CASE who = "server" /\ Len(wire) = 1 /\ ExtendSlab(wire[1])
  BY <1>6, ExtendInv
<1>7. CASE who = "client" /\ NewProcess
  BY <1>7, RestartInv DEF NewProcess
<1>8. CASE /\ who = "client"
           /\ \E a \in Range(wire) :
                Declared(a) /\ (IngestSlab(a) \/ (bufLen = baseLen /\ ApplyDiff(a)))
  BY <1>8, IngestInv
<1>9. CASE UNCHANGED exVars
  BY <1>9, LineageStutter
<1> QED
  BY <1>1, <1>2, <1>3, <1>4, <1>5, <1>6, <1>7, <1>8, <1>9 DEF LineageNext
-----------------------------------------------------------------------------
(* The theorems. *)

\* In a lineage both engines stay sound and hold what was published, whatever
\* is received, collected, lost, repeated or built between.
THEOREM LineageInvariance ==
  ASSUME VarsFit
  PROVE  LineageSpec => []LineageInv
<1>1. ExInit => LineageInv
  BY LineageInit
<1>2. LineageInv /\ [LineageNext]_exVars => LineageInv'
  BY LineageStep
<1> QED
  BY <1>1, <1>2, PTL DEF LineageSpec

\* A diagram received is as good as one built: reduced, its table exact, equal
\* functions equal references, the apply cache right.
THEOREM ReceivedEngineIntact ==
  ASSUME VarsFit
  PROVE  LineageSpec => []ReceiverIntact
<1>1. LineageInv => ReceiverIntact
  BY DEF LineageInv, GcInv, BetweenInv, IInv, ArenaInv, IteInv, ReceiverIntact
<1> QED
  BY <1>1, LineageInvariance, PTL

\* No call of either process panics, whatever it received before.
THEOREM ExchangeNeverPanics ==
  ASSUME VarsFit
  PROVE  LineageSpec => []NoPanic
<1>1. LineageInv => NoPanic
  BY DEF LineageInv, GcInv, BetweenInv, IteInv, DuringInv, NoPanic
<1> QED
  BY <1>1, LineageInvariance, PTL

\* Equal recorded lengths are equal bytes, so the one number apply_diff compares
\* is enough.
THEOREM RecordedLengthIsBase ==
  ASSUME VarsFit
  PROVE  LineageSpec => []LengthIsBase
<1>1. ASSUME LineageInv PROVE LengthIsBase
  <2>1. /\ SameBelow(Server, Client, Client.baseLen)
        /\ who \in {"server", "client"}
    BY <1>1 DEF LineageInv, WireInv, Shared
  <2>2. Current.buf = buf /\ Current.baseLen = baseLen /\ Headers = DOMAIN buf
    BY DEF Current, Headers
  <2>3. CASE who = "server"
    BY <2>1, <2>2, <2>3 DEF LengthIsBase, SameBelow, Server, Client
  <2>4. CASE who = "client"
    BY <2>1, <2>2, <2>4 DEF LengthIsBase, SameBelow, Server, Client
  <2> QED
    BY <2>1, <2>3, <2>4
<1> QED
  BY <1>1, LineageInvariance, PTL

\* What the client recorded are whole publications.
LEMMA ClientsWhole ==
  ASSUME NEW s, Sound(s), NEW c, NEW w, Shared(s, c, w), NEW a \in Range(w),
         NEW o \in Stretch(s, a), o < c.baseLen, NEW p \in Stretch(s, a)
  PROVE  p < c.baseLen
<1>1. /\ \A b \in Range(w) : Published(s, b)
      /\ \A i, j \in DOMAIN w : i < j => End(w[i]) <= w[j].base
      /\ c.baseLen \in {0} \cup {End(b) : b \in Range(w)}
      /\ w \in Seq(Range(w))
  BY DEF Shared
<1>2. /\ a.base \in Nat /\ End(a) \in Nat /\ a.base <= o /\ o < End(a) /\ o \in Nat
      /\ p \in Nat /\ p < End(a)
  BY <1>1, TailFacts
<1>3. PICK b \in Range(w) : c.baseLen = End(b)
  BY <1>1, <1>2
<1>4. b.base \in Nat /\ End(b) \in Nat /\ b.base <= End(b)
  BY <1>1, TailFacts
<1>5. PICK i \in DOMAIN w : w[i] = a
  BY DEF Range
<1>6. PICK j \in DOMAIN w : w[j] = b
  BY DEF Range
<1>7. i \in Nat /\ j \in Nat
  <2> PICK T : T = Range(w)
    OBVIOUS
  <2>1. w \in Seq(T)
    BY <1>1
  <2>2. DOMAIN w = 1 .. Len(w) /\ Len(w) \in Nat
    BY <2>1
  <2> QED
    BY <2>2
<1>8. CASE i < j
  <2>1. End(a) <= b.base
    BY <1>1, <1>5, <1>6, <1>8
  <2> QED
    BY <1>2, <1>3, <1>4, <2>1
<1>9. CASE j < i
  <2>1. End(b) <= a.base
    BY <1>1, <1>5, <1>6, <1>9
  <2> QED
    BY <1>2, <1>3, <1>4, <2>1
<1>10. CASE i = j
  BY <1>2, <1>3, <1>5, <1>6, <1>10
<1> QED
  BY <1>7, <1>8, <1>9, <1>10

\* An arena put together from publications is itself clean.
THEOREM ReceivedBytesClean ==
  ASSUME VarsFit
  PROVE  LineageSpec => []CleanBytes
<1>1. ASSUME LineageInv PROVE CleanBytes
  <2> SUFFICES ASSUME Resting, bufLen = baseLen, NEW o \in Headers
               PROVE  \/ \E a \in Range(wire) : o \in Range(a.roots)
                      \/ \E p \in Headers : o \in Children(p)
    BY DEF CleanBytes
  <2> PICK s : s = Server
    OBVIOUS
  <2> PICK c : c = Client
    OBVIOUS
  <2>1. Sound(s) /\ Sound(c) /\ Sound(Current) /\ Shared(s, c, wire)
    BY <1>1, BothSound, AtRest DEF Resting, LineageInv, WireInv
  <2>2. /\ Current.buf = buf /\ Current.baseLen = baseLen /\ Current.bufLen = bufLen
        /\ Headers = DOMAIN buf
    BY DEF Current, Headers
  <2>3. o \in Nat /\ o < baseLen /\ o \notin Terminals
    BY <2>1, <2>2, SoundOffsets
  <2>4. /\ \A a \in Range(wire) : Published(s, a)
        /\ \A q \in DOMAIN s.buf : q < s.baseLen => \E a \in Range(wire) : q \in Stretch(s, a)
        /\ SameBelow(s, c, c.baseLen)
    BY <2>1 DEF Shared
  <2>5. c.baseLen \in Nat /\ s.baseLen \in Nat /\ c.baseLen <= s.baseLen
    BY <2>1, SoundOffsets, SharedRecords
  <2>6. CASE who = "server"
    <3>1. s = Current
      BY <2>6 DEF Server
    <3>2. PICK a \in Range(wire) : o \in Stretch(s, a)
      BY <2>2, <2>3, <2>4, <3>1
    <3>3. \/ o \in Range(a.roots)
          \/ \E p \in Stretch(s, a) : o \in {Decode(s.buf, p).lo, Decode(s.buf, p).hi}
      BY <2>4, <3>2 DEF Published
    <3>4. ASSUME NEW p \in Stretch(s, a), o \in {Decode(s.buf, p).lo, Decode(s.buf, p).hi}
          PROVE  p \in Headers /\ o \in Children(p)
      BY <2>2, <2>3, <3>1, <3>4 DEF Stretch, Children, Node
    <3> QED
      BY <3>3, <3>4
  <2>7. CASE who = "client"
    <3>1. c = Current
      BY <2>7 DEF Client
    <3>2. o \in DOMAIN s.buf /\ o < s.baseLen
      BY <2>2, <2>3, <2>4, <2>5, <3>1 DEF SameBelow
    <3>3. PICK a \in Range(wire) : o \in Stretch(s, a)
      BY <2>4, <3>2
    <3>4. \/ o \in Range(a.roots)
          \/ \E p \in Stretch(s, a) : o \in {Decode(s.buf, p).lo, Decode(s.buf, p).hi}
      BY <2>4, <3>3 DEF Published
    <3>5. ASSUME NEW p \in Stretch(s, a), o \in {Decode(s.buf, p).lo, Decode(s.buf, p).hi}
          PROVE  p \in Headers /\ o \in Children(p)
      <4>1. p < c.baseLen
        BY <2>1, <2>2, <2>3, <3>1, <3>3, ClientsWhole
      <4>2. p \in DOMAIN s.buf
        BY DEF Stretch
      <4>3. p \in DOMAIN buf /\ s.buf[p] = buf[p]
        BY <2>2, <2>4, <3>1, <4>1, <4>2 DEF SameBelow
      <4> QED
        BY <2>2, <2>3, <3>5, <4>3 DEF Children, Node, Decode
    <3> QED
      BY <3>4, <3>5
  <2> QED
    BY <1>1, <2>6, <2>7 DEF LineageInv
<1> QED
  BY <1>1, LineageInvariance, PTL

\* Where the manager that runs has recorded a publication, its roots mean what
\* was asked for.
RootsMeanSent ==
  phase = "off" /\ pc = "idle" =>
    \A a \in Range(wire) :
      End(a) <= baseLen => \A k \in DOMAIN a.roots : Den(a.roots[k]) = a.fns[k]

LEMMA RootsMean == LineageInv => RootsMeanSent
<1> SUFFICES ASSUME LineageInv, phase = "off", pc = "idle",
                    NEW a \in Range(wire), End(a) <= baseLen, NEW k \in DOMAIN a.roots
             PROVE  Den(a.roots[k]) = a.fns[k]
  BY DEF RootsMeanSent
<1> PICK s : s = Server
  OBVIOUS
<1> PICK c : c = Client
  OBVIOUS
<1> PICK r : r = a.roots[k]
  OBVIOUS
<1>1. Sound(s) /\ Sound(c) /\ Shared(s, c, wire)
  BY BothSound DEF LineageInv, WireInv
<1>2. Published(s, a) /\ SameBelow(s, c, c.baseLen)
  BY <1>1 DEF Shared
<1>3. a.fns[k] = FnIn(s.den, r)
  BY <1>2 DEF Published
<1>4. r \in Terminals \/ (r \in DOMAIN s.buf /\ r < End(a))
  <2>1. r \in Range(a.roots)
    BY DEF Range
  <2> QED
    BY <1>2, <2>1 DEF Published
<1>5. \A q : Den(q) = FnIn(Current.den, q)
  BY DEF Den, FnIn, Current
<1>6. CASE s = Current
  BY <1>3, <1>5, <1>6
<1>7. CASE c = Current
  <2>1. c.baseLen = baseLen /\ baseLen \in Nat /\ End(a) \in Nat
    BY <1>1, <1>2, <1>7, SoundOffsets, TailFacts DEF Current
  <2>2. ASSUME r \notin Terminals PROVE c.den[r] = s.den[r]
    <3>1. r \in DOMAIN s.buf /\ r < End(a) /\ r \in Nat
      BY <1>1, <1>4, <2>2, SoundOffsets
    <3>2. r < baseLen
      BY <2>1, <3>1
    <3>3. r \in DOMAIN c.buf
      BY <1>2, <2>1, <3>1, <3>2 DEF SameBelow
    <3> QED
      BY <1>1, <1>2, <2>1, <3>2, <3>3, SameMeans
  <2>3. FnIn(c.den, r) = FnIn(s.den, r)
    BY <2>2 DEF FnIn, Terminals
  <2> QED
    BY <1>3, <1>5, <1>7, <2>3
<1> QED
  BY <1>6, <1>7 DEF LineageInv, Server, Client

\* Where the receiver keeps to the lineage, a diff that applies means what was
\* sent; the run exchange_careless shows what happens otherwise.
THEOREM LineageDiffsMeanSent ==
  ASSUME VarsFit
  PROVE  LineageSpec => DiffMeansSent
<1>1. ASSUME LineageInv, LineageInv', RootsMeanSent'
      PROVE  [\A a \in Range(wire) :
                ApplyDiff(a) /\ bufLen' # 0 =>
                  \A k \in DOMAIN a.roots : Den(a.roots[k])' = a.fns[k]]_exVars
  <2> SUFFICES ASSUME NEW a \in Range(wire), ApplyDiff(a), bufLen' # 0,
                      NEW k \in DOMAIN a.roots
               PROVE  Den(a.roots[k])' = a.fns[k]
    OBVIOUS
  <2>1. /\ phase' = "off" /\ pc' = "idle" /\ wire' = wire
        /\ \/ bufLen = a.base /\ Receive(a)
           \/ Run(NewManager)
    BY DEF ApplyDiff, Abort, Resting, gcVars, loopVars
  <2>2. ~ Run(NewManager)
    BY DEF Run, NewManager
  <2>3. baseLen' = bufLen + a.tailLen /\ bufLen = a.base
    BY <2>1, <2>2 DEF Receive, Run, Received, Current
  <2>4. baseLen' = End(a)
    BY <2>3 DEF End
  <2>5. End(a) \in Nat
    <3>1. Published(Server, a)
      BY <1>1 DEF LineageInv, WireInv, Shared
    <3> QED
      BY <3>1 DEF Published, End
  <2>6. a \in Range(wire)'
    BY <2>1 DEF Range
  <2>7. \A b \in Range(wire)' :
          End(b) <= baseLen' => \A j \in DOMAIN b.roots : Den(b.roots[j])' = b.fns[j]
    BY <1>1, <2>1 DEF RootsMeanSent, End
  <2>8. End(a) <= baseLen'
    BY <2>4, <2>5
  <2> QED
    BY <2>6, <2>7, <2>8
<1>2. LineageInv => RootsMeanSent
  BY RootsMean
<1> QED
  BY <1>1, <1>2, LineageInvariance, PTL DEF DiffMeansSent

\* Where nothing is under way, and after the turn of the manager m.
LEMMA FnsAtRest ==
  ASSUME phase = "off", call = NoCall
  PROVE  /\ BS!AtRest /\ Kept = {}
         /\ HeldFns = [k \in Handles |-> FnIn(den, held[k])]
<1>1. \A r : Den(r) = FnIn(den, r)
  BY DEF Den, FnIn
<1>2. Owed = <<>> /\ Kept = {}
  BY DEF Owed, Kept
<1> QED
  BY <1>1, <1>2 DEF HeldFns, BS!AtRest, BS!NoneOwed

LEMMA FnsAfterTurn ==
  ASSUME LineageInv, Resting, NEW m, Run(m), UNCHANGED <<gcVars, loopVars>>
  PROVE  /\ BS!AtRest /\ UNCHANGED <<Owed, Kept>>
         /\ HeldFns = [k \in Handles |-> FnIn(den, held[k])]
         /\ HeldFns' = [k \in Handles |-> FnIn(m.den, m.held[k])]
         /\ numVars' = m.numVars
<1>1. phase = "off" /\ call = NoCall /\ phase' = "off" /\ call' = NoCall
  BY AtRest DEF Resting, gcVars, loopVars, NoCall
<1>2. \A r : Den(r)' = FnIn(m.den, r)
  BY DEF Run, Den, FnIn
<1>3. HeldFns' = [k \in Handles |-> Den(held[k])']
  BY <1>1 DEF HeldFns
<1>4. \A k : Den(held[k])' = FnIn(m.den, m.held[k])
  BY <1>2 DEF Run, Den, FnIn
<1>5. HeldFns' = [k \in Handles |-> FnIn(m.den, m.held[k])]
  BY <1>3, <1>4
<1>6. Owed' = Owed /\ Kept' = Kept /\ numVars' = m.numVars
  BY <1>1 DEF Owed, Kept, Run
<1> QED
  BY <1>1, <1>5, <1>6, FnsAtRest

SoundAtRest == phase = "off" /\ pc = "idle" => Sound(Current)

\* A receipt leaves the receiver's own nodes as they were.
LEMMA ReceiptKeepsFns ==
  ASSUME LineageInv, SoundAtRest', Resting, NEW a \in Range(wire), Receive(a),
         UNCHANGED <<gcVars, loopVars>>
  PROVE  \A k \in Handles \ DOMAIN a.roots : HeldFns'[k] = HeldFns[k]
<1> PICK m : m = Current
  OBVIOUS
<1> PICK r : r = Received(m, a)
  OBVIOUS
<1>1. Run(r) /\ phase' = "off" /\ pc' = "idle"
  BY DEF Receive, Resting, gcVars, loopVars
<1>2. Sound(m) /\ Sound(r) /\ m.bufLen \in Nat
  <2>1. Current' = r
    BY <1>1 DEF Run, Current, Received
  <2>2. Sound(Current)'
    BY <1>1 DEF SoundAtRest
  <2>3. Sound(Current)
    BY AtRest DEF Resting
  <2> QED
    BY <2>1, <2>2, <2>3, SoundOffsets
<1>3. /\ HeldFns = [k \in Handles |-> FnIn(m.den, m.held[k])]
      /\ HeldFns' = [k \in Handles |-> FnIn(r.den, r.held[k])]
  <2>1. m.den = den /\ m.held = held
    BY DEF Current
  <2> QED
    BY <1>1, <2>1, FnsAfterTurn
<1>4. \A i \in DOMAIN a.tail : i \in Nat
  BY BothSound, TailFacts DEF LineageInv, WireInv, Shared, Resting
<1>5. SameBelow(m, r, m.bufLen) /\ DOMAIN m.buf \subseteq DOMAIN r.buf
  <2>1. r.buf = Grafted(m.buf, m.bufLen, a)
    BY DEF Received
  <2>2. \A o \in DOMAIN r.buf : o \in DOMAIN m.buf \/ ~ o < m.bufLen
    BY <1>2, <1>4, <2>1 DEF Grafted
  <2>3. \A o \in DOMAIN m.buf : o \in DOMAIN r.buf /\ r.buf[o] = m.buf[o]
    BY <2>1 DEF Grafted
  <2> QED
    BY <2>2, <2>3 DEF SameBelow
<1>6. \A o \in DOMAIN m.buf : r.den[o] = m.den[o]
  BY <1>2, <1>5, SameMeans, SoundOffsets
<1> SUFFICES ASSUME NEW k \in Handles \ DOMAIN a.roots PROVE HeldFns'[k] = HeldFns[k]
  OBVIOUS
<1>7. r.held[k] = m.held[k] /\ m.held[k] \in Terminals \cup DOMAIN m.buf
  BY <1>2 DEF Received, Sound
<1>8. FnIn(r.den, m.held[k]) = FnIn(m.den, m.held[k])
  BY <1>6, <1>7 DEF FnIn, Terminals
<1> QED
  BY <1>3, <1>7, <1>8

\* A receipt delivers what was asked for when the bytes were published, and
\* leaves the receiver's other handles standing for what they stood for: no
\* constants, no other publication, no stale root (slab.rs:196-281).
THEOREM ReceiptsDeliver ==
  ASSUME VarsFit
  PROVE  LineageSpec => ReceiptsMeanSent
<1>1. ASSUME LineageInv, RootsMeanSent', SoundAtRest'
      PROVE  [\A a \in Range(wire) :
                (IngestSlab(a) \/ ApplyDiff(a)) /\ bufLen' # 0 =>
                  \A k \in Handles :
                    HeldFns'[k] = IF k \in DOMAIN a.roots THEN a.fns[k]
                                  ELSE HeldFns[k]]_exVars
  <2> SUFFICES ASSUME NEW a \in Range(wire), IngestSlab(a) \/ ApplyDiff(a), bufLen' # 0,
                      NEW k \in Handles
               PROVE  HeldFns'[k] = IF k \in DOMAIN a.roots THEN a.fns[k] ELSE HeldFns[k]
    OBVIOUS
  <2>1. Published(Server, a)
    BY <1>1 DEF LineageInv, WireInv, Shared
  <2>2. /\ Resting /\ UNCHANGED <<gcVars, loopVars, wire>>
        /\ \/ bufLen = a.base /\ Receive(a)
           \/ Run(NewManager)
    BY <2>1 DEF IngestSlab, ApplyDiff, Abort, Published
  <2>3. Receive(a) /\ bufLen = a.base
    BY <2>2 DEF Run, NewManager
  <2>4. phase' = "off" /\ pc' = "idle" /\ call' = call /\ call = NoCall
    BY <1>1, <2>2, AtRest DEF Resting, gcVars, loopVars
  <2>5. baseLen' = End(a) /\ held' = [j \in Handles |-> IF j \in DOMAIN a.roots THEN a.roots[j]
                                                       ELSE held[j]]
    BY <2>3 DEF Receive, Run, Received, Current, End
  <2>6. CASE k \in DOMAIN a.roots
    <3>1. a \in Range(wire)' /\ End(a) <= baseLen'
      BY <2>1, <2>2, <2>5 DEF Range, Published, End
    <3>2. \A b \in Range(wire)' :
            End(b) <= baseLen' => \A j \in DOMAIN b.roots : Den(b.roots[j])' = b.fns[j]
      BY <1>1, <2>4 DEF RootsMeanSent, End
    <3>3. Den(a.roots[k])' = a.fns[k]
      BY <2>6, <3>1, <3>2
    <3>4. HeldFns'[k] = Den(held[k])'
      BY <2>4 DEF HeldFns
    <3>5. held'[k] = a.roots[k]
      BY <2>5, <2>6
    <3>6. Den(held[k])' = Den(a.roots[k])'
      BY <3>5 DEF Den
    <3> QED
      BY <2>6, <3>3, <3>4, <3>6
  <2>7. CASE k \notin DOMAIN a.roots
    BY <1>1, <2>2, <2>3, <2>7, ReceiptKeepsFns
  <2> QED
    BY <2>6, <2>7
<1>2. LineageInv => RootsMeanSent /\ SoundAtRest
  BY RootsMean, AtRest DEF SoundAtRest
<1> QED
  BY <1>1, <1>2, LineageInvariance, PTL DEF ReceiptsMeanSent
-----------------------------------------------------------------------------
(* The two processes implement BoolShare. *)

Sent == {a.fns : a \in Range(wire)}
Rest == [fn |-> [k \in Handles |-> FnIn(other.den, other.held[k])],
         numVars |-> other.numVars]

\* The steps of one process are the steps it has alone.
LEMMA GcStepIsShared ==
  ASSUME [GcBF!GcNext]_<<HeldFns, numVars, Owed, Kept>>, UNCHANGED <<wire, other>>
  PROVE  [BS!ShareNext]_<<HeldFns, numVars, Owed, Kept, Sent, Rest>>
<1>1. Sent' = Sent /\ Rest' = Rest
  BY DEF Sent, Rest
<1>2. /\ BS!NoneOwed = GcBF!NoneOwed /\ BS!TrueFn = GcBF!TrueFn
      /\ BS!FalseFn = GcBF!FalseFn
      /\ \A v, f, g : BS!Shannon(v, f, g) = GcBF!Shannon(v, f, g)
      /\ \A f, g : BS!XorFn(f, g) = GcBF!XorFn(f, g)
      /\ \A f, g, h : BS!IteFn(f, g, h) = GcBF!IteFn(f, g, h)
      /\ \A f, v : BS!IndependentOf(f, v) <=> GcBF!IndependentOf(f, v)
  BY DEF BS!NoneOwed, GcBF!NoneOwed, BS!TrueFn, GcBF!TrueFn, BS!FalseFn, GcBF!FalseFn,
         BS!Shannon, GcBF!Shannon, BS!XorFn, GcBF!XorFn, BS!IteFn, GcBF!IteFn,
         BS!IndependentOf, GcBF!IndependentOf,
         BS!Assignments, GcBF!Assignments, BS!Vars, GcBF!Vars
<1>3. BS!Operands = GcBF!Operands
  BY <1>2 DEF BS!Operands, GcBF!Operands
<1>4. ASSUME GcBF!Declare PROVE BS!Declare
  BY <1>4 DEF GcBF!Declare, BS!Declare
<1>5. ASSUME NEW k \in Handles, GcBF!Branch(k) PROVE BS!Branch(k)
  BY <1>2, <1>3, <1>5 DEF GcBF!Branch, BS!Branch
<1>6. ASSUME NEW k \in Handles, GcBF!Ask(k) PROVE BS!Ask(k)
  BY <1>2, <1>3, <1>6 DEF GcBF!Ask, GcBF!Owe, BS!Ask, BS!Owe
<1>7. ASSUME GcBF!Answer PROVE BS!Answer
  BY <1>2, <1>7 DEF GcBF!Answer, BS!Answer
<1>8. ASSUME NEW k \in Handles, GcBF!Constant(k) PROVE BS!Constant(k)
  BY <1>2, <1>8 DEF GcBF!Constant, BS!Constant
<1>9. GcBF!Next => BS!Next
  BY <1>4, <1>5, <1>6, <1>7, <1>8 DEF GcBF!Next, BS!Next
<1>10. GcBF!Call => BS!Call
  BY <1>9 DEF GcBF!Call, BS!Call
<1>11. GcBF!Collect => BS!Collect
  BY <1>2 DEF GcBF!Collect, BS!Collect
<1>12. GcBF!Collected => BS!Collected
  BY <1>2 DEF GcBF!Collected, BS!Collected
<1>13. GcBF!GcNext => BS!GcNext
  BY <1>10, <1>11, <1>12 DEF GcBF!GcNext, BS!GcNext
<1> QED
  BY <1>1, <1>13 DEF BS!ShareNext, Sent, Rest

LEMMA FreshFns ==
  /\ BS!Fresh.fn = [k \in Handles |-> FalseFn]
  /\ \A d : FnIn(d, FalseRef) = FalseFn
<1>1. BS!FalseFn = FalseFn
  BY DEF BS!FalseFn, FalseFn
<1>2. BS!Fresh.fn = [k \in Handles |-> FalseFn]
  BY <1>1 DEF BS!Fresh
<1>3. \A d : FnIn(d, FalseRef) = FalseFn
  BY DEF FnIn, FalseRef, TrueRef
<1> QED
  BY <1>2, <1>3

LEMMA SwitchShares ==
  ASSUME LineageInv, Switch
  PROVE  BS!Switch
<1>1. Resting /\ Run(other) /\ other' = Current /\ UNCHANGED <<gcVars, loopVars, wire>>
  BY DEF Switch
<1>2. /\ BS!AtRest /\ UNCHANGED <<Owed, Kept>>
      /\ HeldFns = [k \in Handles |-> FnIn(den, held[k])]
      /\ HeldFns' = [k \in Handles |-> FnIn(other.den, other.held[k])]
      /\ numVars' = other.numVars
  BY <1>1, FnsAfterTurn
<1>3. other'.den = den /\ other'.held = held /\ other'.numVars = numVars
  BY <1>1 DEF Current
<1>4. Rest' = [fn |-> HeldFns, numVars |-> numVars]
  BY <1>2, <1>3 DEF Rest
<1>5. HeldFns' = Rest.fn /\ numVars' = Rest.numVars /\ Sent' = Sent
  BY <1>1, <1>2 DEF Rest, Sent
<1> QED
  BY <1>2, <1>4, <1>5 DEF BS!Switch, Rest, Sent

LEMMA RestartShares ==
  ASSUME LineageInv, Resting, Run(NewManager), UNCHANGED <<gcVars, loopVars, wire, other>>
  PROVE  BS!Restart
<1>1. /\ BS!AtRest /\ UNCHANGED <<Owed, Kept>>
      /\ HeldFns' = [k \in Handles |-> FnIn(NewManager.den, NewManager.held[k])]
      /\ numVars' = NewManager.numVars
  BY FnsAfterTurn
<1>2. HeldFns' = BS!Fresh.fn
  <2>1. \A k \in Handles : NewManager.held[k] = FalseRef
    BY DEF NewManager
  <2> QED
    BY <1>1, <2>1, FreshFns
<1>3. numVars' \in 0 .. MaxVars
  BY <1>1, MaxVarsAssumption DEF NewManager
<1>4. Sent' = Sent /\ Rest' = Rest
  BY DEF Sent, Rest
<1> QED
  BY <1>1, <1>2, <1>3, <1>4 DEF BS!Restart, Sent, Rest

LEMMA ReceiveShares ==
  ASSUME LineageInv, Resting, who = "client", NEW a \in Range(wire), Declared(a),
         bufLen = a.base, bufLen = baseLen \/ bufLen = 0, Receive(a),
         UNCHANGED <<gcVars, loopVars, wire, emit, who, other>>
  PROVE  BS!Receive
<1> PICK r : r = Received(Current, a)
  OBVIOUS
<1>1. Receives(Current, other, a) /\ Run(r)
  BY ClientReceives DEF Receive
<1>2. /\ BS!AtRest /\ UNCHANGED <<Owed, Kept>>
      /\ HeldFns = [k \in Handles |-> FnIn(den, held[k])]
      /\ HeldFns' = [k \in Handles |-> FnIn(r.den, r.held[k])]
      /\ numVars' = r.numVars
  BY <1>1, FnsAfterTurn
<1>3. \A k \in Handles :
        FnIn(r.den, r.held[k]) = IF k \in DOMAIN a.roots THEN a.fns[k]
                                 ELSE FnIn(Current.den, Current.held[k])
  BY <1>1, ReceivedHandles
<1>4. Current.den = den /\ Current.held = held /\ r.numVars = numVars
  BY DEF Current, Received
<1>5. DOMAIN a.fns = DOMAIN a.roots
  BY <1>1 DEF Receives, Published
<1>6. HeldFns' = [k \in Handles |-> IF k \in DOMAIN a.fns THEN a.fns[k] ELSE HeldFns[k]]
  BY <1>2, <1>3, <1>4, <1>5
<1>7. a.fns \in Sent /\ Sent' = Sent /\ Rest' = Rest
  BY DEF Sent, Rest
<1> QED
  BY <1>2, <1>4, <1>6, <1>7 DEF BS!Receive, Sent, Rest

LEMMA PublishShares ==
  ASSUME LineageInv, Publish
  PROVE  BS!Publish
<1> PICK a : a = [kind |-> emit.kind, base |-> emit.base, tail |-> TailBytes(emit.base),
                  tailLen |-> bufLen - emit.base,
                  roots |-> [k \in emit.keys |-> held[k]], fns |-> emit.fns]
  OBVIOUS
<1>1. /\ phase = "off" /\ emit # NoEmit /\ wire' = Append(wire, a)
      /\ UNCHANGED <<allVars, other>>
  BY DEF Publish
<1>2. /\ emit.keys \subseteq Handles /\ a.fns = [k \in emit.keys |-> HeldFns[k]]
  BY <1>1 DEF LineageInv, EmitInv
<1>3. UNCHANGED <<buf, den, numVars, held, call, phase, oldDen>>
  BY <1>1 DEF allVars, gcVars, vars, arenaVars, loopVars
<1>4. HeldFns' = HeldFns /\ Owed' = Owed /\ Rest' = Rest /\ Kept' = Kept
  BY <1>1, <1>3 DEF HeldFns, Owed, Den, Rest, Kept
<1>5. Sent' = Sent \cup {a.fns}
  <2>1. wire \in Seq(Range(wire))
    BY DEF LineageInv, WireInv, Shared
  <2>2. Longer(wire', wire, a)
    BY <1>1, <2>1, AppendIsLonger
  <2>3. Range(wire') = Range(wire) \cup {a}
    BY <2>2 DEF Longer
  <2>4. Sent' = {b.fns : b \in Range(wire')}
    BY DEF Sent
  <2> QED
    BY <2>3, <2>4 DEF Sent
<1>6. \E S \in SUBSET Handles : Sent' = Sent \cup {[k \in S |-> HeldFns[k]]}
  BY <1>2, <1>5
<1>7. BS!AtRest
  <2>1. pc = "idle"
    BY <1>1 DEF LineageInv, EmitInv
  <2> QED
    BY <1>1, <2>1, AtRest, FnsAtRest
<1> QED
  BY <1>3, <1>4, <1>6, <1>7 DEF BS!Publish, Sent, Rest

LEMMA ExtendShares ==
  ASSUME LineageInv, who = "server", Len(wire) = 1, ExtendSlab(wire[1])
  PROVE  BS!Restart
<1> PICK a : a = wire[1]
  OBVIOUS
<1> PICK m : m = Declaring(ScanMaxVar(a))
  OBVIOUS
<1> PICK r : r = Received(m, a)
  OBVIOUS
<1>1. Resting /\ Run(r) /\ UNCHANGED <<gcVars, loopVars, wire, other>>
  BY DEF ExtendSlab
<1>2. Receives(m, Current, a) /\ a \in Range(wire) /\ m.numVars \in 0 .. MaxVars
  BY <1>1, ExtendReceives
<1>3. /\ BS!AtRest /\ UNCHANGED <<Owed, Kept>>
      /\ HeldFns' = [k \in Handles |-> FnIn(r.den, r.held[k])]
      /\ numVars' = r.numVars
  BY <1>1, FnsAfterTurn
<1>4. \A k \in Handles :
        FnIn(r.den, r.held[k]) = IF k \in DOMAIN a.roots THEN a.fns[k]
                                 ELSE FnIn(m.den, m.held[k])
  BY <1>2, ReceivedHandles
<1>5. \A k \in Handles : m.held[k] = FalseRef
  BY DEF Declaring, NewManager
<1>6. DOMAIN a.fns = DOMAIN a.roots
  BY <1>2 DEF Receives, Published
<1>7. BS!FalseFn = FalseFn
  BY DEF BS!FalseFn, FalseFn
<1>8. HeldFns' = [k \in Handles |-> IF k \in DOMAIN a.fns THEN a.fns[k] ELSE BS!FalseFn]
  BY <1>3, <1>4, <1>5, <1>6, <1>7, FreshFns
<1>9. numVars' \in 0 .. MaxVars
  BY <1>2, <1>3 DEF Received
<1>10. a.fns \in Sent /\ Sent' = Sent /\ Rest' = Rest
  BY <1>1, <1>2 DEF Sent, Rest
<1> QED
  BY <1>3, <1>8, <1>9, <1>10 DEF BS!Restart, Sent, Rest

\* The collection a publication begins with is one a caller may ask for.
LEMMA EmitCollects ==
  ASSUME LineageInv, NEW S \in SUBSET Handles,
         IF wire = <<>> THEN SlabFor(S) ELSE DiffSince(baseLen, S)
  PROVE  GcCall /\ UNCHANGED <<wire, other>>
<1>1. baseLen \in Headers \cup {bufLen}
  BY DEF LineageInv
<1>2. CASE wire = <<>>
  BY <1>2 DEF SlabFor, GcCall
<1>3. CASE wire # <<>>
  <2>0. baseLen <= bufLen
    BY <1>3, RecordInArena DEF DiffSince
  <2>1. PICK roots \in SetToSeqs(S) : Gc(baseLen, roots)
    BY <1>3, <2>0 DEF DiffSince
  <2>2. DropRoots(roots) \/ \E b \in (Headers \cup {bufLen}) \ {0} : Gc(b, roots)
    BY <1>1, <2>1 DEF DropRoots
  <2>3. GcCall
    BY <2>2 DEF GcCall
  <2> QED
    BY <1>3, <2>3 DEF DiffSince
<1> QED
  BY <1>2, <1>3

LEMMA LineageShares ==
  ASSUME VarsFit, LineageInv, [LineageNext]_exVars
  PROVE  [BS!ShareNext]_<<HeldFns, numVars, Owed, Kept, Sent, Rest>>
<1>0. GcInv
  BY DEF LineageInv
<1>1. ASSUME [GcNext]_allVars, UNCHANGED <<wire, other>>
      PROVE  [BS!ShareNext]_<<HeldFns, numVars, Owed, Kept, Sent, Rest>>
  BY <1>0, <1>1, GcNextIsBoolGc, GcStepIsShared
<1>2. CASE Work \/ Collect
  <2>1. [GcNext]_allVars /\ UNCHANGED <<wire, other>>
    BY <1>2 DEF Work, Collect, GcNext
  <2> QED
    BY <1>1, <2>1
<1>3. CASE Publish
  BY <1>3, PublishShares DEF BS!ShareNext
<1>4. CASE Switch
  BY <1>4, SwitchShares DEF BS!ShareNext
<1>5. CASE \E S \in SUBSET Handles :
             IF wire = <<>> THEN SlabFor(S) ELSE DiffSince(baseLen, S)
  <2>1. GcCall /\ UNCHANGED <<wire, other>>
    BY <1>5, EmitCollects
  <2>2. [GcNext]_allVars
    BY <2>1 DEF GcNext
  <2> QED
    BY <1>1, <2>1, <2>2
<1>6. CASE who = "server" /\ Len(wire) = 1 /\ ExtendSlab(wire[1])
  BY <1>6, ExtendShares DEF BS!ShareNext
<1>7. CASE who = "client" /\ NewProcess
  BY <1>7, RestartShares DEF NewProcess, BS!ShareNext
<1>8. CASE /\ who = "client"
           /\ \E a \in Range(wire) :
                Declared(a) /\ (IngestSlab(a) \/ (bufLen = baseLen /\ ApplyDiff(a)))
  <2>1. PICK a \in Range(wire) :
          Declared(a) /\ (IngestSlab(a) \/ (bufLen = baseLen /\ ApplyDiff(a)))
    BY <1>8
  <2>2. a.kind = "slab" => a.base = 0
    BY DEF LineageInv, WireInv, Shared, Published
  <2>3. /\ Resting /\ UNCHANGED <<gcVars, loopVars, wire, emit, who, other>>
        /\ \/ bufLen = a.base /\ (bufLen = baseLen \/ bufLen = 0) /\ Receive(a)
           \/ Run(NewManager)
    BY <2>1, <2>2, IngestCases
  <2>4. BS!Receive \/ BS!Restart
    BY <1>8, <2>1, <2>3, ReceiveShares, RestartShares
  <2> QED
    BY <2>4 DEF BS!ShareNext
<1>9. CASE UNCHANGED exVars
  <2>1. [GcNext]_allVars /\ UNCHANGED <<wire, other>>
    BY <1>9 DEF exVars
  <2> QED
    BY <1>1, <2>1
<1> QED
  BY <1>2, <1>3, <1>4, <1>5, <1>6, <1>7, <1>8, <1>9 DEF LineageNext

LEMMA InitIsBoolShare == ExInit => BS!ShareInit
<1> SUFFICES ASSUME ExInit PROVE BS!ShareInit
  OBVIOUS
<1>1. GcInit /\ wire = <<>> /\ other = NewManager
  BY DEF ExInit
<1>2. GcBF!Init /\ Kept = {}
  BY <1>1, InitIsGcBF DEF GcBF!GcInit
<1>3. BS!FalseFn = GcBF!FalseFn /\ BS!NoneOwed = GcBF!NoneOwed
  BY DEF BS!FalseFn, GcBF!FalseFn, BS!NoneOwed, GcBF!NoneOwed
<1>4. BS!Init
  BY <1>2, <1>3 DEF GcBF!Init, BS!Init
<1>5. Sent = {}
  <2> PICK w : w = wire
    OBVIOUS
  <2>1. DOMAIN w = {}
    BY <1>1
  <2>2. Range(w) = {}
    BY <2>1 DEF Range
  <2> QED
    BY <2>2 DEF Sent
<1>6. Rest = BS!Fresh
  <2>1. \A k \in Handles : FnIn(other.den, other.held[k]) = FalseFn
    BY <1>1, FreshFns DEF NewManager
  <2>2. other.numVars = 0 /\ BS!Fresh = [fn |-> BS!Fresh.fn, numVars |-> 0]
    BY <1>1 DEF NewManager, BS!Fresh
  <2> QED
    BY <2>1, <2>2, FreshFns DEF Rest
<1> QED
  BY <1>2, <1>4, <1>5, <1>6 DEF BS!ShareInit, BS!GcInit, Sent, Rest

\* To their callers the two processes are BoolShare: what one receives is what
\* the other was asked to publish, after any receipt, collection or restart.
THEOREM ExchangeIsBoolShare ==
  ASSUME VarsFit
  PROVE  LineageSpec => BS!ShareInit /\ ImplementsBoolShare
<1>1. ExInit => BS!ShareInit
  BY InitIsBoolShare
<1>2. LineageInv /\ [LineageNext]_exVars => [BS!ShareNext]_BS!shareVars
  BY LineageShares DEF BS!shareVars, Sent, Rest
<1> QED
  BY <1>1, <1>2, LineageInvariance, PTL
  DEF LineageSpec, ImplementsBoolShare, BS!ShareSteps
=============================================================================
