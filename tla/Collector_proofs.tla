-------------------------- MODULE Collector_proofs --------------------------
(***************************************************************************)
(* Proofs about the garbage collector: what it keeps means what it meant,  *)
(* nothing below the base moves, and the engine it leaves is canonical.    *)
(***************************************************************************)
EXTENDS Collector, Manager_proofs

USE DEF ArenaTypeOK
-----------------------------------------------------------------------------
(* The engine between collections. *)

LEMMA BetweenIsCallInv ==
  BetweenInv <=> /\ CallInv
                 /\ bufLen > 0 => numVars > 0
                 /\ pc # "loop" => stack = <<>>
                 /\ gcStack = <<>> /\ remap = <<>> /\ postOrder = <<>>
BY CallInvIsIteInv DEF BetweenInv

LEMMA BetweenIsCallInvNext ==
  BetweenInv' <=> /\ CallInv'
                  /\ bufLen' > 0 => numVars' > 0
                  /\ pc' # "loop" => stack' = <<>>
                  /\ gcStack' = <<>> /\ remap' = <<>> /\ postOrder' = <<>>
<1>1. (BetweenInv <=> /\ CallInv
                      /\ bufLen > 0 => numVars > 0
                      /\ pc # "loop" => stack = <<>>
                      /\ gcStack = <<>> /\ remap = <<>> /\ postOrder = <<>>)'
  BY BetweenIsCallInv, PTL
<1> QED
  BY <1>1

LEMMA InitGcInv == GcInit => GcInv
<1> SUFFICES ASSUME GcInit PROVE GcInv
  OBVIOUS
<1>1. CallInv
  BY InitCallInv DEF GcInit
<1>2. ~ (bufLen > 0) /\ stack = <<>>
  BY DEF GcInit, Init
<1> QED
  BY <1>1, <1>2, BetweenIsCallInv DEF GcInit, GcInv

\* A variable is declared before a node is appended.
LEMMA NextDeclares ==
  ASSUME IInv, Next, bufLen > 0 => numVars > 0
  PROVE  bufLen' > 0 => numVars' > 0
<1>0. numVars \in Nat
  BY MaxVarsAssumption DEF IInv, ArenaInv, ArenaTypeOK, BytesTypeOK
<1>1. CASE NewVar
  BY <1>0, <1>1 DEF NewVar
<1>2. CASE \E k \in Handles : CallMakeNode(k)
  <2>1. PICK v \in 0 .. numVars - 1 : TRUE
    BY <1>2 DEF CallMakeNode
  <2>2. numVars' = numVars
    BY <1>2 DEF CallMakeNode
  <2> QED
    BY <1>0, <2>1, <2>2
<1>3. CASE IteCombine
  <2>1. numVars' = numVars
    BY <1>3 DEF IteCombine
  <2>2. CASE UNCHANGED arenaVars
    BY <2>1, <2>2 DEF arenaVars
  <2>3. CASE ~ UNCHANGED arenaVars
    <3>1. ~ MakeNodePanics(Head(stack).tv, results[2], results[1])
          /\ stack # <<>> /\ Head(stack).kind = "combine"
      BY <1>3, <2>3 DEF IteCombine
    <3>2. Head(stack).tv \in Nat
      BY <3>1, HeadType DEF IInv, Vars
    <3>3. ~ (Head(stack).tv >= numVars)
      BY <3>1 DEF MakeNodePanics
    <3> QED
      BY <1>0, <2>1, <3>2, <3>3
  <2> QED
    BY <2>2, <2>3
<1>4. CASE \E k \in Handles : Constant(k)
  BY <1>4 DEF Constant, arenaVars
<1>5. CASE \E k \in Handles : Not(k) \/ And(k) \/ Or(k) \/ Xor(k) \/ Ite(k)
  <2>1. UNCHANGED <<arenaVars, numVars>>
    BY <1>5 DEF Not, And, Or, Xor, Ite, StartIte
  <2> QED
    BY <2>1 DEF arenaVars
<1>6. CASE IteKnown \/ IteBegin \/ IteEnterKnown \/ IteExpand \/ IteReturn
  <2>1. UNCHANGED <<arenaVars, numVars>>
    BY <1>6 DEF IteKnown, IteBegin, IteEnterKnown, IteExpand, PopEnter, IteReturn
  <2> QED
    BY <2>1 DEF arenaVars
<1> QED
  BY <1>1, <1>2, <1>3, <1>4, <1>5, <1>6 DEF Next, IteStep

\* Out of its loop ite has no frames.
LEMMA NextStack ==
  ASSUME NoPanic', Next, pc # "loop" => stack = <<>>
  PROVE  pc' # "loop" => stack' = <<>>
<1>1. CASE NewVar \/ \E k \in Handles : Constant(k) \/ CallMakeNode(k)
  BY <1>1 DEF NewVar, Constant, CallMakeNode, loopVars
<1>2. CASE \E k \in Handles : Not(k) \/ And(k) \/ Or(k) \/ Xor(k) \/ Ite(k)
  BY <1>2 DEF Not, And, Or, Xor, Ite, StartIte, CanCall
<1>3. CASE IteKnown
  BY <1>3 DEF IteKnown
<1>4. CASE IteBegin
  BY <1>4 DEF IteBegin
<1>5. CASE IteEnterKnown
  BY <1>5 DEF IteEnterKnown, PopEnter
<1>6. CASE IteExpand
  BY <1>6 DEF IteExpand, PopEnter, NoPanic
<1>7. CASE IteCombine
  BY <1>7 DEF IteCombine, Panic, NoPanic
<1>8. CASE IteReturn
  BY <1>8 DEF IteReturn, Panic
<1> QED
  BY <1>1, <1>2, <1>3, <1>4, <1>5, <1>6, <1>7, <1>8 DEF Next, IteStep

\* The engine's own steps keep what a collection starts from.
LEMMA NextBetween ==
  ASSUME VarsFit, BetweenInv, Next, UNCHANGED gcVars
  PROVE  BetweenInv'
<1>1. CallInv /\ CallInv'
  BY BetweenIsCallInv, NextCallInv
<1>2. bufLen' > 0 => numVars' > 0
  BY <1>1, NextDeclares DEF CallInv, BetweenInv
<1>3. pc' # "loop" => stack' = <<>>
  BY <1>1, NextStack DEF CallInv, BetweenInv
<1> QED
  BY <1>1, <1>2, <1>3, BetweenIsCallInvNext DEF BetweenInv, gcVars
-----------------------------------------------------------------------------
(* A collection begins. *)

\* The caller passes a sequence of its handles and an offset of the arena.
LEMMA CallArguments ==
  ASSUME GcCall
  PROVE  \E b \in Headers \cup {0, bufLen}, roots \in Seq(Handles) : Gc(b, roots)
<1>1. PICK S \in SUBSET Handles : \E roots \in SetToSeqs(S) :
        DropRoots(roots) \/ \E b \in (Headers \cup {bufLen}) \ {0} : Gc(b, roots)
  BY DEF GcCall
<1>2. PICK roots \in SetToSeqs(S) :
        DropRoots(roots) \/ \E b \in (Headers \cup {bufLen}) \ {0} : Gc(b, roots)
  BY <1>1
<1>3. Cardinality(S) \in Nat
  BY CollectorAssumption, FS_Subset, FS_CardinalityType
<1>4. roots \in [1 .. Cardinality(S) -> Handles]
  BY <1>2 DEF SetToSeqs
<1>5. roots \in Seq(Handles)
  BY <1>3, <1>4, IsASeq
<1> QED
  BY <1>2, <1>5 DEF DropRoots

\* With a base in the arena the assertion holds: the caller's arena is left as
\* it is, and the collection begins unless there is no tail.
LEMMA GcInArena ==
  ASSUME bufLen \in Nat, NEW b \in 0 .. bufLen, NEW roots, Gc(b, roots)
  PROVE  /\ phase = "off" /\ pc = "idle" /\ UNCHANGED vars
         /\ \/ b = bufLen /\ UNCHANGED gcVars
            \/ b < bufLen /\ GcBegin(b, roots)
<1>1. /\ phase = "off" /\ pc = "idle"
      /\ CASE b > bufLen -> GcPanic
           [] b = bufLen -> UNCHANGED <<pc, gcVars>>
           [] OTHER      -> GcBegin(b, roots)
      /\ UNCHANGED <<arenaVars, numVars, cacheVars, held, call, stack, results>>
  BY DEF Gc
<1>2. \/ b = bufLen /\ UNCHANGED <<pc, gcVars>>
      \/ b < bufLen /\ GcBegin(b, roots)
  BY <1>1
<1>3. pc' = pc
  BY <1>2 DEF GcBegin
<1> QED
  BY <1>1, <1>2, <1>3 DEF vars, loopVars

\* So do the caller's collections, whose base is a header or the arena's end.
LEMMA CallInArena ==
  ASSUME GcInv, GcCall
  PROVE  /\ phase = "off" /\ pc = "idle" /\ UNCHANGED vars
         /\ \/ UNCHANGED gcVars
            \/ \E b \in Nat, roots \in Seq(Handles) : GcBegin(b, roots)
<1>1. PICK b \in Headers \cup {0, bufLen}, roots \in Seq(Handles) : Gc(b, roots)
  BY CallArguments
<1>2. BetweenInv
  BY <1>1 DEF GcInv, Gc
<1>3. bufLen \in Nat /\ \A o \in Headers : o \in 0 .. bufLen - 1
  BY <1>2, CodecAssumption DEF BetweenInv, IInv, ArenaInv, ArenaTypeOK, BytesTypeOK
<1>4. b \in 0 .. bufLen
  BY <1>3
<1> QED
  BY <1>1, <1>3, <1>4, GcInArena

\* The snapshot a collection takes is the arena it found.
LEMMA GcSnapshot ==
  ASSUME ArenaInv, VarBytesFit, UNCHANGED vars,
         NEW b \in Nat, base' = b, oldDen' = den,
         oldTail' = [o \in {o \in Headers : o >= b} |-> buf[o]]
  PROVE  Snapshot' /\ OldRefs' = Nodes
<1> USE DEF ArenaInv
<1>1. UNCHANGED <<buf, den, numVars>>
  BY DEF vars, arenaVars
<1>2. \A o \in Headers : o \in Nat /\ o \notin Terminals
  BY HeaderType
<1>3. /\ Headers' = Headers
      /\ DOMAIN oldTail' = {o \in Headers : o >= b}
      /\ OldNodes' = {o \in Headers : o < b}
  BY <1>1 DEF Headers, OldNodes
<1>4. OldRefs' = Nodes
  BY <1>2, <1>3 DEF OldRefs, Nodes
<1>5. \A r : OldFn(r)' = Den(r)
  <2> SUFFICES ASSUME NEW r PROVE OldFn(r)' = Den(r)
    OBVIOUS
  <2>1. CASE r \in Terminals
    BY <2>1 DEF OldFn, Den, IsNode, Terminals, FalseRef, TrueRef
  <2>2. CASE r \notin Terminals
    BY <2>2 DEF OldFn, Den, IsNode, Terminals, FalseRef, TrueRef
  <2> QED
    BY <2>1, <2>2
<1>6. \A o \in DOMAIN oldTail' : OldNode(o)' = Node(o)
  BY <1>3 DEF OldNode, Decode, Node
<1>7. \A c \in Nodes : IsNode(c) => OldVar(c)' = VarOf(c)
  BY <1>1, <1>3 DEF OldVar, IsYoung, VarOf, Nodes, IsNode
<1>8. oldTail' \in [DOMAIN oldTail' -> RawNodes]
  BY <1>3 DEF ArenaTypeOK, BytesTypeOK
<1>9. \A o \in DOMAIN oldTail' : o \in Nat /\ o >= base'
  BY <1>2, <1>3
<1>10. \A o \in OldNodes' : oldDen'[o] = den'[o]
  BY <1>1
<1>11. \A r, s \in OldRefs' : OldFn(r)' = OldFn(s)' => r = s
  BY <1>4, <1>5 DEF Canonical
<1>12. ASSUME NEW o \in DOMAIN oldTail' PROVE OldNodeSound(o)'
  <2> PICK n : n = Node(o)
    OBVIOUS
  <2>1. o \in Headers
    BY <1>3
  <2>2. n.var = VarOf(o)
    BY DEF Node, Decode, VarOf
  <2>3. /\ n.var < numVars /\ n.var < VarRadix /\ n.lo # n.hi
        /\ \A c \in {n.lo, n.hi} : c \in Nodes /\ (IsNode(c) => VarOf(c) > n.var)
        /\ den[o] = Shannon(n.var, Den(n.lo), Den(n.hi))
    BY <2>1, <2>2 DEF Reduced, Meaning, VarBytesFit
  <2>4. OldNode(o)' = n
    BY <1>6
  <2>5. \A c \in {n.lo, n.hi} : c \in OldRefs' /\ (IsNode(c) => OldVar(c)' > n.var)
    BY <1>4, <1>7, <2>3
  <2>6. oldDen'[o] = Shannon(n.var, OldFn(n.lo)', OldFn(n.hi)')
    BY <1>5, <2>3
  <2> QED
    BY <1>1, <2>3, <2>4, <2>5, <2>6 DEF OldNodeSound, IsNode
<1>13. Snapshot'
  BY <1>8, <1>9, <1>10, <1>11, <1>12 DEF Snapshot, IsNode
<1> QED
  BY <1>4, <1>13

LEMMA GcBegins ==
  ASSUME VarsFit, phase = "off", BetweenInv,
         NEW b \in 0 .. bufLen, NEW roots \in Seq(Handles), Gc(b, roots)
  PROVE  GcInv'
<1>0. CallInv /\ gcStack = <<>> /\ remap = <<>> /\ postOrder = <<>>
  BY BetweenIsCallInv
<1>1. Gc(b, roots)
  OBVIOUS
<1>5. bufLen \in Nat
  BY <1>0, CodecAssumption DEF CallInv, IInv, ArenaInv, ArenaTypeOK, BytesTypeOK
<1>2. pc = "idle" /\ UNCHANGED vars
  BY <1>1, <1>5, GcInArena
<1>3. CASE b = bufLen
  <2>1. UNCHANGED gcVars
    BY <1>1, <1>3, <1>5, GcInArena
  <2>2. CallInv'
    BY <1>0, <1>2, NextCallInv
  <2> QED
    BY <1>0, <1>2, <2>1, <2>2, BetweenIsCallInvNext
       DEF BetweenInv, GcInv, vars, gcVars, arenaVars, loopVars
<1>4. CASE b # bufLen
  <2>1. /\ phase' = "mark"
        /\ base' = b /\ keep' = roots /\ nextRoot' = 1
        /\ oldTail' = [o \in {o \in Headers : o >= b} |-> buf[o]]
        /\ oldDen' = den
        /\ UNCHANGED <<gcStack, remap, postOrder>>
    BY <1>1, <1>4, <1>5, GcInArena DEF GcBegin
  <2>2. ArenaInv /\ VarBytesFit /\ CallTypeOK /\ OnItsWay
    BY <1>0 DEF CallInv, IInv
  <2>3. bufLen \in Nat /\ \A o \in Headers : o \in 0 .. bufLen - 1
    BY <2>2, CodecAssumption DEF ArenaInv, ArenaTypeOK, BytesTypeOK
  <2>4. b \in Nat /\ bufLen > 0 /\ bufLen >= b
    BY <1>4, <2>3
  <2>5. numVars > 0
    BY <2>4 DEF BetweenInv
  <2>6. Snapshot' /\ OldRefs' = Nodes
    BY <1>2, <2>1, <2>2, <2>4, GcSnapshot
  <2>7. /\ UNCHANGED <<arenaVars, numVars, cache, held, pc, call, stack, results>>
        /\ buf' = buf /\ den' = den /\ bufLen' = bufLen
    BY <1>2 DEF vars, cacheVars, loopVars, arenaVars
  <2>8. gcStack' = <<>> /\ remap' = <<>> /\ postOrder' = <<>>
        /\ DOMAIN remap' = {} /\ Range(postOrder') = {} /\ DOMAIN gcStack' = {}
    BY <1>0, <2>1 DEF Range
  <2>9. WalkSound'
    <3>1. Live' = {} /\ OnStack' = {}
      BY <2>8 DEF Live, OnStack
    <3>2. \A i \in DOMAIN keep' : ~ (i < nextRoot')
      BY <2>1
    <3>3. /\ gcStack' \in Seq(WalkFrames')
          /\ postOrder' \in Seq(DOMAIN oldTail')
      BY <2>8
    <3> QED
      BY <2>8, <3>1, <3>2, <3>3 DEF WalkSound
  <2>10. MarkInv'
    <3>1. ArenaInv' /\ VarBytesFit'
      BY <2>2, <2>7, SameArena, BytesKept
    <3>2. oldTail' = [o \in YoungNodes(base)' |-> buf'[o]]
      BY <2>1, <2>7 DEF YoungNodes, Headers
    <3> QED
      BY <2>1, <2>7, <2>8, <3>1, <3>2 DEF MarkInv
  <2>11. DuringInv'
    <3>1. call = NoCall /\ stack = <<>> /\ results = <<>>
      BY <1>2, <2>2 DEF OnItsWay, BetweenInv
    <3>2. held \in [Handles -> Nodes] /\ DOMAIN cache = 0 .. CacheSlots - 1
      BY <2>2 DEF CallTypeOK
    <3> QED
      BY <1>2, <2>1, <2>4, <2>5, <2>6, <2>7, <2>9, <3>1, <3>2 DEF DuringInv, NoCall
  <2> QED
    BY <2>1, <2>10, <2>11 DEF GcInv
<1> QED
  BY <1>3, <1>4

LEMMA GcCallInv ==
  ASSUME VarsFit, phase = "off", BetweenInv, GcCall
  PROVE  GcInv'
<1>1. PICK b \in Headers \cup {0, bufLen}, roots \in Seq(Handles) : Gc(b, roots)
  BY CallArguments
<1>2. bufLen \in Nat /\ \A o \in Headers : o \in 0 .. bufLen - 1
  BY CodecAssumption DEF BetweenInv, IInv, ArenaInv, ArenaTypeOK, BytesTypeOK
<1>3. b \in 0 .. bufLen
  BY <1>2
<1> QED
  BY <1>1, <1>3, GcBegins
-----------------------------------------------------------------------------
(* What every step of a collection leaves alone. *)

\* The snapshot is not read from anything a step changes.
LEMMA SnapshotKept ==
  ASSUME Snapshot, UNCHANGED <<base, oldTail, oldDen, numVars>>,
         OldNodes' = OldNodes,
         \A o \in OldNodes : den'[o] = den[o] /\ VarOf(o)' = VarOf(o)
  PROVE  /\ Snapshot'
         /\ OldRefs' = OldRefs
         /\ \A r : /\ OldFn(r)' = OldFn(r)
                   /\ IsYoung(r)' <=> IsYoung(r)
                   /\ OldNode(r)' = OldNode(r)
                   /\ YoungChildren(r)' = YoungChildren(r)
<1>1. OldRefs' = OldRefs
  BY DEF OldRefs
<1>2. ASSUME NEW r PROVE OldFn(r)' = OldFn(r)
  <2>1. CASE r \in Terminals
    BY <2>1 DEF OldFn, Den, IsNode, Terminals, FalseRef, TrueRef
  <2>2. CASE r \notin Terminals
    BY <2>2 DEF OldFn, IsNode
  <2> QED
    BY <2>1, <2>2
<1>3. \A r : /\ IsYoung(r)' <=> IsYoung(r)
             /\ OldNode(r)' = OldNode(r)
             /\ YoungChildren(r)' = YoungChildren(r)
  BY DEF IsYoung, OldNode, YoungChildren, Decode
<1>4. \A c \in OldRefs : IsNode(c) => OldVar(c)' = OldVar(c)
  BY DEF OldRefs, OldVar, IsYoung, IsNode, Snapshot
<1>5. ASSUME NEW o \in DOMAIN oldTail, OldNodeSound(o)
      PROVE  OldNodeSound(o)'
  <2> PICK n : n = OldNode(o)
    OBVIOUS
  <2>1. /\ n.var < numVars /\ n.var < VarRadix
        /\ n.lo # n.hi
        /\ \A c \in {n.lo, n.hi} :
             c \in OldRefs /\ (IsNode(c) => OldVar(c) > n.var)
        /\ oldDen[o] = Shannon(n.var, OldFn(n.lo), OldFn(n.hi))
    BY <1>5 DEF OldNodeSound
  <2>2. OldNode(o)' = n
    BY <1>3
  <2>3. \A c \in {n.lo, n.hi} :
          c \in OldRefs' /\ (IsNode(c) => OldVar(c)' > n.var)
    BY <1>1, <1>4, <2>1
  <2>4. oldDen'[o] = Shannon(n.var, OldFn(n.lo)', OldFn(n.hi)')
    BY <1>2, <2>1
  <2> QED
    BY <2>1, <2>2, <2>3, <2>4 DEF OldNodeSound, IsNode
<1>6. \A r, s \in OldRefs' : OldFn(r)' = OldFn(s)' => r = s
  BY <1>1, <1>2 DEF Snapshot
<1>7. Snapshot'
  BY <1>5, <1>6 DEF Snapshot
<1> QED
  BY <1>1, <1>2, <1>3, <1>7

\* A young reference of the old arena is a node of the old tail.
LEMMA YoungIsTail ==
  ASSUME BytesTypeOK, base \in Nat, NEW r \in OldRefs, IsYoung(r)
  PROVE  r \in DOMAIN oldTail
<1>1. r \notin OldNodes
  <2> SUFFICES ASSUME r \in OldNodes PROVE FALSE
    OBVIOUS
  <2>1. r \in 0 .. bufLen - 1 /\ r < base /\ r >= base
    BY DEF OldNodes, IsYoung, BytesTypeOK
  <2>2. bufLen \in Int
    BY CodecAssumption DEF BytesTypeOK
  <2>3. r \in Int
    BY <2>1, <2>2
  <2> QED
    BY <2>1, <2>3
<1> QED
  BY <1>1 DEF OldRefs, IsYoung, IsNode
-----------------------------------------------------------------------------
(* The walk. *)

\* A step of the walk moves its stack, its marks and its list alone.
LEMMA MarkingKeeps ==
  ASSUME phase = "mark", DuringInv, MarkInv, Marking
  PROVE  /\ Snapshot'
         /\ OldRefs' = OldRefs
         /\ \A r : /\ IsYoung(r)' <=> IsYoung(r)
                   /\ YoungChildren(r)' = YoungChildren(r)
         /\ Roots' = Roots
         /\ ArenaInv' /\ VarBytesFit'
         /\ UNCHANGED <<vars, phase, base, keep, oldTail, oldDen>>
<1>1. UNCHANGED <<vars, phase, base, keep, oldTail, oldDen>>
  BY DEF Marking
<1>2. UNCHANGED <<arenaVars, numVars, held, buf, den>>
  BY <1>1 DEF vars, arenaVars
<1>3. OldNodes' = OldNodes
  BY <1>1, <1>2 DEF OldNodes, Headers
<1>4. \A o \in OldNodes : den'[o] = den[o] /\ VarOf(o)' = VarOf(o)
  BY <1>2 DEF VarOf
<1>5. ArenaInv' /\ VarBytesFit'
  BY <1>2, SameArena, BytesKept DEF MarkInv
<1>6. Roots' = Roots
  BY <1>1, <1>2 DEF Roots
<1>7. /\ Snapshot'
      /\ OldRefs' = OldRefs
      /\ \A r : /\ IsYoung(r)' <=> IsYoung(r)
                /\ YoungChildren(r)' = YoungChildren(r)
  BY <1>1, <1>2, <1>3, <1>4, SnapshotKept DEF DuringInv
<1> QED
  BY <1>1, <1>5, <1>6, <1>7

\* It keeps the invariant if it keeps what the walk has.
LEMMA MarkStep ==
  ASSUME phase = "mark", DuringInv, MarkInv, Marking,
         WalkSound', nextRoot' \in Nat \ {0}, DOMAIN remap' = Range(postOrder')
  PROVE  GcInv'
<1>1. /\ Snapshot' /\ OldRefs' = OldRefs /\ ArenaInv' /\ VarBytesFit'
      /\ UNCHANGED <<vars, phase, base, keep, oldTail, oldDen>>
  BY MarkingKeeps
<1>2. UNCHANGED <<buf, bufLen, den, numVars, held, pc, call, stack, results, cache>>
  BY <1>1 DEF vars, arenaVars, loopVars, cacheVars
<1>3. DuringInv'
  BY <1>1, <1>2 DEF DuringInv, NoCall
<1>4. YoungNodes(base)' = YoungNodes(base)
  BY <1>1, <1>2 DEF YoungNodes, Headers
<1>5. MarkInv'
  BY <1>1, <1>2, <1>4 DEF MarkInv
<1> QED
  BY <1>1, <1>3, <1>5 DEF GcInv

\* u is the stack s after its top frame has made place for the frames w.
Pushed(F, s, w, u) ==
  /\ u \in Seq(F)
  /\ s[1] = Head(s) /\ 1 \in DOMAIN s /\ Head(s) \in F
  /\ \A i \in DOMAIN s : i \in Nat /\ i >= 1
  /\ Len(w) \in Nat
  /\ \A i \in DOMAIN w : i \in 1 .. Len(w) /\ i \in DOMAIN u /\ u[i] = w[i]
  /\ \A i \in DOMAIN s :
       i = 1 \/ (i - 1 + Len(w) \in DOMAIN u /\ u[i - 1 + Len(w)] = s[i])
  /\ \A k \in DOMAIN u :
       \/ k \in DOMAIN w /\ u[k] = w[k]
       \/ \E i \in DOMAIN s : i # 1 /\ k = i - 1 + Len(w) /\ u[k] = s[i]

LEMMA PushFacts ==
  ASSUME NEW F, NEW s \in Seq(F), s # <<>>, NEW w \in Seq(F),
         NEW u, u = w \o Tail(s)
  PROVE  Pushed(F, s, w, u)
<1> PICK t : t = Tail(s)
  OBVIOUS
<1> PICK n : n = Len(s)
  OBVIOUS
<1> PICK m : m = Len(w)
  OBVIOUS
<1>1. n \in Nat /\ n >= 1 /\ m \in Nat /\ DOMAIN s = 1 .. n /\ DOMAIN w = 1 .. m
  OBVIOUS
<1>2. t \in Seq(F) /\ Len(t) = n - 1 /\ \A i \in 1 .. n - 1 : t[i] = s[i + 1]
  BY <1>1
<1>3. /\ u \in Seq(F) /\ Len(u) = m + n - 1 /\ DOMAIN u = 1 .. m + n - 1
      /\ \A i \in 1 .. m : u[i] = w[i]
      /\ \A i \in 1 .. n - 1 : u[m + i] = t[i]
  BY <1>1, <1>2
<1>4. ASSUME NEW i \in 1 .. n, i # 1
      PROVE  i - 1 + m \in 1 .. m + n - 1 /\ u[i - 1 + m] = s[i]
  <2>1. i - 1 \in 1 .. n - 1 /\ (i - 1) + 1 = i /\ i - 1 + m = m + (i - 1)
    BY <1>1, <1>4
  <2>2. u[m + (i - 1)] = t[i - 1] /\ t[i - 1] = s[(i - 1) + 1]
    BY <1>2, <1>3, <2>1
  <2> QED
    BY <1>1, <2>1, <2>2
<1>5. ASSUME NEW k \in 1 .. m + n - 1, k \notin 1 .. m
      PROVE  \E i \in 1 .. n : i # 1 /\ k = i - 1 + m /\ u[k] = s[i]
  <2> PICK i : i = k - m + 1
    OBVIOUS
  <2>1. i \in 1 .. n /\ i # 1 /\ k = i - 1 + m
    BY <1>1, <1>5
  <2> QED
    BY <1>4, <2>1
<1>6. s[1] = Head(s) /\ Head(s) \in F
  BY <1>1
<1>7. \A i \in DOMAIN s : i \in Nat /\ i >= 1
  BY <1>1
<1>8. \A i \in DOMAIN w : i \in 1 .. Len(w) /\ i \in DOMAIN u /\ u[i] = w[i]
  BY <1>1, <1>3
<1>9. \A i \in DOMAIN s :
              i = 1 \/ (i - 1 + Len(w) \in DOMAIN u /\ u[i - 1 + Len(w)] = s[i])
  BY <1>1, <1>3, <1>4
<1>10. \A k \in DOMAIN u :
              \/ k \in DOMAIN w /\ u[k] = w[k]
              \/ \E i \in DOMAIN s :
                   i # 1 /\ k = i - 1 + Len(w) /\ u[k] = s[i]
  <2> SUFFICES ASSUME NEW k \in 1 .. m + n - 1
               PROVE \/ k \in DOMAIN w /\ u[k] = w[k]
                     \/ \E i \in DOMAIN s : i # 1 /\ k = i - 1 + Len(w) /\ u[k] = s[i]
    BY <1>3
  <2>1. CASE k \in 1 .. m
    BY <2>1, <1>1, <1>3
  <2>2. CASE k \notin 1 .. m
    <3>1. \E i \in 1 .. n : i # 1 /\ k = i - 1 + m /\ u[k] = s[i]
      BY ONLY <1>5, <2>2, k \in 1 .. m + n - 1
    <3> QED
      BY <1>1, <3>1
  <2> QED
    BY <2>1, <2>2
<1> QED
  BY ONLY <1>1, m = Len(w), <1>3, <1>6, <1>7, <1>8, <1>9, <1>10 DEF Pushed

\* The frames w enter o, if any: its children not in L, above its exit.
Entering(o, w, L) ==
  /\ w # <<>> => \E i \in DOMAIN w : w[i].kind = "exit" /\ w[i].off = o
  /\ \A i \in DOMAIN w :
       /\ w[i].off = o \/ w[i].off \in YoungChildren(o)
       /\ w[i].kind = "exit" =>
            \A c \in YoungChildren(w[i].off) :
              c \in L \/ \E j \in 1 .. i - 1 : w[j].off = c

\* The frame on top of the stack makes place for the frames w.
LEMMA WalkStep ==
  ASSUME phase = "mark", DuringInv, MarkInv, Marking, gcStack # <<>>,
         nextRoot' = nextRoot,
         NEW w \in Seq(WalkFrames), gcStack' = w \o Tail(gcStack),
         NEW o, o = Head(gcStack).off,
         Live \subseteq Live', Live' \subseteq Live \cup {o},
         o \in Live' \/ \E i \in DOMAIN w : w[i].off = o,
         Head(gcStack).kind = "exit" => o \in Live',
         Entering(o, w, Live'),
         postOrder' \in Seq(DOMAIN oldTail),
         \A i, j \in DOMAIN postOrder' : postOrder'[i] = postOrder'[j] => i = j,
         \A i \in DOMAIN postOrder' : \A c \in YoungChildren(postOrder'[i]) :
           \E j \in 1 .. i - 1 : postOrder'[j] = c
  PROVE  WalkSound'
<1> USE DEF Entering
<1>0. WalkSound
  BY DEF DuringInv
<1> PICK s : s = gcStack
  OBVIOUS
<1> PICK u : u = gcStack'
  OBVIOUS
<1> PICK L : L = Live
  OBVIOUS
<1> PICK L2 : L2 = Live'
  OBVIOUS
<1>1. /\ Roots' = Roots /\ WalkFrames' = WalkFrames
      /\ \A r : /\ IsYoung(r)' <=> IsYoung(r)
                /\ YoungChildren(r)' = YoungChildren(r)
      /\ UNCHANGED <<phase, keep, held, oldTail>>
  BY MarkingKeeps DEF vars, WalkFrames
<1>2. s \in Seq(WalkFrames) /\ s # <<>> /\ u = w \o Tail(s)
  BY <1>0 DEF WalkSound
<1>3. /\ u \in Seq(WalkFrames)
      /\ s[1] = Head(s) /\ 1 \in DOMAIN s
      /\ \A i \in DOMAIN s : i \in Nat /\ i >= 1
      /\ Len(w) \in Nat
      /\ \A i \in DOMAIN w : i \in 1 .. Len(w) /\ i \in DOMAIN u /\ u[i] = w[i]
      /\ \A i \in DOMAIN s :
           i = 1 \/ (i - 1 + Len(w) \in DOMAIN u /\ u[i - 1 + Len(w)] = s[i])
      /\ \A k \in DOMAIN u :
           \/ k \in DOMAIN w /\ u[k] = w[k]
           \/ \E i \in DOMAIN s : i # 1 /\ k = i - 1 + Len(w) /\ u[k] = s[i]
  <2>1. Pushed(WalkFrames, s, w, u)
    BY ONLY <1>2, w \in Seq(WalkFrames), PushFacts
  <2> QED
    BY ONLY <2>1 DEF Pushed
<1>4. /\ OnStack = {s[i].off : i \in DOMAIN s}
      /\ OnStack' = {u[i].off : i \in DOMAIN u}
      /\ \A p : p \in Entered <=> p \in L \/ \E i \in DOMAIN s : s[i].kind = "exit" /\ s[i].off = p
      /\ \A p : p \in Entered' <=> p \in L2 \/ \E i \in DOMAIN u : u[i].kind = "exit" /\ u[i].off = p
  BY SMTT(20) DEF OnStack, Entered
<1>5. \A x : x \in L \cup OnStack => x \in L2 \cup OnStack'
  <2>1. o \in L2 \cup OnStack'
    BY <1>3, <1>4
  <2>2. ASSUME NEW i \in DOMAIN s PROVE s[i].off \in L2 \cup OnStack'
    <3>1. CASE i = 1
      BY <1>3, <2>1, <3>1
    <3>2. CASE i # 1
      <4> PICK k : k = i - 1 + Len(w)
        OBVIOUS
      <4>1. k \in DOMAIN u /\ u[k] = s[i]
        BY <1>3, <3>2
      <4> QED
        BY <1>4, <4>1
    <3> QED
      BY <3>1, <3>2
  <2> SUFFICES ASSUME NEW x \in L \cup OnStack PROVE x \in L2 \cup OnStack'
    OBVIOUS
  <2>3. CASE x \in OnStack
    <3>1. PICK i \in DOMAIN s : x = s[i].off
      BY <1>4, <2>3
    <3> QED
      BY <2>2, <3>1
  <2> QED
    BY <2>3
<1>6. \A p : p \in Entered => p \in Entered'
  <2>1. ASSUME NEW i \in DOMAIN s, s[i].kind = "exit" PROVE s[i].off \in Entered'
    <3>1. CASE i = 1
      BY <1>3, <1>4, <2>1, <3>1
    <3>2. CASE i # 1
      <4> PICK k : k = i - 1 + Len(w)
        OBVIOUS
      <4>1. k \in DOMAIN u /\ u[k] = s[i]
        BY <1>3, <3>2
      <4> QED
        BY <1>4, <2>1, <4>1
    <3> QED
      BY <3>1, <3>2
  <2> QED
    BY <1>4, <2>1
<1>7. w # <<>> => o \in Entered'
  BY <1>3, <1>4
<1>8. ASSUME NEW k \in DOMAIN u, u[k].kind = "exit", NEW c \in YoungChildren(u[k].off)
      PROVE  c \in L2 \/ \E j \in 1 .. k - 1 : u[j].off = c
  <2>1. CASE k \in DOMAIN w /\ u[k] = w[k]
    <3>1. c \in L2 \/ \E j \in 1 .. k - 1 : w[j].off = c
      BY <1>8, <2>1
    <3>2. \A j \in 1 .. k - 1 : j \in DOMAIN w /\ u[j] = w[j]
      <4>1. k \in 1 .. Len(w) /\ DOMAIN w = 1 .. Len(w)
        BY <1>3, <2>1
      <4>2. \A j \in 1 .. k - 1 : j \in 1 .. Len(w)
        BY <1>3, <4>1
      <4> QED
        BY <1>3, <4>1, <4>2
    <3> QED
      BY <3>1, <3>2
  <2>2. CASE \E i \in DOMAIN s : i # 1 /\ k = i - 1 + Len(w) /\ u[k] = s[i]
    <3>1. PICK i \in DOMAIN s : i # 1 /\ k = i - 1 + Len(w) /\ u[k] = s[i]
      BY <2>2
    <3>2. c \in L \/ \E j \in 1 .. i - 1 : s[j].off = c
      BY <1>0, <1>8, <3>1, SMTT(20) DEF WalkSound
    <3>3. ASSUME NEW j \in 1 .. i - 1, s[j].off = c
          PROVE  c \in L2 \/ \E l \in 1 .. k - 1 : u[l].off = c
      <4>1. j \in DOMAIN s /\ i \in Nat
        <5>1. DOMAIN s = 1 .. Len(s) /\ Len(s) \in Nat
          BY <1>2
        <5> QED
          BY ONLY <3>1, <5>1
      <4>2. CASE j = 1
        <5>1. c = o
          BY <1>3, <3>3, <4>2
        <5>2. i \in Nat /\ i >= 2 /\ Len(w) \in Nat
          <6>1. i \in Nat /\ i # 1 /\ i # 0
            <7>1. DOMAIN s = 1 .. Len(s) /\ Len(s) \in Nat
              BY <1>2
            <7> QED
              BY ONLY <3>1, <7>1
          <6> QED
            BY <1>3, <6>1
        <5>3. \A l \in 1 .. Len(w) : l \in 1 .. k - 1
          BY <3>1, <5>2
        <5>4. \A l \in DOMAIN w : l \in 1 .. k - 1 /\ u[l] = w[l]
          BY <1>3, <5>3
        <5> QED
          BY <5>1, <5>4
      <4>3. CASE j # 1
        <5>1. u[j - 1 + Len(w)] = s[j]
          BY <1>3, <4>1, <4>3
        <5>2. j - 1 + Len(w) \in 1 .. k - 1
          <6> PICK m : m = Len(w)
            OBVIOUS
          <6>1. i \in Nat /\ i >= 2 /\ m \in Nat /\ j \in 2 .. i - 1 /\ k = i - 1 + m
            BY <1>3, <3>1, <4>3, SMTT(20)
          <6>2. j - 1 + m \in 1 .. k - 1
            BY ONLY <6>1
          <6> QED
            BY <6>2
        <5> QED
          BY <3>3, <5>1, <5>2
      <4> QED
        BY <4>2, <4>3
    <3> QED
      BY <3>2, <3>3
  <2> QED
    BY <1>3, <2>1, <2>2
<1>9. ASSUME NEW x \in L2 \cup OnStack'
      PROVE  x \in Roots \/ \E p \in Entered' : x \in YoungChildren(p)
  <2>1. \A y \in L \cup OnStack : y \in Roots \/ \E p \in Entered' : y \in YoungChildren(p)
    BY <1>0, <1>6 DEF WalkSound
  <2>2. o \in OnStack
    BY <1>3, <1>4
  <2>3. CASE x \in L2
    BY <2>1, <2>2, <2>3
  <2>4. CASE x \in OnStack'
    <3>1. PICK k \in DOMAIN u : x = u[k].off
      BY <1>4, <2>4
    <3>2. CASE k \in DOMAIN w /\ u[k] = w[k]
      <4>1. w # <<>>
        BY <3>2
      <4>2. x = o \/ x \in YoungChildren(o)
        BY <3>1, <3>2
      <4> QED
        BY <1>7, <2>1, <2>2, <4>1, <4>2
    <3>3. CASE \E i \in DOMAIN s : u[k] = s[i]
      <4>1. x \in OnStack
        BY <1>4, <3>1, <3>3
      <4> QED
        BY <2>1, <4>1
    <3> QED
      BY <1>3, <3>2, <3>3
  <2> QED
    BY <1>9, <2>3, <2>4
<1>10. \A i \in DOMAIN keep :
         i < nextRoot /\ IsYoung(held[keep[i]])
           => held[keep[i]] \in L2 \cup OnStack'
  BY <1>0, <1>5 DEF WalkSound
<1>11. /\ gcStack' \in Seq(WalkFrames') /\ postOrder' \in Seq(DOMAIN oldTail')
  BY <1>1, <1>3
<1>12. \A i \in DOMAIN gcStack' :
         gcStack'[i].kind = "exit" =>
           \A c \in YoungChildren(gcStack[i].off)' :
             c \in Live' \/ \E j \in 1 .. i - 1 : gcStack'[j].off = c
  <2>1. \A k \in DOMAIN u : u[k].kind = "exit" =>
          \A c \in YoungChildren(u[k].off) :
            c \in L2 \/ \E j \in 1 .. k - 1 : u[j].off = c
    BY <1>8
  <2>2. \A k : YoungChildren(gcStack[k].off)' = YoungChildren(u[k].off)
    BY <1>1
  <2>3. \A k \in DOMAIN u : u[k].kind = "exit" =>
          \A c \in YoungChildren(gcStack[k].off)' :
            c \in L2 \/ \E j \in 1 .. k - 1 : u[j].off = c
    BY ONLY <2>1, <2>2
  <2> QED
    BY ONLY <2>3, u = gcStack', L2 = Live'
<1>13. \A i \in DOMAIN postOrder' : \A c \in YoungChildren(postOrder[i])' :
         \E j \in 1 .. i - 1 : postOrder'[j] = c
  BY <1>1
<1>14. \A i \in DOMAIN keep' :
         i < nextRoot' /\ IsYoung(held[keep[i]])'
           => held'[keep'[i]] \in Live' \cup OnStack'
  BY <1>1, <1>10
<1>15. \A x \in Live' \cup OnStack' :
         x \in Roots' \/ \E p \in Entered' : x \in YoungChildren(p)'
  BY <1>1, <1>9
<1> QED
  BY <1>11, <1>12, <1>13, <1>14, <1>15, ZenonT(40) DEF WalkSound

\* A walk begins at a root that is not visited.
LEMMA GcRootInv ==
  ASSUME phase = "mark", DuringInv, MarkInv, GcRoot
  PROVE  GcInv'
<1>0. WalkSound /\ nextRoot \in Nat \ {0} /\ keep \in Seq(Handles)
      /\ held \in [Handles -> OldRefs] /\ base \in Nat /\ BytesTypeOK
      /\ DOMAIN remap = Range(postOrder)
  BY DEF DuringInv, MarkInv, ArenaInv
<1> PICK r : r = held[keep[nextRoot]]
  OBVIOUS
<1> PICK u : u = gcStack'
  OBVIOUS
<1>1. /\ Marking /\ gcStack = <<>> /\ nextRoot <= Len(keep)
      /\ u = IF IsYoung(r) /\ r \notin Visited
             THEN <<[kind |-> "enter", off |-> r]>> ELSE <<>>
      /\ nextRoot' = nextRoot + 1
      /\ UNCHANGED <<remap, postOrder>>
  BY DEF GcRoot
<1>2. /\ Roots' = Roots /\ WalkFrames' = WalkFrames
      /\ \A x : /\ IsYoung(x)' <=> IsYoung(x)
                /\ YoungChildren(x)' = YoungChildren(x)
      /\ UNCHANGED <<phase, keep, held, oldTail>>
  BY <1>1, MarkingKeeps DEF vars, WalkFrames
<1>3. /\ DOMAIN keep = 1 .. Len(keep) /\ Len(keep) \in Nat
      /\ nextRoot \in DOMAIN keep /\ keep[nextRoot] \in Handles
  BY <1>0, <1>1
<1>4. r \in OldRefs /\ r \in Roots
  BY <1>0, <1>3 DEF Roots
<1>5. IsYoung(r) => r \in DOMAIN oldTail
  BY <1>0, <1>4, YoungIsTail
<1>6. CASE IsYoung(r) /\ r \notin Visited
  <2>1. u = <<[kind |-> "enter", off |-> r]>>
    BY <1>1, <1>6
  <2>2. [kind |-> "enter", off |-> r] \in WalkFrames
    BY <1>5, <1>6 DEF WalkFrames
  <2>3. u \in Seq(WalkFrames) /\ DOMAIN u = {1} /\ u[1].kind = "enter" /\ u[1].off = r
    BY <2>1, <2>2
  <2>4. Live' = Live /\ OnStack' = {r} /\ Entered' = Entered /\ OnStack = {} /\ Entered = Live
    BY <1>1, <2>3 DEF Live, OnStack, Entered
  <2>5. \A i \in DOMAIN keep' :
          i < nextRoot' /\ IsYoung(held[keep[i]])'
            => held'[keep'[i]] \in Live' \cup OnStack'
    <3>1. \A i \in DOMAIN keep : i < nextRoot + 1 => i < nextRoot \/ i = nextRoot
      BY <1>0, <1>3
    <3> QED
      BY <1>0, <1>1, <1>2, <2>4, <3>1 DEF WalkSound
  <2>6. \A x \in Live' \cup OnStack' :
          x \in Roots' \/ \E p \in Entered' : x \in YoungChildren(p)'
    BY <1>0, <1>2, <1>4, <2>4 DEF WalkSound
  <2>7. WalkSound'
    BY <1>0, <1>1, <1>2, <2>3, <2>5, <2>6 DEF WalkSound
  <2> QED
    BY <1>0, <1>1, <2>7, MarkStep
<1>7. CASE ~ (IsYoung(r) /\ r \notin Visited)
  <2>1. u = <<>>
    BY <1>1, <1>7
  <2>2. Live' = Live /\ OnStack' = OnStack /\ Entered' = Entered
    BY <1>1, <2>1 DEF Live, OnStack, Entered
  <2>3. \A i \in DOMAIN keep' :
          i < nextRoot' /\ IsYoung(held[keep[i]])'
            => held'[keep'[i]] \in Live' \cup OnStack'
    <3>1. \A i \in DOMAIN keep : i < nextRoot + 1 => i < nextRoot \/ i = nextRoot
      BY <1>0, <1>3
    <3>2. IsYoung(r) => r \in Live
      BY <1>7 DEF Visited, Live
    <3> QED
      BY <1>0, <1>1, <1>2, <2>2, <3>1, <3>2 DEF WalkSound
  <2>4. WalkSound'
    BY <1>0, <1>1, <1>2, <2>1, <2>2, <2>3 DEF WalkSound
  <2> QED
    BY <1>0, <1>1, <2>4, MarkStep
<1> QED
  BY <1>6, <1>7

\* A node is left after its young children, once.
LEMMA GcExitInv ==
  ASSUME phase = "mark", DuringInv, MarkInv, GcExit
  PROVE  GcInv'
<1> PICK o : o = Head(gcStack).off
  OBVIOUS
<1> PICK n : n = Len(postOrder)
  OBVIOUS
<1>0. WalkSound /\ nextRoot \in Nat \ {0} /\ DOMAIN remap = Range(postOrder)
  BY DEF DuringInv, MarkInv
<1>1. /\ Marking /\ gcStack # <<>> /\ Head(gcStack).kind = "exit"
      /\ IF o \in DOMAIN remap
         THEN UNCHANGED <<remap, postOrder>>
         ELSE remap' = Extend(remap, o, FalseRef) /\ postOrder' = Append(postOrder, o)
      /\ gcStack' = Tail(gcStack) /\ nextRoot' = nextRoot
  BY DEF GcExit, Visited
<1>2. /\ gcStack \in Seq(WalkFrames) /\ postOrder \in Seq(DOMAIN oldTail)
      /\ n \in Nat /\ DOMAIN postOrder = 1 .. n
  BY <1>0 DEF WalkSound
<1>3. /\ 1 \in DOMAIN gcStack /\ Head(gcStack) = gcStack[1]
      /\ Tail(gcStack) \in Seq(WalkFrames) /\ gcStack[1] \in WalkFrames
  BY <1>1, <1>2
<1>4. o \in DOMAIN oldTail
  BY <1>3 DEF WalkFrames
<1>5. Live = Range(postOrder) /\ Live = {postOrder[i] : i \in DOMAIN postOrder}
  BY <1>0 DEF Live, Range
<1>6. \A c \in YoungChildren(o) : \E j \in 1 .. n : postOrder[j] = c
  <2>1. \A c \in YoungChildren(o) : c \in Live \/ \E j \in 1 .. 1 - 1 : gcStack[j].off = c
    BY <1>0, <1>1, <1>3 DEF WalkSound
  <2>2. \A c \in YoungChildren(o) : c \in Live
    BY <2>1
  <2> QED
    BY <1>2, <1>5, <2>2
<1>7. \A i \in DOMAIN postOrder : \A c \in YoungChildren(postOrder[i]) :
        \E j \in 1 .. i - 1 : postOrder[j] = c
  BY <1>0 DEF WalkSound
<1>8. \A i, j \in DOMAIN postOrder : postOrder[i] = postOrder[j] => i = j
  BY <1>0 DEF WalkSound
<1> PICK w : w = <<>>
  OBVIOUS
<1>9. /\ w \in Seq(WalkFrames) /\ gcStack' = w \o Tail(gcStack)
      /\ \A L : Entering(o, w, L)
  BY <1>1, <1>3 DEF Entering
<1>10. CASE o \in DOMAIN remap
  <2>1. UNCHANGED <<remap, postOrder>>
    BY <1>1, <1>10
  <2>2. Live' = Live /\ o \in Live'
    BY <1>10, <2>1 DEF Live
  <2>3. /\ postOrder' \in Seq(DOMAIN oldTail)
        /\ \A i, j \in DOMAIN postOrder' : postOrder'[i] = postOrder'[j] => i = j
        /\ \A i \in DOMAIN postOrder' : \A c \in YoungChildren(postOrder'[i]) :
             \E j \in 1 .. i - 1 : postOrder'[j] = c
    BY <1>2, <1>7, <1>8, <2>1
  <2>4. WalkSound'
    BY <1>1, <1>9, <2>2, <2>3, WalkStep
  <2> QED
    BY <1>0, <1>1, <2>1, <2>4, MarkStep
<1>11. CASE o \notin DOMAIN remap
  <2>1. DOMAIN remap' = DOMAIN remap \cup {o} /\ postOrder' = Append(postOrder, o)
    BY <1>1, <1>11 DEF Extend
  <2>2. /\ postOrder' \in Seq(DOMAIN oldTail)
        /\ DOMAIN postOrder' = 1 .. n + 1
        /\ \A i \in 1 .. n : postOrder'[i] = postOrder[i]
        /\ postOrder'[n + 1] = o
    BY <1>2, <1>4, <2>1
  <2>3. Range(postOrder') = Range(postOrder) \cup {o}
    <3>1. \A i \in 1 .. n + 1 : i = n + 1 \/ i \in 1 .. n
      BY <1>2
    <3>2. n + 1 \in 1 .. n + 1 /\ \A i \in 1 .. n : i \in 1 .. n + 1
      BY <1>2
    <3> QED
      BY <1>2, <2>2, <3>1, <3>2 DEF Range
  <2>4. Live' = Live \cup {o}
    BY <2>1, <2>3 DEF Live
  <2>5. \A i, j \in DOMAIN postOrder' : postOrder'[i] = postOrder'[j] => i = j
    <3>1. \A i \in 1 .. n : postOrder[i] # o
      BY <1>0, <1>2, <1>11 DEF Range
    <3>2. \A i \in 1 .. n + 1 : i = n + 1 \/ i \in 1 .. n
      BY <1>2
    <3> QED
      BY <1>2, <1>8, <2>2, <3>1, <3>2
  <2>6. \A i \in DOMAIN postOrder' : \A c \in YoungChildren(postOrder'[i]) :
          \E j \in 1 .. i - 1 : postOrder'[j] = c
    <3>1. ASSUME NEW i \in 1 .. n + 1, NEW c \in YoungChildren(postOrder'[i])
          PROVE  \E j \in 1 .. i - 1 : postOrder'[j] = c
      <4>1. CASE i = n + 1
        <5>1. PICK j \in 1 .. n : postOrder[j] = c
          BY <1>6, <2>2, <3>1, <4>1
        <5> QED
          BY <1>2, <2>2, <4>1, <5>1
      <4>2. CASE i \in 1 .. n
        <5>1. PICK j \in 1 .. i - 1 : postOrder[j] = c
          BY <1>2, <1>7, <2>2, <3>1, <4>2
        <5>2. j \in 1 .. n
          BY <1>2, <4>2
        <5> QED
          BY <2>2, <5>1, <5>2
      <4> QED
        BY <1>2, <4>1, <4>2
    <3> QED
      BY <2>2, <3>1
  <2>7. WalkSound'
    BY <1>1, <1>9, <2>2, <2>4, <2>5, <2>6, WalkStep
  <2> QED
    BY <1>0, <1>1, <2>1, <2>3, <2>7, MarkStep
<1> QED
  BY <1>10, <1>11

LEMMA Joined ==
  ASSUME NEW S, NEW a \in Seq(S), NEW b \in Seq(S), NEW x \in S,
         NEW m, m = Len(a), NEW n, n = Len(b), NEW w, w = a \o b \o <<x>>
  PROVE  /\ w \in Seq(S) /\ DOMAIN w = 1 .. m + n + 1
         /\ \A i \in 1 .. m : w[i] = a[i]
         /\ \A i \in 1 .. n : w[m + i] = b[i]
         /\ w[m + n + 1] = x
<1> PICK u : u = a \o b
  OBVIOUS
<1>1. m \in Nat /\ n \in Nat /\ DOMAIN a = 1 .. m /\ DOMAIN b = 1 .. n
  OBVIOUS
<1>2. /\ u \in Seq(S) /\ Len(u) = m + n /\ DOMAIN u = 1 .. m + n
      /\ \A i \in 1 .. m : u[i] = a[i]
      /\ \A i \in 1 .. n : u[m + i] = b[i]
  BY <1>1
<1>3. w = Append(u, x)
  BY <1>2
<1>4. /\ w \in Seq(S) /\ DOMAIN w = 1 .. m + n + 1
      /\ \A i \in 1 .. m + n : w[i] = u[i]
      /\ w[m + n + 1] = x
  BY <1>1, <1>2, <1>3
<1>5. /\ \A i \in 1 .. m : i \in 1 .. m + n
      /\ \A i \in 1 .. n : m + i \in 1 .. m + n
  BY <1>1
<1> QED
  BY <1>2, <1>4, <1>5

\* The frames an entered node adds: its young children that are not visited,
\* and below them its own exit.
LEMMA WalkFacts ==
  ASSUME NEW o \in DOMAIN oldTail, base \in Nat, BytesTypeOK, Snapshot,
         Node(o) = OldNode(o), NEW w, w = Walk(o)
  PROVE  /\ w \in Seq(WalkFrames)
         /\ \E i \in DOMAIN w : w[i].off = o
         /\ Entering(o, w, Visited)
<1> USE DEF Entering
<1> PICK hi : hi = Node(o).hi
  OBVIOUS
<1> PICK lo : lo = Node(o).lo
  OBVIOUS
<1> PICK H : H = [kind |-> "enter", off |-> hi]
  OBVIOUS
<1> PICK L : L = [kind |-> "enter", off |-> lo]
  OBVIOUS
<1> PICK X : X = [kind |-> "exit", off |-> o]
  OBVIOUS
<1>1. \A c : c \in YoungChildren(o) <=> (c = hi \/ c = lo) /\ IsYoung(c)
  BY DEF YoungChildren
<1>2. hi \in OldRefs /\ lo \in OldRefs
  BY DEF Snapshot, OldNodeSound
<1>3. \A c \in YoungChildren(o) : c \in DOMAIN oldTail
  BY <1>1, <1>2, YoungIsTail
<1> PICK a : a = EnterChild(hi)
  OBVIOUS
<1> PICK b : b = EnterChild(lo)
  OBVIOUS
<1>4. w = a \o b \o <<X>>
  BY DEF Walk
<1>5. X \in WalkFrames /\ X.kind = "exit" /\ X.off = o
  BY DEF WalkFrames
<1>6. \/ a = <<>> /\ (IsYoung(hi) => hi \in Visited)
      \/ a = <<H>> /\ hi \in YoungChildren(o)
  BY <1>1 DEF EnterChild
<1>7. \/ b = <<>> /\ (IsYoung(lo) => lo \in Visited)
      \/ b = <<L>> /\ lo \in YoungChildren(o)
  BY <1>1 DEF EnterChild
<1>8. hi \in YoungChildren(o) => H \in WalkFrames
  BY <1>3 DEF WalkFrames
<1>9. lo \in YoungChildren(o) => L \in WalkFrames
  BY <1>3 DEF WalkFrames
<1>10. H.kind = "enter" /\ H.off = hi /\ L.kind = "enter" /\ L.off = lo
  OBVIOUS
<1>11. CASE a = <<>> /\ b = <<>>
  <2>2. IsYoung(hi) => hi \in Visited
    BY <1>6, <1>11
  <2>3. IsYoung(lo) => lo \in Visited
    BY <1>7, <1>11
  <2>4. w \in Seq(WalkFrames) /\ DOMAIN w = {1} /\ w[1] = X
    BY <1>4, <1>5, <1>11, Joined
  <2> QED
    BY <1>1, <1>5, <2>2, <2>3, <2>4
<1>12. CASE a = <<H>> /\ b = <<>>
  <2>2. hi \in YoungChildren(o) /\ H \in WalkFrames
    BY <1>6, <1>8, <1>12
  <2>3. IsYoung(lo) => lo \in Visited
    BY <1>7, <1>12
  <2>4. w \in Seq(WalkFrames) /\ DOMAIN w = {1, 2} /\ w[1] = H /\ w[2] = X
    BY <1>4, <1>5, <1>12, Joined, <2>2
  <2> QED
    BY <1>1, <1>5, <1>10, <2>2, <2>3, <2>4
<1>13. CASE a = <<>> /\ b = <<L>>
  <2>2. IsYoung(hi) => hi \in Visited
    BY <1>6, <1>13
  <2>3. lo \in YoungChildren(o) /\ L \in WalkFrames
    BY <1>7, <1>9, <1>13
  <2>4. w \in Seq(WalkFrames) /\ DOMAIN w = {1, 2} /\ w[1] = L /\ w[2] = X
    BY <1>4, <1>5, <1>13, Joined, <2>3
  <2> QED
    BY <1>1, <1>5, <1>10, <2>2, <2>3, <2>4
<1>14. CASE a = <<H>> /\ b = <<L>>
  <2>2. hi \in YoungChildren(o) /\ H \in WalkFrames
    BY <1>6, <1>8, <1>14
  <2>3. lo \in YoungChildren(o) /\ L \in WalkFrames
    BY <1>7, <1>9, <1>14
  <2>4. /\ w \in Seq(WalkFrames) /\ DOMAIN w = {1, 2, 3}
        /\ w[1] = H /\ w[2] = L /\ w[3] = X
    BY <1>4, <1>5, <1>14, Joined, <2>2, <2>3
  <2> QED
    BY <1>1, <1>5, <1>10, <2>2, <2>3, <2>4
<1> QED
  BY <1>6, <1>7, <1>11, <1>12, <1>13, <1>14

\* A visited node is dropped; any other is entered.
LEMMA GcEnterInv ==
  ASSUME phase = "mark", DuringInv, MarkInv, GcEnter
  PROVE  GcInv'
<1> PICK o : o = Head(gcStack).off
  OBVIOUS
<1>0. WalkSound /\ nextRoot \in Nat \ {0} /\ DOMAIN remap = Range(postOrder)
      /\ Snapshot /\ base \in Nat /\ BytesTypeOK
  BY DEF DuringInv, MarkInv, ArenaInv
<1>1. /\ Marking /\ gcStack # <<>> /\ Head(gcStack).kind = "enter"
      /\ gcStack' = IF o \in DOMAIN remap THEN Tail(gcStack) ELSE Walk(o) \o Tail(gcStack)
      /\ UNCHANGED <<nextRoot, remap, postOrder>>
  BY DEF GcEnter, Visited
<1>2. gcStack \in Seq(WalkFrames) /\ postOrder \in Seq(DOMAIN oldTail)
  BY <1>0 DEF WalkSound
<1>3. Tail(gcStack) \in Seq(WalkFrames) /\ Head(gcStack) \in WalkFrames
  BY <1>1, <1>2
<1>4. o \in DOMAIN oldTail
  BY <1>3 DEF WalkFrames
<1>5. Live' = Live /\ Live = DOMAIN remap /\ Visited = DOMAIN remap
  BY <1>0, <1>1 DEF Live, Visited
<1>6. /\ postOrder' \in Seq(DOMAIN oldTail)
      /\ \A i, j \in DOMAIN postOrder' : postOrder'[i] = postOrder'[j] => i = j
      /\ \A i \in DOMAIN postOrder' : \A c \in YoungChildren(postOrder'[i]) :
           \E j \in 1 .. i - 1 : postOrder'[j] = c
  <2>1. /\ \A i, j \in DOMAIN postOrder : postOrder[i] = postOrder[j] => i = j
        /\ \A i \in DOMAIN postOrder : \A c \in YoungChildren(postOrder[i]) :
             \E j \in 1 .. i - 1 : postOrder[j] = c
    BY <1>0 DEF WalkSound
  <2> QED
    BY <1>1, <1>2, <2>1
<1>7. CASE o \in DOMAIN remap
  <2> PICK w : w = <<>>
    OBVIOUS
  <2>1. /\ w \in Seq(WalkFrames) /\ gcStack' = w \o Tail(gcStack)
        /\ \A L : Entering(o, w, L)
    BY <1>1, <1>3, <1>7 DEF Entering
  <2>2. Live' = Live /\ o \in Live' /\ nextRoot' = nextRoot
    BY <1>1, <1>5, <1>7
  <2>3. WalkSound'
    BY <1>1, <1>6, <2>1, <2>2, WalkStep
  <2> QED
    BY <1>0, <1>1, <2>3, MarkStep
<1>8. CASE o \notin DOMAIN remap
  <2> PICK w : w = Walk(o)
    OBVIOUS
  <2>1. Node(o) = OldNode(o)
    BY <1>4 DEF MarkInv, Node, OldNode, Decode
  <2>2. /\ w \in Seq(WalkFrames)
        /\ \E i \in DOMAIN w : w[i].off = o
        /\ Entering(o, w, Live')
    BY <1>0, <1>4, <1>5, <2>1, WalkFacts
  <2>3. gcStack' = w \o Tail(gcStack)
    BY <1>1, <1>8
  <2>4. WalkSound'
    BY <1>1, <1>5, <1>6, <2>2, <2>3, WalkStep
  <2> QED
    BY <1>0, <1>1, <2>4, MarkStep
<1> QED
  BY <1>7, <1>8
-----------------------------------------------------------------------------
(* The truncation. *)

\* The base is an arena: no node of it has a child in the tail.
LEMMA BaseArena ==
  ASSUME BytesTypeOK, Reduced, Meaning, VarBytesFit,
         base \in Nat, bufLen >= base, UNCHANGED <<base, numVars>>,
         buf' = [o \in OldNodes |-> buf[o]],
         den' = [o \in OldNodes |-> den[o]],
         bufLen' = base
  PROVE  /\ BytesTypeOK' /\ Reduced' /\ Meaning' /\ VarBytesFit'
         /\ OldNodes' = OldNodes /\ Headers' = OldNodes
         /\ \A o \in OldNodes : /\ den'[o] = den[o] /\ VarOf(o)' = VarOf(o)
                                /\ ~ (o >= base)
<1>1. \A o \in OldNodes : o \in Headers /\ o \in Nat /\ o < base /\ o \notin Terminals
  BY HeaderType DEF OldNodes
<1>2. Headers' = OldNodes
  BY DEF Headers
<1>3. OldNodes' = OldNodes
  BY <1>1, <1>2 DEF OldNodes
<1>4. \A o \in OldNodes : /\ Node(o)' = Node(o) /\ VarOf(o)' = VarOf(o)
                          /\ den'[o] = den[o] /\ ~ (o >= base)
  BY <1>1 DEF Node, Decode, VarOf
<1>5. Nodes' = Terminals \cup OldNodes
  BY <1>2 DEF Nodes
<1>6. \A r \in Nodes' : Den(r)' = Den(r)
  <2> SUFFICES ASSUME NEW r \in Nodes' PROVE Den(r)' = Den(r)
    OBVIOUS
  <2>1. CASE r \in Terminals
    BY <2>1 DEF Den, Terminals, FalseRef, TrueRef
  <2>2. CASE r \notin Terminals
    BY <1>4, <1>5, <2>2 DEF Den, Terminals
  <2> QED
    BY <2>1, <2>2
<1>7. \A o \in OldNodes : \A c \in {Node(o).lo, Node(o).hi} : c \in Nodes'
  <2> SUFFICES ASSUME NEW o \in OldNodes, NEW c \in {Node(o).lo, Node(o).hi}
               PROVE c \in Nodes'
    OBVIOUS
  <2>1. c \in Nodes /\ c < o
    BY <1>1 DEF Reduced
  <2>2. CASE c \in Terminals
    BY <1>5, <2>2
  <2>3. CASE c \in Headers
    <3>1. c \in Nat
      BY <2>3, HeaderType
    <3> QED
      BY <1>1, <1>5, <2>1, <2>3, <3>1 DEF OldNodes
  <2> QED
    BY <2>1, <2>2, <2>3 DEF Nodes
<1>8. BytesTypeOK'
  <2>1. bufLen \in 0 .. MaxOffset /\ MaxOffset \in Nat
    BY CodecAssumption DEF BytesTypeOK
  <2>2. base \in 0 .. MaxOffset
    BY <2>1
  <2>3. OldNodes \subseteq 0 .. base - 1
    BY <1>1
  <2>4. /\ buf' \in [OldNodes -> RawNodes]
        /\ den' \in [OldNodes -> Functions]
    BY <1>1 DEF BytesTypeOK
  <2> QED
    BY <1>2, <2>2, <2>3, <2>4 DEF BytesTypeOK
<1>9. Reduced'
  <2> SUFFICES ASSUME NEW o \in OldNodes, NEW n, n = Node(o)'
               PROVE /\ n.var < numVars' /\ n.lo # n.hi
                     /\ \A c \in {n.lo, n.hi} :
                          c \in Nodes' /\ c < o /\ (IsNode(c) => VarOf(c)' > n.var)
    BY <1>2 DEF Reduced, IsNode
  <2>1. n = Node(o) /\ o \in Headers
    BY <1>1, <1>4
  <2>2. /\ n.var < numVars /\ n.lo # n.hi
        /\ \A c \in {n.lo, n.hi} : c < o /\ (IsNode(c) => VarOf(c) > n.var)
    BY <2>1 DEF Reduced
  <2>3. \A c \in {n.lo, n.hi} : c \in Nodes'
    BY <1>7, <2>1
  <2>4. \A c \in Nodes' : IsNode(c) => VarOf(c)' = VarOf(c)
    BY <1>4, <1>5 DEF IsNode
  <2> QED
    BY <2>2, <2>3, <2>4
<1>10. Meaning'
  <2> SUFFICES ASSUME NEW o \in OldNodes
               PROVE /\ den'[o] = Shannon(VarOf(o)', Den(Node(o).lo)', Den(Node(o).hi)')
                     /\ \A u \in 0 .. VarOf(o)' - 1 : IndependentOf(den'[o], u)
    BY <1>2 DEF Meaning
  <2>1. /\ den[o] = Shannon(VarOf(o), Den(Node(o).lo), Den(Node(o).hi))
        /\ \A u \in 0 .. VarOf(o) - 1 : IndependentOf(den[o], u)
    BY <1>1 DEF Meaning
  <2>2. Den(Node(o).lo)' = Den(Node(o).lo) /\ Den(Node(o).hi)' = Den(Node(o).hi)
    <3> PICK lo : lo = Node(o).lo
      OBVIOUS
    <3> PICK hi : hi = Node(o).hi
      OBVIOUS
    <3>1. Den(lo)' = Den(lo) /\ Den(hi)' = Den(hi)
      BY <1>6, <1>7
    <3>2. Node(o)' = Node(o)
      BY <1>4
    <3>3. Den(Node(o).lo)' = Den(lo)' /\ Den(Node(o).hi)' = Den(hi)'
      BY <3>2 DEF Den
    <3> QED
      BY <3>1, <3>3
  <2> QED
    BY <1>4, <2>1, <2>2
<1>11. VarBytesFit'
  BY <1>1, <1>2, <1>4 DEF VarBytesFit
<1> QED
  BY <1>2, <1>3, <1>4, <1>8, <1>9, <1>10, <1>11

LEMMA GcTruncateInv ==
  ASSUME phase = "mark", DuringInv, MarkInv, GcTruncate
  PROVE  GcInv'
<1>0. /\ WalkSound /\ Snapshot /\ base \in Nat /\ bufLen >= base
      /\ ArenaInv /\ VarBytesFit /\ DOMAIN remap = Range(postOrder)
  BY DEF DuringInv, MarkInv
<1>1. /\ phase' = "copy" /\ gcStack = <<>> /\ nextRoot > Len(keep)
      /\ buf' = [o \in OldNodes |-> buf[o]]
      /\ den' = [o \in OldNodes |-> den[o]]
      /\ bufLen' = base /\ remap' = <<>>
      /\ UNCHANGED <<unique, numVars, cache, held, base, keep, nextRoot,
                     gcStack, oldTail, postOrder, oldDen>>
      /\ UNCHANGED <<pc, call, stack, results>>
  BY DEF GcTruncate, cacheVars, loopVars
<1>2. /\ BytesTypeOK' /\ Reduced' /\ Meaning' /\ VarBytesFit'
      /\ OldNodes' = OldNodes /\ Headers' = OldNodes
      /\ \A o \in OldNodes : /\ den'[o] = den[o] /\ VarOf(o)' = VarOf(o)
                             /\ ~ (o >= base)
  BY <1>0, <1>1, BaseArena DEF ArenaInv
<1>3. /\ Snapshot' /\ OldRefs' = OldRefs
      /\ \A r : (IsYoung(r)' <=> IsYoung(r)) /\ YoungChildren(r)' = YoungChildren(r)
  BY <1>0, <1>1, <1>2, SnapshotKept
<1>4. DOMAIN remap' = {} /\ YoungNodes(base)' = {}
  BY <1>1, <1>2 DEF YoungNodes
<1>5. Live' = Live /\ OnStack' = OnStack /\ Entered' = Entered /\ Roots' = Roots
  BY <1>0, <1>1, <1>4 DEF Live, OnStack, Entered, Roots
<1>6. WalkSound'
  <2>1. \A i \in DOMAIN postOrder' : \A c \in YoungChildren(postOrder[i])' :
          \E j \in 1 .. i - 1 : postOrder'[j] = c
    BY <1>0, <1>1, <1>3 DEF WalkSound, MarkInv
  <2>2. \A i \in DOMAIN keep' :
          i < nextRoot' /\ IsYoung(held[keep[i]])'
            => held'[keep'[i]] \in Live' \cup OnStack'
    BY <1>0, <1>1, <1>3, <1>5 DEF WalkSound
  <2>3. \A x \in Live' \cup OnStack' :
          x \in Roots' \/ \E p \in Entered' : x \in YoungChildren(p)'
    BY <1>0, <1>3, <1>5 DEF WalkSound
  <2>4. /\ gcStack' \in Seq(WalkFrames') /\ DOMAIN gcStack' = {}
        /\ postOrder' \in Seq(DOMAIN oldTail')
        /\ \A i, j \in DOMAIN postOrder' : postOrder'[i] = postOrder'[j] => i = j
    BY <1>0, <1>1 DEF WalkSound
  <2> QED
    BY <2>1, <2>2, <2>3, <2>4 DEF WalkSound
<1>7. DuringInv'
  <2>1. bufLen' >= base'
    BY <1>0, <1>1
  <2> QED
    BY <1>1, <1>3, <1>6, <2>1 DEF DuringInv, NoCall
<1>8. CopyInv'
  <2>1. DOMAIN unique' = 0 .. numVars' - 1
    BY <1>0, <1>1 DEF ArenaInv, DuringInv
  <2> QED
    BY <1>1, <1>2, <1>4, <2>1 DEF CopyInv
<1> QED
  BY <1>1, <1>7, <1>8 DEF GcInv
-----------------------------------------------------------------------------
(* The copy. *)

\* What a reference is copied to stands for what it stood for.
LEMMA TranslateFacts ==
  ASSUME DuringInv, CopyInv, NEW c \in OldRefs, Translates(c),
         NEW t, t = Translate(c)
  PROVE  /\ t \in Nodes
         /\ Den(t) = OldFn(c)
         /\ IsNode(t) <=> IsNode(c)
         /\ IsNode(c) => VarOf(t) = OldVar(c)
<1>0. Snapshot /\ BytesTypeOK /\ Reduced
  BY DEF DuringInv, CopyInv
<1>1. CASE IsYoung(c)
  <2>1. c \in DOMAIN remap /\ t = remap[c] /\ IsNode(c)
    BY <1>1 DEF Translates, Translate, IsYoung
  <2>2. t \in YoungNodes(base) /\ Den(t) = oldDen[c] /\ Node(t).var = OldNode(c).var
    BY <2>1 DEF CopyInv
  <2>3. t \in Headers
    BY <2>2 DEF YoungNodes
  <2>4. t \notin Terminals
    BY <1>0, <2>3, HeaderType
  <2>5. VarOf(t) = OldVar(c)
    BY <1>1, <2>2 DEF Node, OldNode, Decode, VarOf, OldVar
  <2> QED
    BY <2>1, <2>2, <2>3, <2>4, <2>5 DEF Nodes, IsNode, OldFn
<1>2. CASE ~ IsYoung(c)
  <2>1. t = c /\ OldVar(c) = VarOf(c)
    BY <1>2 DEF Translate, OldVar
  <2>2. c \in Terminals \/ c \in OldNodes
    <3>1. ASSUME c \in DOMAIN oldTail PROVE c \in Terminals
      BY <1>0, <1>2, <3>1 DEF Snapshot, IsYoung, IsNode
    <3> QED
      BY <3>1 DEF OldRefs
  <2>3. CASE c \in Terminals
    BY <2>1, <2>3 DEF Nodes, OldFn, IsNode
  <2>4. CASE c \in OldNodes
    <3>1. c \in Headers /\ c \notin Terminals
      BY <1>0, <2>4, HeaderType DEF OldNodes
    <3>2. Den(c) = den[c] /\ oldDen[c] = den[c]
      BY <1>0, <2>4, <3>1 DEF Den, Terminals, Snapshot
    <3> QED
      BY <2>1, <3>1, <3>2 DEF Nodes, OldFn, IsNode
  <2> QED
    BY <2>2, <2>3, <2>4
<1> QED
  BY <1>1, <1>2

\* The node copied next, and its children in the new arena.
LEMMA CopiedNext ==
  ASSUME phase = "copy", DuringInv, CopyInv, postOrder # <<>>,
         NEW o, o = Head(postOrder), NEW n, n = OldNode(o),
         NEW lo, lo = Translate(n.lo), NEW hi, hi = Translate(n.hi)
  PROVE  /\ o \in DOMAIN oldTail /\ o \notin DOMAIN remap
         /\ YoungChildren(o) \subseteq DOMAIN remap
         /\ Translates(n.lo) /\ Translates(n.hi)
         /\ lo \in Nodes /\ hi \in Nodes /\ lo # hi
         /\ ~ EncodePanics(n.var, lo, hi)
         /\ n.var \in 0 .. numVars - 1 /\ n.var < VarRadix
         /\ \A c \in {lo, hi} : IsNode(c) => VarOf(c) > n.var
         /\ oldDen[o] = Shannon(n.var, Den(lo), Den(hi))
<1>0. Snapshot /\ WalkSound /\ BytesTypeOK /\ Reduced
  BY DEF DuringInv, CopyInv
<1>1. /\ postOrder \in Seq(DOMAIN oldTail) /\ 1 \in DOMAIN postOrder /\ o = postOrder[1]
  BY <1>0 DEF WalkSound
<1>2. o \in DOMAIN oldTail /\ o \in Range(postOrder)
  BY <1>1 DEF Range
<1>3. o \notin DOMAIN remap
  BY <1>2 DEF CopyInv
<1>4. YoungChildren(o) \subseteq DOMAIN remap
  <2>1. ASSUME NEW c \in YoungChildren(o) PROVE c \in DOMAIN remap
    <3>1. c \in DOMAIN remap \/ \E j \in 1 .. 1 - 1 : postOrder[j] = c
      BY <1>0, <1>1, <2>1 DEF WalkSound
    <3> QED
      BY <3>1
  <2> QED
    BY <2>1
<1>5. /\ n.var < numVars /\ n.var < VarRadix
      /\ n.lo # n.hi
      /\ n.lo \in OldRefs /\ n.hi \in OldRefs
      /\ IsNode(n.lo) => OldVar(n.lo) > n.var
      /\ IsNode(n.hi) => OldVar(n.hi) > n.var
      /\ oldDen[o] = Shannon(n.var, OldFn(n.lo), OldFn(n.hi))
  BY <1>0, <1>2 DEF Snapshot, OldNodeSound
<1>6. Translates(n.lo) /\ Translates(n.hi)
  BY <1>4 DEF Translates, YoungChildren
<1>7. /\ lo \in Nodes /\ Den(lo) = OldFn(n.lo)
      /\ IsNode(lo) <=> IsNode(n.lo)
      /\ IsNode(n.lo) => VarOf(lo) = OldVar(n.lo)
  BY <1>5, <1>6, TranslateFacts
<1>8. /\ hi \in Nodes /\ Den(hi) = OldFn(n.hi)
      /\ IsNode(hi) <=> IsNode(n.hi)
      /\ IsNode(n.hi) => VarOf(hi) = OldVar(n.hi)
  BY <1>5, <1>6, TranslateFacts
<1>9. lo # hi
  BY <1>0, <1>5, <1>7, <1>8 DEF Snapshot
<1>10. n.var \in 0 .. numVars - 1
  <2>1. n.var \in Nat
    BY <1>0, <1>2 DEF Snapshot, OldNode, Decode, RawNodes
  <2>2. numVars \in Nat
    BY <1>0, MaxVarsAssumption DEF BytesTypeOK
  <2> QED
    BY <1>5, <2>1, <2>2
<1>11. ~ EncodePanics(n.var, lo, hi)
  <2>1. ~ (n.var >= VarRadix)
    BY <1>5, <1>10, CodecAssumption
  <2>2. \A c \in Nodes : IsNode(c) => ~ (c >= bufLen)
    <3>1. \A c \in Headers : c \in Nat /\ c < bufLen
      BY <1>0, HeaderType
    <3>2. bufLen \in Nat
      BY <1>0, CodecAssumption DEF BytesTypeOK
    <3> QED
      BY <3>1, <3>2 DEF Nodes, IsNode
  <2> QED
    BY <1>7, <1>8, <2>1, <2>2 DEF EncodePanics
<1> QED
  BY <1>2, <1>3, <1>4, <1>5, <1>6, <1>7, <1>8, <1>9, <1>10, <1>11

\* So gc neither panics there nor meets two equal children.
LEMMA GcCopies ==
  ASSUME phase = "copy", DuringInv, CopyInv, GcCopy,
         NEW o, o = Head(postOrder), NEW n, n = OldNode(o),
         NEW lo, lo = Translate(n.lo), NEW hi, hi = Translate(n.hi)
  PROVE  /\ postOrder # <<>>
         /\ EncodeNode(n.var, lo, hi)
         /\ remap' = Extend(remap, o, bufLen)
         /\ postOrder' = Tail(postOrder)
         /\ UNCHANGED <<phase, pc, base, keep, nextRoot, gcStack, oldTail, oldDen>>
         /\ UNCHANGED <<unique, numVars, cacheVars, held, call, stack, results>>
<1>1. postOrder # <<>>
  BY DEF GcCopy
<1>2. Translates(n.lo) /\ Translates(n.hi) /\ lo # hi /\ ~ EncodePanics(n.var, lo, hi)
  BY <1>1, CopiedNext
<1> QED
  BY <1>1, <1>2 DEF GcCopy, OldNode

\* The list without its first node, which is marked instead.
LEMMA CopyWalkSound ==
  ASSUME phase = "copy", WalkSound, postOrder # <<>>, gcStack = <<>>,
         UNCHANGED <<phase, base, keep, held, nextRoot, gcStack, oldTail>>,
         \A r : /\ IsYoung(r)' <=> IsYoung(r)
                /\ YoungChildren(r)' = YoungChildren(r),
         NEW o, o = Head(postOrder), postOrder' = Tail(postOrder),
         DOMAIN remap' = DOMAIN remap \cup {o}
  PROVE  /\ WalkSound'
         /\ Range(postOrder') \subseteq Range(postOrder)
         /\ o \notin Range(postOrder')
<1> PICK n : n = Len(postOrder)
  OBVIOUS
<1> PICK s : s = postOrder
  OBVIOUS
<1> PICK t : t = postOrder'
  OBVIOUS
<1>1. s \in Seq(DOMAIN oldTail) /\ n \in Nat /\ n >= 1 /\ DOMAIN s = 1 .. n /\ s[1] = o
  BY DEF WalkSound
<1>2. /\ t \in Seq(DOMAIN oldTail) /\ DOMAIN t = 1 .. n - 1
      /\ \A i \in 1 .. n - 1 : t[i] = s[i + 1]
  BY <1>1
<1>3. \A i, j \in 1 .. n : s[i] = s[j] => i = j
  BY <1>1 DEF WalkSound
<1>4. /\ \A i \in 1 .. n - 1 : i + 1 \in 1 .. n /\ i + 1 # 1
      /\ \A i \in 1 .. n : i = 1 \/ (i - 1 \in 1 .. n - 1 /\ (i - 1) + 1 = i)
      /\ \A i, j \in 1 .. n - 1 : i + 1 = j + 1 => i = j
      /\ 1 \in 1 .. n
  BY <1>1
<1>5. Range(t) = Range(s) \ {o}
  <2>1. ASSUME NEW i \in 1 .. n - 1 PROVE t[i] \in Range(s) \ {o}
    <3>1. t[i] = s[i + 1] /\ i + 1 \in 1 .. n /\ s[i + 1] # s[1]
      BY <1>2, <1>3, <1>4
    <3> QED
      BY <1>1, <3>1 DEF Range
  <2>2. ASSUME NEW i \in 1 .. n, s[i] # o PROVE s[i] \in Range(t)
    <3>1. i - 1 \in 1 .. n - 1 /\ t[i - 1] = s[i]
      BY <1>1, <1>2, <1>4, <2>2
    <3> QED
      BY <1>2, <3>1 DEF Range
  <2>3. /\ \A x : x \in Range(t) <=> \E i \in 1 .. n - 1 : x = t[i]
        /\ \A x : x \in Range(s) <=> \E i \in 1 .. n : x = s[i]
    BY <1>1, <1>2 DEF Range
  <2>4. ASSUME NEW x, x \in Range(t) PROVE x \in Range(s) \ {o}
    <3>1. PICK i \in 1 .. n - 1 : x = t[i]
      BY ONLY <2>3, <2>4
    <3> QED
      BY ONLY <2>1, <3>1
  <2>5. ASSUME NEW x, x \in Range(s) \ {o} PROVE x \in Range(t)
    <3>1. PICK i \in 1 .. n : x = s[i]
      BY ONLY <2>3, <2>5
    <3> QED
      BY ONLY <2>2, <2>5, <3>1
  <2> QED
    BY <2>4, <2>5
<1>6. o \in Range(s)
  BY <1>1, <1>4 DEF Range
<1>7. Live' = Live /\ OnStack' = OnStack /\ Entered' = Entered /\ Roots' = Roots
  BY <1>5, <1>6 DEF Live, OnStack, Entered, Roots
<1>8. \A i, j \in DOMAIN t : t[i] = t[j] => i = j
  BY <1>2, <1>3, <1>4
<1>9. ASSUME NEW i \in DOMAIN t, NEW c \in YoungChildren(t[i])
      PROVE  c \in DOMAIN remap' \/ \E j \in 1 .. i - 1 : t[j] = c
  <2>1. i + 1 \in 1 .. n /\ t[i] = s[i + 1] /\ i \in 1 .. n - 1
    BY <1>2, <1>4
  <2>2. c \in DOMAIN remap \/ \E j \in 1 .. (i + 1) - 1 : s[j] = c
    BY <1>1, <1>9, <2>1 DEF WalkSound
  <2>3. ASSUME NEW j \in 1 .. (i + 1) - 1, s[j] = c, j # 1
        PROVE  \E k \in 1 .. i - 1 : t[k] = c
    <3>1. j - 1 \in 1 .. i - 1 /\ j - 1 \in 1 .. n - 1 /\ (j - 1) + 1 = j
      BY <1>1, <2>1, <2>3
    <3> QED
      BY <1>2, <2>3, <3>1
  <2> QED
    BY <1>1, <2>2, <2>3
<1>10. \A i \in DOMAIN postOrder' : \A c \in YoungChildren(postOrder[i])' :
         \/ phase' = "copy" /\ c \in DOMAIN remap'
         \/ \E j \in 1 .. i - 1 : postOrder'[j] = c
  <2>1. \A i : YoungChildren(postOrder[i])' = YoungChildren(t[i])
    OBVIOUS
  <2> QED
    BY <1>9, <2>1
<1>11. \A i \in DOMAIN keep' :
         i < nextRoot' /\ IsYoung(held[keep[i]])'
           => held'[keep'[i]] \in Live' \cup OnStack'
  BY <1>7 DEF WalkSound
<1>12. \A x \in Live' \cup OnStack' :
         x \in Roots' \/ \E p \in Entered' : x \in YoungChildren(p)'
  BY <1>7 DEF WalkSound
<1>13. gcStack' \in Seq(WalkFrames') /\ DOMAIN gcStack' = {}
  OBVIOUS
<1>14. WalkSound'
  BY <1>2, <1>8, <1>10, <1>11, <1>12, <1>13 DEF WalkSound
<1> QED
  BY <1>5, <1>14

LEMMA GcCopyInv ==
  ASSUME phase = "copy", DuringInv, CopyInv, GcCopy
  PROVE  GcInv'
<1> PICK o : o = Head(postOrder)
  OBVIOUS
<1> PICK n : n = OldNode(o)
  OBVIOUS
<1> PICK lo : lo = Translate(n.lo)
  OBVIOUS
<1> PICK hi : hi = Translate(n.hi)
  OBVIOUS
<1> PICK m : m = bufLen
  OBVIOUS
<1>0. /\ Snapshot /\ WalkSound /\ BytesTypeOK /\ Reduced /\ Meaning /\ VarBytesFit
      /\ base \in Nat /\ bufLen >= base /\ gcStack = <<>>
  BY DEF DuringInv, CopyInv
<1>1. /\ postOrder # <<>>
      /\ EncodeNode(n.var, lo, hi)
      /\ remap' = Extend(remap, o, m)
      /\ postOrder' = Tail(postOrder)
      /\ UNCHANGED <<phase, pc, base, keep, nextRoot, gcStack, oldTail, oldDen>>
      /\ UNCHANGED <<unique, numVars, cacheVars, held, call, stack, results>>
  BY GcCopies
<1>2. /\ o \in DOMAIN oldTail /\ o \notin DOMAIN remap
      /\ YoungChildren(o) \subseteq DOMAIN remap
      /\ lo \in Nodes /\ hi \in Nodes /\ lo # hi
      /\ n.var \in 0 .. numVars - 1 /\ n.var < VarRadix
      /\ \A c \in {lo, hi} : IsNode(c) => VarOf(c) > n.var
      /\ oldDen[o] = Shannon(n.var, Den(lo), Den(hi))
  BY <1>1, CopiedNext
<1>3. n.var % VarRadix = n.var
  <2>1. n.var \in Nat
    BY <1>0, <1>2, MaxVarsAssumption DEF BytesTypeOK
  <2> QED
    BY <1>2, <2>1, VarByte
<1>4. /\ m \in Nat /\ m \notin Headers /\ m \notin Terminals
      /\ Headers' = Headers \cup {m}
      /\ bufLen' \in m + 1 .. MaxOffset
      /\ \A r \in Nodes : Den(r)' = Den(r)
      /\ Den(m)' = oldDen[o]
  BY <1>0, <1>1, <1>2, <1>3, EncodeFacts
<1>5. /\ Node(m)' = [var |-> n.var, lo |-> lo, hi |-> hi]
      /\ VarOf(m)' = n.var
      /\ \A r \in Headers : Node(r)' = Node(r) /\ VarOf(r)' = VarOf(r)
  BY <1>0, <1>1, <1>2, <1>3, EncodeDecodes
<1>6. BytesTypeOK' /\ Reduced' /\ Meaning'
  BY <1>0, <1>1, <1>2, EncodeStructure
<1>7. VarBytesFit'
  BY <1>0, <1>2, <1>4, <1>5 DEF VarBytesFit
<1>8. /\ OldNodes' = OldNodes
      /\ YoungNodes(base)' = YoungNodes(base) \cup {m}
  BY <1>0, <1>1, <1>4 DEF OldNodes, YoungNodes
<1>9. \A r \in OldNodes : den'[r] = den[r] /\ VarOf(r)' = VarOf(r)
  <2> SUFFICES ASSUME NEW r \in OldNodes PROVE den'[r] = den[r] /\ VarOf(r)' = VarOf(r)
    OBVIOUS
  <2>1. r \in Headers /\ r \in Nodes /\ r \notin Terminals
    BY <1>0, HeaderType DEF OldNodes, Nodes
  <2>2. Den(r)' = Den(r)
    BY <1>4, <2>1
  <2>3. Den(r)' = den'[r] /\ Den(r) = den[r]
    BY <2>1 DEF Den, Terminals
  <2> QED
    BY <1>5, <2>1, <2>2, <2>3
<1>10. /\ Snapshot' /\ OldRefs' = OldRefs
       /\ \A r : /\ OldFn(r)' = OldFn(r)
                 /\ IsYoung(r)' <=> IsYoung(r)
                 /\ OldNode(r)' = OldNode(r)
                 /\ YoungChildren(r)' = YoungChildren(r)
  BY <1>0, <1>1, <1>8, <1>9, SnapshotKept
<1>11. DOMAIN remap' = DOMAIN remap \cup {o} /\ remap'[o] = m
       /\ \A q \in DOMAIN remap : remap'[q] = remap[q]
  BY <1>1, <1>2 DEF Extend
<1>12. /\ WalkSound'
       /\ Range(postOrder') \subseteq Range(postOrder)
       /\ o \notin Range(postOrder')
  BY <1>0, <1>1, <1>10, <1>11, CopyWalkSound
<1>13. DuringInv'
  <2>1. bufLen' >= base'
    BY <1>0, <1>1, <1>4, CodecAssumption
  <2> QED
    BY <1>1, <1>10, <1>12, <2>1 DEF DuringInv, NoCall, cacheVars
<1>14. \A c : (IsYoung(c) => c \in DOMAIN remap) => Translate(c)' = Translate(c)
  BY <1>10, <1>11 DEF Translate
<1>15. ASSUME NEW q \in DOMAIN remap'
       PROVE  /\ YoungChildren(q)' \subseteq DOMAIN remap'
              /\ remap'[q] \in YoungNodes(base)'
              /\ Node(remap[q])' = [var |-> OldNode(q).var, lo |-> Translate(OldNode(q).lo),
                                    hi |-> Translate(OldNode(q).hi)]
              /\ Translate(OldNode(q).lo)' = Translate(OldNode(q).lo)
              /\ Translate(OldNode(q).hi)' = Translate(OldNode(q).hi)
              /\ Den(remap[q])' = oldDen[q]
  <2>1. CASE q = o
    <3>1. YoungChildren(q)' \subseteq DOMAIN remap'
      BY <1>2, <1>10, <1>11, <2>1
    <3>2. remap'[q] = m /\ remap'[q] \in YoungNodes(base)'
      BY <1>8, <1>11, <2>1
    <3>3. Node(remap[q])' = Node(m)' /\ Den(remap[q])' = Den(m)'
      BY <3>2 DEF Node, Den
    <3>4. /\ IsYoung(OldNode(q).lo) => OldNode(q).lo \in DOMAIN remap
          /\ IsYoung(OldNode(q).hi) => OldNode(q).hi \in DOMAIN remap
      BY <1>2, <2>1 DEF YoungChildren
    <3>5. /\ Translate(OldNode(q).lo)' = Translate(OldNode(q).lo)
          /\ Translate(OldNode(q).hi)' = Translate(OldNode(q).hi)
      <4> PICK l : l = OldNode(q).lo
        OBVIOUS
      <4> PICK h : h = OldNode(q).hi
        OBVIOUS
      <4>1. OldNode(q)' = OldNode(q)
        BY <1>10
      <4>2. Translate(l)' = Translate(l) /\ Translate(h)' = Translate(h)
        BY <1>14, <3>4
      <4>3. Translate(OldNode(q).lo)' = Translate(l)'
            /\ Translate(OldNode(q).hi)' = Translate(h)'
        BY <4>1 DEF Translate, IsYoung
      <4> QED
        BY <4>2, <4>3
    <3> QED
      BY <1>4, <1>5, <2>1, <3>1, <3>2, <3>3, <3>5
  <2>2. CASE q \in DOMAIN remap
    <3> PICK r : r = remap[q]
      OBVIOUS
    <3>1. /\ YoungChildren(q) \subseteq DOMAIN remap
          /\ r \in YoungNodes(base)
          /\ Node(r) = [var |-> OldNode(q).var, lo |-> Translate(OldNode(q).lo),
                        hi |-> Translate(OldNode(q).hi)]
          /\ Den(r) = oldDen[q]
      BY <2>2 DEF CopyInv
    <3>2. remap'[q] = r /\ r \in Headers /\ r \in Nodes
      BY <1>11, <2>2, <3>1 DEF YoungNodes, Nodes
    <3>3. Node(remap[q])' = Node(r)' /\ Den(remap[q])' = Den(r)'
      BY <3>2 DEF Node, Den
    <3>4. Node(r)' = Node(r) /\ Den(r)' = Den(r)
      BY <1>4, <1>5, <3>2
    <3>5. /\ IsYoung(OldNode(q).lo) => OldNode(q).lo \in DOMAIN remap
          /\ IsYoung(OldNode(q).hi) => OldNode(q).hi \in DOMAIN remap
      BY <3>1 DEF YoungChildren
    <3>6. /\ Translate(OldNode(q).lo)' = Translate(OldNode(q).lo)
          /\ Translate(OldNode(q).hi)' = Translate(OldNode(q).hi)
      <4> PICK l : l = OldNode(q).lo
        OBVIOUS
      <4> PICK h : h = OldNode(q).hi
        OBVIOUS
      <4>1. OldNode(q)' = OldNode(q)
        BY <1>10
      <4>2. Translate(l)' = Translate(l) /\ Translate(h)' = Translate(h)
        BY <1>14, <3>5
      <4>3. Translate(OldNode(q).lo)' = Translate(l)'
            /\ Translate(OldNode(q).hi)' = Translate(h)'
        BY <4>1 DEF Translate, IsYoung
      <4> QED
        BY <4>2, <4>3
    <3>7. YoungChildren(q)' \subseteq DOMAIN remap' /\ remap'[q] \in YoungNodes(base)'
      BY <1>8, <1>10, <1>11, <3>1, <3>2
    <3> QED
      BY <3>1, <3>3, <3>4, <3>6, <3>7
  <2> QED
    BY <1>11, <2>1, <2>2
<1>16. CopyInv'
  <2>1. gcStack' = <<>> /\ nextRoot' > Len(keep') /\ DOMAIN unique' = 0 .. numVars' - 1
    BY <1>1 DEF CopyInv
  <2>2. DOMAIN remap' \subseteq DOMAIN oldTail'
        /\ Range(postOrder') \cap DOMAIN remap' = {}
    BY <1>1, <1>2, <1>11, <1>12 DEF CopyInv
  <2>3. \A q \in DOMAIN remap' :
          /\ YoungChildren(q)' \subseteq DOMAIN remap'
          /\ remap'[q] \in YoungNodes(base)'
          /\ Node(remap[q])' = [var |-> OldNode(q)'.var, lo |-> Translate(OldNode(q).lo)',
                                hi |-> Translate(OldNode(q).hi)']
          /\ Den(remap[q])' = oldDen'[q]
    BY <1>1, <1>10, <1>15
  <2>4. \A h \in YoungNodes(base)' : \E q \in DOMAIN remap' : remap'[q] = h
    BY <1>8, <1>11 DEF CopyInv
  <2> QED
    BY <1>6, <1>7, <2>1, <2>2, <2>3, <2>4 DEF CopyInv
<1> QED
  BY <1>1, <1>13, <1>16 DEF GcInv
-----------------------------------------------------------------------------
(* The end of a collection. *)

\* When nothing is left to copy, every root has been.
LEMMA RootsCopied ==
  ASSUME phase = "copy", DuringInv, CopyInv, postOrder = <<>>
  PROVE  \A i \in DOMAIN keep : Translates(held[keep[i]])
<1>1. Live = DOMAIN remap /\ OnStack = {}
  <2>1. gcStack = <<>>
    BY DEF CopyInv
  <2>2. DOMAIN gcStack = {} /\ DOMAIN postOrder = {}
    BY <2>1
  <2> QED
    BY <2>2 DEF Live, OnStack, Range
<1>2. \A i \in DOMAIN keep : i < nextRoot
  <2>1. DOMAIN keep = 1 .. Len(keep) /\ Len(keep) \in Nat /\ nextRoot \in Nat
        /\ nextRoot > Len(keep)
    BY DEF DuringInv, CopyInv
  <2> QED
    BY <2>1
<1> QED
  BY <1>1, <1>2 DEF DuringInv, WalkSound, Translates

\* Every reference of the new arena is what one of the old arena was copied to.
LEMMA NewIsCopied ==
  ASSUME DuringInv, CopyInv, NEW r \in Nodes
  PROVE  \E c \in OldRefs : Translates(c) /\ r = Translate(c) /\ Den(r) = OldFn(c)
<1>0. Snapshot /\ BytesTypeOK /\ Reduced /\ base \in Nat
  BY DEF DuringInv, CopyInv
<1>1. CASE r \in Terminals
  <2>1. ~ IsYoung(r) /\ r \in OldRefs
    BY <1>1 DEF IsYoung, IsNode, OldRefs
  <2> QED
    BY <2>1, TranslateFacts DEF Translates, Translate
<1>2. CASE r \in OldNodes
  <2>1. ~ IsYoung(r) /\ r \in OldRefs
    BY <1>0, <1>2, HeaderType DEF IsYoung, OldRefs, OldNodes
  <2> QED
    BY <2>1, TranslateFacts DEF Translates, Translate
<1>3. CASE r \in YoungNodes(base)
  <2>1. PICK c \in DOMAIN remap : remap[c] = r
    BY <1>3 DEF CopyInv
  <2>2. c \in DOMAIN oldTail
    BY DEF CopyInv
  <2>3. c \in OldRefs /\ IsYoung(c)
    BY <1>0, <2>2 DEF OldRefs, Snapshot, IsYoung, IsNode, Terminals, FalseRef, TrueRef
  <2> QED
    BY <2>1, <2>3, TranslateFacts DEF Translates, Translate
<1> QED
  <2>1. r \in Headers => r \in OldNodes \/ r \in YoungNodes(base)
    BY <1>0, HeaderType DEF OldNodes, YoungNodes
  <2> QED
    BY <1>1, <1>2, <1>3, <2>1 DEF Nodes

\* The copy of a canonical arena is canonical.
LEMMA CopyCanonical ==
  ASSUME DuringInv, CopyInv
  PROVE  Canonical
<1> SUFFICES ASSUME NEW r \in Nodes, NEW s \in Nodes, Den(r) = Den(s)
             PROVE  r = s
  BY DEF Canonical
<1>1. PICK c \in OldRefs : r = Translate(c) /\ Den(r) = OldFn(c)
  BY NewIsCopied
<1>2. PICK d \in OldRefs : s = Translate(d) /\ Den(s) = OldFn(d)
  BY NewIsCopied
<1>3. c = d
  BY <1>1, <1>2 DEF DuringInv, Snapshot
<1> QED
  BY <1>1, <1>2, <1>3

\* The rebuilt table has a set for each declared variable, and no other.
LEMMA RebuildExact ==
  ASSUME BytesTypeOK, Reduced, numVars > 0, DOMAIN unique = 0 .. numVars - 1,
         RebuildUnique(buf), UNCHANGED <<buf, bufLen, den, numVars>>
  PROVE  unique' \in [0 .. numVars - 1 -> SUBSET Headers] /\ UniqueExact'
<1> DEFINE T == DOMAIN unique \cup {0} \cup (0 .. numVars - 1)
                  \cup UNION {0 .. buf[o].var : o \in DOMAIN buf}
<1>1. numVars \in Nat
  BY MaxVarsAssumption DEF BytesTypeOK
<1>2. ASSUME NEW o \in DOMAIN buf PROVE 0 .. buf[o].var \subseteq 0 .. numVars - 1
  <2>1. VarOf(o) \in Nat /\ VarOf(o) < numVars
    BY HeaderType DEF Headers, Vars, Reduced, Node, Decode, VarOf
  <2> QED
    BY <1>1, <2>1 DEF VarOf
<1>3. 0 \in 0 .. numVars - 1
  BY <1>1
<1>4. T = 0 .. numVars - 1
  BY <1>2, <1>3
<1>5. unique' = [v \in T |-> {o \in Headers : VarOf(o) = v}]
  BY DEF RebuildUnique, Tables, Headers, VarOf
<1> HIDE DEF T
<1>6. Headers' = Headers /\ \A o : VarOf(o)' = VarOf(o)
  BY DEF Headers, VarOf
<1> QED
  BY <1>4, <1>5, <1>6 DEF UniqueExact

\* What the caller holds when gc returns: what it held, moved, or FALSE.
LEMMA FinishHeld ==
  ASSUME phase = "copy", DuringInv, CopyInv, GcFinish
  PROVE  /\ postOrder = <<>>
         /\ RebuildUnique(buf) /\ FlushCache
         /\ phase' = "off"
         /\ UNCHANGED <<pc, gcStack, postOrder, buf, bufLen, den, numVars, call, stack, results>>
         /\ remap' = <<>>
         /\ DOMAIN held' = Handles
         /\ \A k \in Handles :
              /\ held'[k] \in Nodes
              /\ \/ held'[k] = FalseRef
                 \/ Den(held'[k]) = OldFn(held[k])
         /\ \A k \in Handles :
              IF k \in Range(keep) \/ ~ IsYoung(held[k])
              THEN Den(held'[k]) = OldFn(held[k])
              ELSE held'[k] = FalseRef
         /\ \A i \in DOMAIN keep : Den(held'[keep[i]]) = OldFn(held[keep[i]])
         /\ held' = [k \in Handles |-> held'[k]]
<1>1. postOrder = <<>> /\ RebuildUnique(buf) /\ FlushCache
      /\ UNCHANGED <<buf, bufLen, den, numVars, call, stack, results>>
  BY DEF GcFinish
<1>2. \A i \in DOMAIN keep : Translates(held[keep[i]])
  BY <1>1, RootsCopied
<1>3. /\ held' = [k \in Handles |->
                    IF k \in Range(keep) THEN Translate(held[k])
                    ELSE IF IsYoung(held[k]) THEN FalseRef ELSE held[k]]
      /\ phase' = "off" /\ remap' = <<>>
      /\ UNCHANGED <<pc, gcStack, postOrder>>
  BY <1>2 DEF GcFinish
<1>4. keep \in Seq(Handles) /\ held \in [Handles -> OldRefs]
  BY DEF DuringInv
<1>5. ASSUME NEW k \in Handles, k \in Range(keep)
      PROVE  held'[k] \in Nodes /\ Den(held'[k]) = OldFn(held[k])
  <2>1. Translates(held[k]) /\ held[k] \in OldRefs
    BY <1>2, <1>4, <1>5 DEF Range
  <2>2. held'[k] = Translate(held[k])
    BY <1>3, <1>5
  <2> QED
    BY <2>1, <2>2, TranslateFacts
<1>6. ASSUME NEW k \in Handles, k \notin Range(keep)
      PROVE  /\ held'[k] \in Nodes
             /\ IF IsYoung(held[k]) THEN held'[k] = FalseRef
                ELSE Den(held'[k]) = OldFn(held[k])
  <2>1. CASE IsYoung(held[k])
    BY <1>3, <1>6, <2>1 DEF Nodes, Terminals
  <2>2. CASE ~ IsYoung(held[k])
    <3>1. held'[k] = held[k] /\ held[k] \in OldRefs
      BY <1>3, <1>4, <1>6, <2>2
    <3>2. Translates(held[k]) /\ held'[k] = Translate(held[k])
      BY <2>2, <3>1 DEF Translates, Translate
    <3> QED
      BY <2>2, <3>1, <3>2, TranslateFacts
  <2> QED
    BY <2>1, <2>2
<1>7. \A i \in DOMAIN keep : keep[i] \in Handles /\ keep[i] \in Range(keep)
  BY <1>4 DEF Range
<1> QED
  BY <1>1, <1>3, <1>5, <1>6, <1>7

LEMMA GcFinishInv ==
  ASSUME phase = "copy", DuringInv, CopyInv, GcFinish
  PROVE  GcInv'
<1>1. /\ postOrder = <<>> /\ RebuildUnique(buf) /\ FlushCache /\ phase' = "off"
      /\ UNCHANGED <<pc, gcStack, postOrder, buf, bufLen, den, numVars, call, stack, results>>
      /\ remap' = <<>>
      /\ held' = [k \in Handles |-> held'[k]]
      /\ \A k \in Handles : held'[k] \in Nodes
  BY FinishHeld
<1>2. /\ BytesTypeOK /\ Reduced /\ Meaning /\ VarBytesFit
      /\ DOMAIN unique = 0 .. numVars - 1 /\ gcStack = <<>>
      /\ pc = "idle" /\ call = NoCall /\ stack = <<>> /\ results = <<>>
      /\ numVars > 0 /\ DOMAIN cache = 0 .. CacheSlots - 1
  BY DEF DuringInv, CopyInv
<1>3. unique' \in [0 .. numVars - 1 -> SUBSET Headers] /\ UniqueExact'
  BY <1>1, <1>2, RebuildExact
<1>4. /\ Headers' = Headers /\ Nodes' = Nodes
      /\ \A r : /\ Den(r)' = Den(r) /\ Node(r)' = Node(r) /\ VarOf(r)' = VarOf(r)
                /\ IsNode(r)' = IsNode(r)
  BY <1>1 DEF Headers, Nodes, Den, Node, VarOf, IsNode
<1>5. BytesTypeOK' /\ Meaning' /\ VarBytesFit'
  BY <1>1, <1>2, <1>4 DEF BytesTypeOK, Meaning, VarBytesFit, Node, Decode
<1>6. Reduced'
  BY <1>1, <1>2, <1>4 DEF Reduced, IsNode
<1>7. Canonical'
  BY <1>4, CopyCanonical DEF Canonical
<1>8. ArenaInv'
  BY <1>1, <1>3, <1>4, <1>5, <1>6, <1>7 DEF ArenaInv
<1>9. cache' = [s \in 0 .. CacheSlots - 1 |-> EmptyEntry] /\ cacheLen' = 0
  BY <1>1, <1>2 DEF FlushCache
<1>10. held' \in [Handles -> Nodes]
  BY <1>1
<1>11. CallTypeOK' /\ CacheSound'
  BY <1>1, <1>2, <1>4, <1>9, <1>10 DEF CallTypeOK, CacheSound, Entries, NoCall
<1>12. NoPanic' /\ OnItsWay'
  BY <1>1, <1>2 DEF NoPanic, OnItsWay, NoCall
<1>13. CallInv'
  BY <1>1, <1>2, <1>5, <1>8, <1>11, <1>12 DEF CallInv, IInv
<1> QED
  BY <1>1, <1>2, <1>13, BetweenIsCallInvNext DEF GcInv
-----------------------------------------------------------------------------
(* Every step. *)

\* A step that changes nothing keeps the invariant.
LEMMA GcStutterInv ==
  ASSUME VarsFit, GcInv, UNCHANGED allVars
  PROVE  GcInv'
<1>1. UNCHANGED <<vars, phase, base, keep, nextRoot, gcStack, oldTail, remap, postOrder, oldDen>>
      /\ UNCHANGED <<arenaVars, numVars, cacheVars, held, loopVars>>
      /\ UNCHANGED <<buf, bufLen, unique, den, cache, pc, call, stack, results>>
  BY DEF allVars, gcVars, vars, arenaVars, cacheVars, loopVars
<1>2. CASE phase = "off"
  <2>1. CallInv /\ BetweenInv
    BY <1>2, BetweenIsCallInv DEF GcInv
  <2>2. CallInv'
    BY <1>1, <2>1, NextCallInv
  <2> QED
    BY <1>1, <1>2, <2>1, <2>2, BetweenIsCallInvNext DEF GcInv, BetweenInv
<1>3. CASE phase # "off"
  <2>1. DuringInv
    BY <1>3 DEF GcInv
  <2>2. OldNodes' = OldNodes /\ YoungNodes(base)' = YoungNodes(base)
    BY <1>1 DEF OldNodes, YoungNodes, Headers
  <2>3. /\ Snapshot' /\ OldRefs' = OldRefs
        /\ \A r : /\ OldFn(r)' = OldFn(r)
                  /\ IsYoung(r)' <=> IsYoung(r)
                  /\ OldNode(r)' = OldNode(r)
                  /\ YoungChildren(r)' = YoungChildren(r)
    BY <1>1, <2>1, <2>2, SnapshotKept DEF DuringInv, VarOf
  <2>4. WalkSound'
    BY <1>1, <2>1 DEF DuringInv, WalkSound, WalkFrames, Live, OnStack, Entered, Roots,
                      YoungChildren, OldNode, Decode, IsYoung
  <2>5. DuringInv'
    BY <1>1, <2>1, <2>3, <2>4 DEF DuringInv, NoCall
  <2>6. CASE phase = "mark"
    <3>1. MarkInv
      BY <2>6 DEF GcInv
    <3>2. ArenaInv' /\ VarBytesFit'
      BY <1>1, <3>1, SameArena, BytesKept DEF MarkInv
    <3> QED
      BY <1>1, <2>2, <2>5, <2>6, <3>1, <3>2 DEF GcInv, MarkInv
  <2>7. CASE phase = "copy"
    <3>1. CopyInv
      BY <2>7 DEF GcInv
    <3>2. \A r : /\ Den(r)' = Den(r) /\ Node(r)' = Node(r) /\ VarOf(r)' = VarOf(r)
                 /\ Translate(r)' = Translate(r)
      BY <1>1 DEF Den, Node, VarOf, Translate, IsYoung
    <3>3. Headers' = Headers /\ Nodes' = Nodes
      BY <1>1 DEF Headers, Nodes
    <3>4. BytesTypeOK' /\ Meaning' /\ VarBytesFit' /\ Reduced'
      BY <1>1, <3>1, <3>2, <3>3
         DEF CopyInv, BytesTypeOK, Meaning, VarBytesFit, Reduced, IsNode, Node, Decode
    <3>5. \A q \in DOMAIN remap' :
            /\ YoungChildren(q)' \subseteq DOMAIN remap'
            /\ remap'[q] \in YoungNodes(base)'
            /\ Node(remap[q])' = [var |-> OldNode(q)'.var, lo |-> Translate(OldNode(q).lo)',
                                  hi |-> Translate(OldNode(q).hi)']
            /\ Den(remap[q])' = oldDen'[q]
      BY <1>1, <2>2, <2>3, <3>1
         DEF CopyInv, Den, Node, Translate, IsYoung, OldNode, Decode
    <3>6. \A h \in YoungNodes(base)' : \E q \in DOMAIN remap' : remap'[q] = h
      BY <1>1, <2>2, <3>1 DEF CopyInv
    <3>7. CopyInv'
      BY <1>1, <3>1, <3>4, <3>5, <3>6 DEF CopyInv
    <3> QED
      BY <1>1, <2>5, <2>7, <3>7 DEF GcInv
  <2> QED
    BY <1>3, <2>6, <2>7 DEF GcInv
<1> QED
  BY <1>2, <1>3

LEMMA NextGcInv == VarsFit /\ GcInv /\ [GcNext]_allVars => GcInv'
<1> SUFFICES ASSUME VarsFit, GcInv, [GcNext]_allVars PROVE GcInv'
  OBVIOUS
<1>1. CASE phase = "off" /\ Next /\ UNCHANGED gcVars
  BY <1>1, NextBetween DEF GcInv, gcVars
<1>2. CASE GcCall
  <2>1. phase = "off"
    BY <1>2 DEF GcCall, DropRoots, Gc
  <2> QED
    BY <1>2, <2>1, GcCallInv DEF GcInv
<1>3. CASE GcRoot
  BY <1>3, GcRootInv DEF GcInv, GcRoot, Marking
<1>4. CASE GcEnter
  BY <1>4, GcEnterInv DEF GcInv, GcEnter, Marking
<1>5. CASE GcExit
  BY <1>5, GcExitInv DEF GcInv, GcExit, Marking
<1>6. CASE GcTruncate
  BY <1>6, GcTruncateInv DEF GcInv, GcTruncate
<1>7. CASE GcCopy
  BY <1>7, GcCopyInv DEF GcInv, GcCopy
<1>8. CASE GcFinish
  BY <1>8, GcFinishInv DEF GcInv, GcFinish
<1>9. CASE UNCHANGED allVars
  BY <1>9, GcStutterInv
<1> QED
  BY <1>1, <1>2, <1>3, <1>4, <1>5, <1>6, <1>7, <1>8, <1>9 DEF GcNext, GcStep
-----------------------------------------------------------------------------
(* The theorems. *)

\* What the run gc_shared_dag checks as the inductive invariant holds for every
\* arena, base, list of roots and number of variables, handles and cache slots.
THEOREM GcInvariance ==
  ASSUME VarsFit
  PROVE  GcSpec => []GcInv
<1>1. GcInit => GcInv
  BY InitGcInv
<1>2. GcInv /\ [GcNext]_allVars => GcInv'
  BY NextGcInv
<1> QED
  BY <1>1, <1>2, PTL DEF GcSpec

\* No assertion of the engine is reached when collections run between its calls,
\* nor translate's panic on a node that was not copied, nor those of the copy.
THEOREM GcNeverPanics ==
  ASSUME VarsFit
  PROVE  GcSpec => []NoPanic
<1>1. GcInv => NoPanic
  BY DEF GcInv, BetweenInv, DuringInv, IteInv, NoPanic
<1> QED
  BY <1>1, GcInvariance, PTL

\* gc leaves the engine as it found it: typed, with an exact unique table, a
\* canonical arena and an apply cache that names no node that moved.
THEOREM EngineSurvivesGc ==
  ASSUME VarsFit
  PROVE  GcSpec => []EngineIntact
<1>1. GcInv => EngineIntact
  BY DEF GcInv, BetweenInv, IInv, ArenaInv, IteInv, EngineIntact, TypeOK
<1> QED
  BY <1>1, GcInvariance, PTL

\* A copied node stands for the function it stood for before the collection.
THEOREM CopiesKeepFns ==
  ASSUME VarsFit
  PROVE  GcSpec => []CopySound
<1>1. GcInv => CopySound
  BY DEF GcInv, CopyInv, CopySound
<1> QED
  BY <1>1, GcInvariance, PTL

\* gc never copies two nodes to one, nor one node twice: the reduction of its
\* copy step, lo = hi, is never taken.
THEOREM CopiesAreDistinct ==
  ASSUME VarsFit
  PROVE  GcSpec => []CopyOneToOne
<1>1. ASSUME phase = "copy", DuringInv, CopyInv PROVE CopyOneToOne
  <2>1. ASSUME NEW o \in DOMAIN remap, NEW q \in DOMAIN remap, remap[o] = remap[q]
        PROVE  o = q
    <3>1. oldDen[o] = oldDen[q]
      BY <1>1, <2>1 DEF CopyInv
    <3>2. o \in DOMAIN oldTail /\ q \in DOMAIN oldTail
      BY <1>1 DEF CopyInv
    <3>3. IsNode(o) /\ IsNode(q)
      BY <1>1, <3>2 DEF DuringInv, Snapshot, IsNode, Terminals, FalseRef, TrueRef
    <3> QED
      BY <1>1, <3>1, <3>2, <3>3 DEF DuringInv, Snapshot, OldFn, OldRefs
  <2> QED
    BY <1>1, <2>1 DEF CopyOneToOne, CopyInv
<1>2. GcInv => CopyOneToOne
  BY <1>1 DEF GcInv, CopyOneToOne
<1> QED
  BY <1>2, GcInvariance, PTL

LEMMA StepsKeepBase ==
  ASSUME GcInv, [GcNext]_allVars, phase # "off", NEW o \in Headers, o < base
  PROVE  o \in DOMAIN buf' /\ buf'[o] = buf[o]
<1>1. CASE UNCHANGED vars
  BY <1>1 DEF vars, arenaVars, Headers
<1>2. CASE GcTruncate
  BY <1>2 DEF GcTruncate, OldNodes
<1>3. CASE GcCopy
  <2> PICK n : n = OldNode(Head(postOrder))
    OBVIOUS
  <2> PICK lo : lo = Translate(n.lo)
    OBVIOUS
  <2> PICK hi : hi = Translate(n.hi)
    OBVIOUS
  <2>1. phase = "copy" /\ DuringInv /\ CopyInv
    BY <1>3 DEF GcInv, GcCopy
  <2>2. postOrder # <<>> /\ EncodeNode(n.var, lo, hi)
    BY <1>3, <2>1, GcCopies
  <2>3. lo \in Nodes /\ hi \in Nodes /\ n.var \in 0 .. numVars - 1
    BY <2>1, <2>2, CopiedNext
  <2>4. o \in Headers' /\ buf'[o] = buf[o]
    BY <2>1, <2>2, <2>3, EncodeFacts DEF CopyInv
  <2> QED
    BY <2>4 DEF Headers
<1>4. CASE GcFinish
  BY <1>4 DEF GcFinish, Headers
<1>5. CASE GcRoot \/ GcEnter \/ GcExit \/ GcCall \/ UNCHANGED allVars
  BY <1>1, <1>5, CallInArena DEF GcRoot, GcEnter, GcExit, Marking, allVars
<1> QED
  BY <1>2, <1>3, <1>4, <1>5 DEF GcNext, GcStep

\* No step of a collection changes a byte below the base.
THEOREM BaseNeverMoves ==
  ASSUME VarsFit
  PROVE  GcSpec => BaseUntouched
<1>1. GcInv /\ [GcNext]_allVars =>
        [phase # "off" =>
           \A o \in Headers : o < base => o \in DOMAIN buf' /\ buf'[o] = buf[o]]_allVars
  BY StepsKeepBase
<1> QED
  BY <1>1, GcInvariance, PTL DEF GcSpec, BaseUntouched

LEMMA FinishIsClean ==
  ASSUME GcInv, [GcNext]_allVars, phase = "copy", phase' = "off",
         NEW h \in YoungNodes(base)
  PROVE  \/ \E i \in DOMAIN keep : held'[keep[i]] = h
         \/ \E p \in YoungNodes(base) : h \in Children(p)
<1>1. DuringInv /\ CopyInv
  BY DEF GcInv
<1>2. GcFinish
  BY CallInArena DEF GcNext, GcStep, GcRoot, GcEnter, GcExit, Marking,
         GcTruncate, GcCopy, GcPanic, allVars, gcVars
<1>3. postOrder = <<>>
  BY <1>2 DEF GcFinish
<1>4. Live = DOMAIN remap /\ Entered = DOMAIN remap
  <2>1. gcStack = <<>>
    BY <1>1 DEF CopyInv
  <2>2. DOMAIN gcStack = {} /\ DOMAIN postOrder = {}
    BY <1>3, <2>1
  <2> QED
    BY <2>2 DEF Live, Entered, Range
<1>5. PICK q \in DOMAIN remap : remap[q] = h
  BY <1>1 DEF CopyInv
<1>6. q \in DOMAIN oldTail /\ h \in Headers /\ h \notin Terminals
  BY <1>1, HeaderType DEF CopyInv, YoungNodes
<1>7. IsYoung(q) /\ Translate(q) = h
  BY <1>1, <1>5, <1>6
     DEF DuringInv, Snapshot, IsYoung, IsNode, Terminals, FalseRef, TrueRef, Translate
<1>8. q \in Roots \/ \E p \in DOMAIN remap : q \in YoungChildren(p)
  BY <1>1, <1>4 DEF DuringInv, WalkSound
<1>9. CASE q \in Roots
  <2>1. PICK i \in DOMAIN keep : held[keep[i]] = q
    BY <1>9 DEF Roots
  <2>2. keep[i] \in Handles /\ keep[i] \in Range(keep)
    BY <1>1 DEF DuringInv, Range
  <2>3. \A j \in DOMAIN keep : Translates(held[keep[j]])
    BY <1>1, <1>3, RootsCopied
  <2>4. held' = [k \in Handles |->
                    IF k \in Range(keep) THEN Translate(held[k])
                    ELSE IF IsYoung(held[k]) THEN FalseRef ELSE held[k]]
    BY <1>2, <2>3 DEF GcFinish
  <2>5. held'[keep[i]] = Translate(held[keep[i]])
    BY <2>2, <2>4
  <2> QED
    BY <1>7, <2>1, <2>5
<1>10. CASE \E p \in DOMAIN remap : q \in YoungChildren(p)
  <2>1. PICK p \in DOMAIN remap : q \in YoungChildren(p)
    BY <1>10
  <2>2. q = OldNode(p).lo \/ q = OldNode(p).hi
    BY <2>1 DEF YoungChildren
  <2>3. /\ remap[p] \in YoungNodes(base)
        /\ Node(remap[p]).lo = Translate(OldNode(p).lo)
        /\ Node(remap[p]).hi = Translate(OldNode(p).hi)
    BY <1>1 DEF CopyInv
  <2>4. h = Node(remap[p]).lo \/ h = Node(remap[p]).hi
    BY <1>7, <2>2, <2>3
  <2>5. h \in Children(remap[p])
    BY <1>6, <2>4 DEF Children
  <2> QED
    BY <2>3, <2>5
<1> QED
  BY <1>8, <1>9, <1>10

\* A collection keeps no garbage: a node it copied is a root, or the child of a
\* node it copied.
THEOREM NoGarbageKept ==
  ASSUME VarsFit
  PROVE  GcSpec => CleanTail
<1>1. GcInv /\ [GcNext]_allVars =>
        [phase = "copy" /\ phase' = "off" =>
           \A o \in YoungNodes(base) :
             \/ \E i \in DOMAIN keep : held'[keep[i]] = o
             \/ \E p \in YoungNodes(base) : o \in Children(p)]_allVars
  BY FinishIsClean
<1> QED
  BY <1>1, GcInvariance, PTL DEF GcSpec, CleanTail
-----------------------------------------------------------------------------
(* The engine with its collector implements BoolGc. *)

\* Between collections what the caller holds is what Manager says it is.
LEMMA HeldBetween ==
  ASSUME phase = "off"
  PROVE  HeldFns = HandleFns /\ Kept = {}
BY DEF HeldFns, HandleFns, Kept

LEMMA HeldDuring ==
  ASSUME phase # "off"
  PROVE  /\ HeldFns = [k \in Handles |-> OldFn(held[k])]
         /\ Kept = {Range(keep) \cup {k \in Handles : ~ IsYoung(held[k])}}
BY DEF HeldFns, OldFn, Kept

LEMMA InitIsGcBF == GcInit => GcBF!GcInit
<1> SUFFICES ASSUME GcInit PROVE GcBF!GcInit
  OBVIOUS
<1>1. HeldFns = [k \in Handles |-> FalseFn]
  BY DEF GcInit, Init, HeldFns, Den, FalseRef, TrueRef, IsNode, Terminals
<1>2. Owed = <<>> /\ numVars = 0 /\ Kept = {}
  BY DEF GcInit, Init, Owed, Kept
<1> QED
  BY <1>1, <1>2
  DEF GcBF!GcInit, GcBF!Init, GcBF!NoneOwed, GcBF!FalseFn, FalseFn

\* The engine's own steps are the steps they are without a collector.
LEMMA NextIsGcBF ==
  ASSUME phase = "off", phase' = "off", BF!Next
  PROVE  GcBF!Call
<1>1. HeldFns = HandleFns /\ HeldFns' = HandleFns'
  BY DEF HeldFns, HandleFns
<1>2. BF!Operands = GcBF!Operands
  BY <1>1 DEF BF!Operands, GcBF!Operands, HandleFns, BF!FalseFn, GcBF!FalseFn,
              BF!TrueFn, GcBF!TrueFn, BF!Assignments, GcBF!Assignments, BF!Vars, GcBF!Vars
<1>3. /\ BF!NoneOwed = GcBF!NoneOwed /\ BF!TrueFn = GcBF!TrueFn
      /\ BF!FalseFn = GcBF!FalseFn
      /\ \A v, f, g : BF!Shannon(v, f, g) = GcBF!Shannon(v, f, g)
      /\ \A f, g : BF!XorFn(f, g) = GcBF!XorFn(f, g)
      /\ \A f, g, h : BF!IteFn(f, g, h) = GcBF!IteFn(f, g, h)
      /\ \A f, v : BF!IndependentOf(f, v) <=> GcBF!IndependentOf(f, v)
  BY DEF BF!NoneOwed, GcBF!NoneOwed, BF!TrueFn, GcBF!TrueFn, BF!FalseFn, GcBF!FalseFn,
         BF!Shannon, GcBF!Shannon, BF!XorFn, GcBF!XorFn, BF!IteFn, GcBF!IteFn,
         BF!IndependentOf, GcBF!IndependentOf,
         BF!Assignments, GcBF!Assignments, BF!Vars, GcBF!Vars
<1>4. ASSUME BF!Declare PROVE GcBF!Declare
  <2>1. HandleFns' = HandleFns /\ Owed' = Owed /\ numVars < MaxVars /\ numVars' = numVars + 1
    BY <1>4 DEF BF!Declare, HandleFns
  <2> QED
    BY <1>1, <2>1 DEF GcBF!Declare
<1>5. ASSUME NEW k \in Handles, BF!Branch(k) PROVE GcBF!Branch(k)
  <2>1. /\ Owed = BF!NoneOwed /\ numVars' = numVars /\ Owed' = Owed
        /\ \E v \in 0 .. numVars - 1, lo \in BF!Operands, hi \in BF!Operands :
             /\ \/ lo = hi
                \/ \A u \in 0 .. v : BF!IndependentOf(lo, u) /\ BF!IndependentOf(hi, u)
             /\ HandleFns' = [HandleFns EXCEPT ![k] = IF lo = hi THEN lo
                                                      ELSE BF!Shannon(v, lo, hi)]
    BY <1>5 DEF BF!Branch, HandleFns
  <2>2. PICK v \in 0 .. numVars - 1, lo \in GcBF!Operands, hi \in GcBF!Operands :
          /\ \/ lo = hi
             \/ \A u \in 0 .. v : BF!IndependentOf(lo, u) /\ BF!IndependentOf(hi, u)
          /\ HandleFns' = [HandleFns EXCEPT ![k] = IF lo = hi THEN lo
                                                   ELSE BF!Shannon(v, lo, hi)]
    BY <1>2, <2>1
  <2>3. lo = hi \/ \A u \in 0 .. v : GcBF!IndependentOf(lo, u) /\ GcBF!IndependentOf(hi, u)
    BY <1>3, <2>2
  <2>4. HeldFns' = [HeldFns EXCEPT ![k] = IF lo = hi THEN lo ELSE GcBF!Shannon(v, lo, hi)]
    BY <1>1, <1>3, <2>2
  <2> QED
    BY <1>3, <2>1, <2>3, <2>4 DEF GcBF!Branch
<1>6. ASSUME NEW k \in Handles, BF!Ask(k) PROVE GcBF!Ask(k)
  <2>1. /\ Owed = BF!NoneOwed /\ numVars' = numVars /\ HandleFns' = HandleFns
        /\ \/ \E f \in BF!Operands : Owed' = [dest |-> k, fn |-> BF!TrueFn \ f]
           \/ \E f, g \in BF!Operands :
                \/ Owed' = [dest |-> k, fn |-> f \cap g]
                \/ Owed' = [dest |-> k, fn |-> f \cup g]
                \/ Owed' = [dest |-> k, fn |-> BF!XorFn(f, g)]
           \/ \E f, g, h \in BF!Operands : Owed' = [dest |-> k, fn |-> BF!IteFn(f, g, h)]
    BY <1>6 DEF BF!Ask, BF!Owe, HandleFns
  <2> QED
    BY <1>1, <1>2, <1>3, <2>1 DEF GcBF!Ask, GcBF!Owe
<1>7. ASSUME BF!Answer PROVE GcBF!Answer
  <2>1. /\ Owed # BF!NoneOwed /\ Owed' = BF!NoneOwed /\ numVars' = numVars
        /\ HandleFns' = [HandleFns EXCEPT ![Owed.dest] = Owed.fn]
    BY <1>7 DEF BF!Answer, HandleFns
  <2> QED
    BY <1>1, <1>3, <2>1 DEF GcBF!Answer
<1>8. ASSUME NEW k \in Handles, BF!Constant(k) PROVE GcBF!Constant(k)
  <2>1. /\ Owed = BF!NoneOwed /\ Owed' = Owed /\ numVars' = numVars
        /\ \E c \in {BF!FalseFn, BF!TrueFn} :
             HandleFns' = [HandleFns EXCEPT ![k] = c]
    BY <1>8 DEF BF!Constant, HandleFns
  <2> QED
    BY <1>1, <1>3, <2>1 DEF GcBF!Constant
<1>9. GcBF!Next
  BY <1>4, <1>5, <1>6, <1>7, <1>8 DEF BF!Next, GcBF!Next
<1>10. Kept = {} /\ Kept' = {}
  BY DEF Kept
<1> QED
  BY <1>9, <1>10 DEF GcBF!Call

\* The last step of a collection returns the roots as they were, and gives up
\* the other handles of the tail.
LEMMA FinishReturns ==
  ASSUME phase = "copy", DuringInv, CopyInv, GcFinish
  PROVE  GcBF!Collected
<1> PICK K : K = Range(keep) \cup {k \in Handles : ~ IsYoung(held[k])}
  OBVIOUS
<1>1. /\ phase' = "off"
      /\ UNCHANGED <<den, numVars, call>>
      /\ \A k \in Handles : IF k \in K THEN Den(held'[k]) = OldFn(held[k])
                              ELSE held'[k] = FalseRef
  BY FinishHeld
<1>2. Owed' = Owed
  BY <1>1 DEF Owed
<1>3. HeldFns = [k \in Handles |-> OldFn(held[k])] /\ Kept = {K}
  BY HeldDuring
<1>4. HeldFns' = [k \in Handles |-> Den(held[k])'] /\ Kept' = {}
  BY <1>1 DEF HeldFns, Kept
<1>5. \A k \in Handles : Den(held[k])' = Den(held'[k])
  BY <1>1 DEF Den
<1>6. Den(FalseRef) = GcBF!FalseFn
  BY DEF Den, FalseRef, TrueRef, GcBF!FalseFn, FalseFn
<1>7. HeldFns' = [k \in Handles |-> IF k \in K THEN HeldFns[k] ELSE GcBF!FalseFn]
  BY <1>1, <1>3, <1>4, <1>5, <1>6
<1> QED
  BY <1>1, <1>2, <1>3, <1>4, <1>7 DEF GcBF!Collected

\* A collection begins with the caller's handles as they are.
LEMMA CallCollects ==
  ASSUME GcInv, GcCall
  PROVE  GcBF!Collect \/ UNCHANGED <<HeldFns, numVars, Owed, Kept>>
<1>1. /\ phase = "off" /\ pc = "idle" /\ UNCHANGED vars
      /\ \/ UNCHANGED gcVars
         \/ \E b \in Nat, roots \in Seq(Handles) : GcBegin(b, roots)
  BY CallInArena
<1>2. UNCHANGED <<held, den, call, numVars>>
  BY <1>1 DEF vars, arenaVars, loopVars
<1>3. \A r : Den(r)' = Den(r)
  BY <1>2 DEF Den
<1>4. CASE UNCHANGED gcVars
  BY <1>1, <1>2, <1>3, <1>4 DEF HeldFns, Kept, Owed, gcVars
<1>5. CASE \E b \in Nat, roots \in Seq(Handles) : GcBegin(b, roots)
  <2>1. PICK roots \in Seq(Handles) : \E b \in Nat : GcBegin(b, roots)
    BY <1>5
  <2>2. phase' = "mark" /\ oldDen' = den /\ keep' = roots
    BY <2>1 DEF GcBegin
  <2>3. HeldFns' = HeldFns
    <3>1. \A r : IsNode(r) => den[r] = Den(r)
      BY DEF IsNode, Den, Terminals
    <3> QED
      BY <1>1, <1>2, <1>3, <2>2, <3>1 DEF HeldFns, IsNode
  <2> PICK K : K = Range(keep') \cup {k \in Handles : ~ IsYoung(held[k])'}
    OBVIOUS
  <2>4. Kept = {} /\ Kept' = {K}
    BY <1>1, <2>2 DEF Kept
  <2>5. K \in SUBSET Handles
    <3>1. Range(keep') \subseteq Handles
      BY <2>2 DEF Range
    <3> QED
      BY <3>1
  <2>6. Owed = <<>> /\ Owed' = Owed
    <3>1. call = NoCall
      BY <1>1 DEF GcInv, BetweenInv, IteInv, OnItsWay
    <3> QED
      BY <1>2, <3>1 DEF Owed
  <2> QED
    BY <1>2, <2>3, <2>4, <2>5, <2>6 DEF GcBF!Collect, GcBF!NoneOwed
<1> QED
  BY <1>1, <1>4, <1>5

LEMMA GcNextIsBoolGc ==
  ASSUME VarsFit, GcInv, [GcNext]_allVars
  PROVE  [GcBF!GcNext]_<<HeldFns, numVars, Owed, Kept>>
<1>1. CASE phase = "off" /\ Next /\ UNCHANGED gcVars
  <2>1. CallInv /\ phase' = "off"
    BY <1>1, BetweenIsCallInv DEF GcInv, gcVars
  <2>2. [BF!Next]_<<HandleFns, numVars, Owed>>
    BY <1>1, <2>1, NextIsBoolFns
  <2>3. HeldFns = HandleFns /\ HeldFns' = HandleFns' /\ Kept' = Kept
    BY <1>1, <2>1 DEF HeldFns, HandleFns, Kept
  <2> QED
    BY <1>1, <2>1, <2>2, <2>3, NextIsGcBF DEF GcBF!GcNext
<1>2. CASE GcCall
  BY <1>2, CallCollects DEF GcBF!GcNext
<1>3. CASE GcFinish
  <2>1. phase = "copy" /\ DuringInv /\ CopyInv
    BY <1>3 DEF GcInv, GcFinish
  <2> QED
    BY <1>3, <2>1, FinishReturns DEF GcBF!GcNext
<1>4. CASE GcRoot \/ GcEnter \/ GcExit \/ GcTruncate \/ GcCopy
  <2>1. /\ phase # "off" /\ phase' # "off"
        /\ UNCHANGED <<held, oldDen, base, keep, call, numVars>>
    <3>1. CASE GcRoot \/ GcEnter \/ GcExit
      BY <3>1 DEF GcRoot, GcEnter, GcExit, Marking, vars, loopVars
    <3>2. CASE GcTruncate
      BY <3>2 DEF GcTruncate, loopVars
    <3>3. CASE GcCopy
      BY <3>3 DEF GcCopy, GcPanic, gcVars
    <3> QED
      BY <1>4, <3>1, <3>2, <3>3
  <2>2. HeldFns = [k \in Handles |-> OldFn(held[k])]
    BY <2>1, HeldDuring
  <2>3. HeldFns' = [k \in Handles |-> OldFn(held[k])']
    BY <2>1 DEF HeldFns, OldFn
  <2>4. \A r : OldFn(r)' = OldFn(r)
    BY <2>1 DEF OldFn, Den, IsNode, Terminals, FalseRef, TrueRef
  <2>5. \A k : OldFn(held[k])' = OldFn(held[k])
    BY <2>1, <2>4 DEF OldFn
  <2>6. Kept' = Kept
    BY <2>1 DEF Kept, IsYoung, IsNode
  <2> QED
    BY <2>1, <2>2, <2>3, <2>5, <2>6 DEF Owed
<1>5. CASE UNCHANGED allVars
  BY <1>5 DEF allVars, vars, arenaVars, loopVars, gcVars, HeldFns, Kept, IsYoung,
              Owed, Den
<1> QED
  BY <1>1, <1>2, <1>3, <1>4, <1>5 DEF GcNext, GcStep

\* To its caller the engine with its collector is BoolGc: however many nodes a
\* collection moves, the roots it returns and the handles below the base stand
\* for what they stood for when it was called.
THEOREM CollectorIsBoolGc ==
  ASSUME VarsFit
  PROVE  GcSpec => GcImplementsBoolGc
<1>1. GcInit => GcBF!GcInit
  BY InitIsGcBF
<1>2. GcInv /\ [GcNext]_allVars => [GcBF!GcNext]_<<HeldFns, numVars, Owed, Kept>>
  BY GcNextIsBoolGc
<1> QED
  BY <1>1, <1>2, GcInvariance, PTL
  DEF GcSpec, GcImplementsBoolGc, GcBF!GcSpec, GcBF!GcSteps
-----------------------------------------------------------------------------
(* Every collection's turns come to an end. *)

\* Above a node's exit lie nodes that come before it in the arena.
Descends(s) ==
  \A j \in DOMAIN s : s[j].kind = "exit" => \A m \in 1 .. j - 1 : s[m].off < s[j].off
Descending == phase = "mark" => Descends(gcStack)

LEMMA DescendsPush ==
  ASSUME NEW F, NEW s \in Seq(F), s # <<>>, NEW w \in Seq(F), NEW u,
         u = w \o Tail(s), \A f \in F : f.off \in Nat,
         Descends(s), Descends(w), \A i \in DOMAIN w : w[i].off <= Head(s).off
  PROVE  Descends(u)
<1>1. Pushed(F, s, w, u)
  BY PushFacts
<1> PICK n : n = Len(w)
  OBVIOUS
<1>2. n \in Nat /\ DOMAIN w = 1 .. n /\ DOMAIN s = 1 .. Len(s) /\ Len(s) \in Nat
      /\ DOMAIN u = 1 .. Len(u) /\ Len(u) \in Nat
  BY <1>1 DEF Pushed
<1>0. /\ s[1] = Head(s) /\ 1 \in DOMAIN s
      /\ \A i \in DOMAIN s : i \in Nat /\ i >= 1 /\ s[i] \in F /\ s[i].off \in Nat
      /\ \A i \in DOMAIN w : u[i] = w[i] /\ w[i] \in F /\ w[i].off \in Nat
  BY <1>1 DEF Pushed
<1> SUFFICES ASSUME NEW k \in DOMAIN u, u[k].kind = "exit", NEW m \in 1 .. k - 1
             PROVE  u[m].off < u[k].off
  BY DEF Descends
<1>3. k \in Nat /\ m \in DOMAIN u /\ m \in Nat /\ m < k
  BY <1>2
<1>4. CASE k \in 1 .. n
  <2>1. m \in 1 .. n
    BY <1>2, <1>3, <1>4
  <2>2. u[k] = w[k] /\ u[m] = w[m]
    BY <1>1, <1>2, <1>4, <2>1 DEF Pushed
  <2>3. m \in 1 .. k - 1 /\ k \in DOMAIN w
    BY <1>2, <1>4
  <2>4. w[m].off < w[k].off
    BY <2>2, <2>3 DEF Descends
  <2> QED
    BY <2>2, <2>4
<1>5. CASE k \notin 1 .. n
  <2>1. PICK i \in DOMAIN s : i # 1 /\ k = i - 1 + n /\ u[k] = s[i]
    BY <1>1, <1>2, <1>3, <1>5 DEF Pushed
  <2>2. i \in Nat /\ i > 1 /\ 1 \in 1 .. i - 1
    <3>1. i \in Nat /\ i >= 1 /\ i # 1
      BY <1>0, <2>1
    <3> QED
      BY ONLY <3>1
  <2>3. s[1].off < s[i].off
    BY <2>1, <2>2 DEF Descends
  <2>4. CASE m \in 1 .. n
    <3>1. u[m] = w[m] /\ w[m].off <= s[1].off
      BY <1>0, <1>2, <2>4
    <3>2. w[m].off \in Nat /\ s[1].off \in Nat /\ s[i].off \in Nat
      BY <1>0, <1>2, <2>1, <2>4
    <3>3. u[k].off = s[i].off /\ u[m].off = w[m].off /\ s[1].off < s[i].off
      BY <1>0, <2>1, <2>3, <3>1
    <3> QED
      BY ONLY <3>1, <3>2, <3>3
  <2>5. CASE m \notin 1 .. n
    <3>1. PICK l \in DOMAIN s : l # 1 /\ m = l - 1 + n /\ u[m] = s[l]
      BY <1>1, <1>2, <1>3, <2>5 DEF Pushed
    <3>2. l \in 1 .. i - 1
      BY <1>2, <1>3, <2>1, <2>2, <3>1
    <3>3. s[l].off < s[i].off
      BY <2>1, <3>2 DEF Descends
    <3> QED
      BY <2>1, <3>1, <3>3
  <2> QED
    BY <2>4, <2>5
<1> QED
  BY <1>4, <1>5

\* The frames of a node entered are at most two of its children, which come
\* before it, and its exit below them.
LEMMA WalkShape ==
  ASSUME NEW o \in DOMAIN oldTail, base \in Nat, BytesTypeOK, Snapshot, Reduced,
         Node(o) = OldNode(o), o \in Headers
  PROVE  /\ Walk(o) \in Seq(WalkFrames)
         /\ Descends(Walk(o))
         /\ \A i \in DOMAIN Walk(o) : Walk(o)[i].off <= o
         /\ \E i \in DOMAIN Walk(o) : Walk(o)[i].kind = "exit" /\ Walk(o)[i].off = o
         /\ \A i \in DOMAIN Walk(o) : Walk(o)[i].kind = "exit" => Walk(o)[i].off = o
<1> PICK hi : hi = Node(o).hi
  OBVIOUS
<1> PICK lo : lo = Node(o).lo
  OBVIOUS
<1> DEFINE C == {f \in WalkFrames : f.kind = "enter" /\ f.off < o}
<1> PICK X : X = [kind |-> "exit", off |-> o]
  OBVIOUS
<1>0. o \in Nat /\ \A q \in DOMAIN oldTail : q \in Nat
  BY DEF Snapshot
<1>1. X \in WalkFrames /\ X.kind = "exit" /\ X.off = o
  BY DEF WalkFrames
<1>2. ASSUME NEW c \in {hi, lo} PROVE EnterChild(c) \in Seq(C)
  <2>1. CASE EnterChild(c) = <<>>
    BY <2>1
  <2>2. CASE EnterChild(c) # <<>>
    <3>1. IsYoung(c) /\ EnterChild(c) = <<[kind |-> "enter", off |-> c]>>
      BY <2>2 DEF EnterChild
    <3>2. c \in OldRefs /\ c < o
      BY DEF Snapshot, OldNodeSound, Reduced
    <3>3. c \in DOMAIN oldTail
      BY <3>1, <3>2, YoungIsTail
    <3>4. [kind |-> "enter", off |-> c] \in C
      BY <3>2, <3>3 DEF WalkFrames
    <3> QED
      BY <3>1, <3>4
  <2> QED
    BY <2>1, <2>2
<1> PICK a, b : a = EnterChild(hi) /\ b = EnterChild(lo)
  OBVIOUS
<1> PICK m, n : m = Len(a) /\ n = Len(b)
  OBVIOUS
<1>3. /\ a \in Seq(C) /\ b \in Seq(C) /\ m = Len(a) /\ n = Len(b)
      /\ m \in Nat /\ n \in Nat
      /\ DOMAIN a = 1 .. m /\ DOMAIN b = 1 .. n
  BY <1>2
<1> PICK w : w = Walk(o)
  OBVIOUS
<1>4. w = a \o b \o <<X>>
  BY DEF Walk
<1>5. a \in Seq(WalkFrames) /\ b \in Seq(WalkFrames)
  BY <1>3
<1>6. /\ w \in Seq(WalkFrames) /\ DOMAIN w = 1 .. m + n + 1
      /\ \A i \in 1 .. m : w[i] = a[i]
      /\ \A i \in 1 .. n : w[m + i] = b[i]
      /\ w[m + n + 1] = X
  <2> PICK F : F = WalkFrames
    OBVIOUS
  <2>1. X \in F /\ a \in Seq(F) /\ b \in Seq(F) /\ m = Len(a) /\ n = Len(b)
    BY <1>1, <1>3, <1>5
  <2>2. /\ w \in Seq(F) /\ DOMAIN w = 1 .. m + n + 1
        /\ \A i \in 1 .. m : w[i] = a[i]
        /\ \A i \in 1 .. n : w[m + i] = b[i]
        /\ w[m + n + 1] = X
    BY ONLY <1>4, <2>1, Joined
  <2> QED
    BY <2>2
<1>7. ASSUME NEW i \in 1 .. m + n + 1, i # m + n + 1
      PROVE  w[i].kind = "enter" /\ w[i].off < o
  <2>1. CASE i \in 1 .. m
    BY <1>3, <1>6, <2>1
  <2>2. CASE i \notin 1 .. m
    <3> PICK j : j = i - m
      OBVIOUS
    <3>1. j \in 1 .. n /\ i = m + j
      BY <1>3, <1>7, <2>2
    <3>2. w[i] = b[j] /\ b[j] \in C
      <4>1. w[m + j] = b[j]
        BY <1>6, <3>1
      <4> QED
        BY <1>3, <3>1, <4>1
    <3> QED
      BY <3>2
  <2> QED
    BY <2>1, <2>2
<1>8. m + n + 1 \in 1 .. m + n + 1
  BY <1>3
<1>9. Descends(w)
  <2> SUFFICES ASSUME NEW j \in DOMAIN w, w[j].kind = "exit", NEW k \in 1 .. j - 1
               PROVE  w[k].off < w[j].off
    BY DEF Descends
  <2>1. j = m + n + 1
    BY <1>6, <1>7
  <2>2. k \in 1 .. m + n + 1 /\ k # m + n + 1
    BY <1>3, <2>1
  <2> QED
    BY <1>1, <1>6, <1>7, <2>1, <2>2
<1>10. \A i \in DOMAIN w : w[i].off <= o
  <2> SUFFICES ASSUME NEW i \in 1 .. m + n + 1 PROVE w[i].off <= o
    BY <1>6
  <2>1. w[i] \in WalkFrames
    BY <1>6
  <2>2. w[i].off \in Nat
    BY <1>0, <2>1 DEF WalkFrames
  <2>3. CASE i = m + n + 1
    BY <1>0, <1>1, <1>6, <2>3
  <2>4. CASE i # m + n + 1
    BY <1>0, <1>7, <2>2, <2>4
  <2> QED
    BY <2>3, <2>4
<1>11. \A i \in DOMAIN w : w[i].kind = "exit" => w[i].off = o
  BY <1>1, <1>6, <1>7
<1> QED
  BY <1>1, <1>6, <1>8, <1>9, <1>10, <1>11

\* What a step of the walk has of its stack.
LEMMA WalkStack ==
  ASSUME phase = "mark", GcInv
  PROVE  /\ DuringInv /\ MarkInv
         /\ gcStack \in Seq(WalkFrames) /\ Len(gcStack) \in Nat
         /\ \A f \in WalkFrames : f.off \in Nat /\ f.off \in DOMAIN oldTail
         /\ IsFiniteSet(DOMAIN oldTail)
         /\ Live = DOMAIN remap
<1>1. DuringInv /\ MarkInv
  BY DEF GcInv
<1>2. gcStack \in Seq(WalkFrames) /\ Len(gcStack) \in Nat
  BY <1>1 DEF DuringInv, WalkSound
<1>3. \A f \in WalkFrames : f.off \in Nat /\ f.off \in DOMAIN oldTail
  BY <1>1 DEF DuringInv, Snapshot, WalkFrames
<1>4. IsFiniteSet(DOMAIN oldTail)
  <2>1. DOMAIN oldTail \subseteq 0 .. bufLen - 1
    BY <1>1 DEF MarkInv, YoungNodes, ArenaInv, ArenaTypeOK, BytesTypeOK
  <2>2. bufLen \in Int
    BY <1>1, CodecAssumption DEF MarkInv, ArenaInv, ArenaTypeOK, BytesTypeOK
  <2>3. IsFiniteSet(0 .. bufLen - 1)
    BY <2>2, FS_Interval
  <2> QED
    BY <2>1, <2>3, FS_Subset
<1>5. Live = DOMAIN remap
  BY <1>1 DEF MarkInv, Live
<1> QED
  BY <1>1, <1>2, <1>3, <1>4, <1>5

\* The frames a node entered adds.
LEMMA EnterShape ==
  ASSUME phase = "mark", GcInv, GcEnter, Head(gcStack).off \notin Visited
  PROVE  /\ Walk(Head(gcStack).off) \in Seq(WalkFrames)
         /\ Descends(Walk(Head(gcStack).off))
         /\ \A i \in DOMAIN Walk(Head(gcStack).off) :
              Walk(Head(gcStack).off)[i].off <= Head(gcStack).off
         /\ \E i \in DOMAIN Walk(Head(gcStack).off) :
              /\ Walk(Head(gcStack).off)[i].kind = "exit"
              /\ Walk(Head(gcStack).off)[i].off = Head(gcStack).off
         /\ \A i \in DOMAIN Walk(Head(gcStack).off) :
              Walk(Head(gcStack).off)[i].kind = "exit"
                => Walk(Head(gcStack).off)[i].off = Head(gcStack).off
<1> PICK o : o = Head(gcStack).off
  OBVIOUS
<1>1. DuringInv /\ MarkInv /\ gcStack \in Seq(WalkFrames) /\ gcStack # <<>>
  BY WalkStack DEF GcEnter
<1>2. Head(gcStack) \in WalkFrames
  BY <1>1
<1>3. o \in DOMAIN oldTail
  BY <1>2 DEF WalkFrames
<1>4. base \in Nat /\ BytesTypeOK /\ Snapshot /\ Reduced
  BY <1>1 DEF DuringInv, MarkInv, ArenaInv, ArenaTypeOK
<1>5. Node(o) = OldNode(o) /\ o \in Headers
  BY <1>1, <1>3 DEF MarkInv, Node, OldNode, Decode, YoungNodes
<1> QED
  BY <1>3, <1>4, <1>5, WalkShape

\* The walk's stack stays in order.
LEMMA DescendingNext ==
  ASSUME GcInv, Descending, [GcNext]_allVars
  PROVE  Descending'
<1> SUFFICES ASSUME phase' = "mark" PROVE Descends(gcStack')
  BY DEF Descending, Descends
<1>1. Descends(<<>>)
  BY DEF Descends
<1>2. CASE phase = "off" /\ Next /\ UNCHANGED gcVars
  BY <1>2 DEF gcVars
<1>3. CASE GcCall
  <2>1. phase = "off" /\ gcStack' = gcStack
    BY <1>3, CallInArena DEF GcBegin, gcVars
  <2>2. gcStack = <<>>
    BY <2>1 DEF GcInv, BetweenInv
  <2> QED
    BY <1>1, <2>1, <2>2
<1>4. CASE GcRoot
  <2> PICK r : r = held[keep[nextRoot]]
    OBVIOUS
  <2>1. gcStack' = <<[kind |-> "enter", off |-> r]>> \/ gcStack' = <<>>
    BY <1>4 DEF GcRoot
  <2>2. Descends(<<[kind |-> "enter", off |-> r]>>)
    BY DEF Descends
  <2> QED
    BY <1>1, <2>1, <2>2
<1>5. CASE GcEnter \/ GcExit
  <2>1. phase = "mark" /\ gcStack # <<>> /\ Descends(gcStack)
    BY <1>5 DEF GcEnter, GcExit, Marking, Descending
  <2>2. gcStack \in Seq(WalkFrames) /\ \A f \in WalkFrames : f.off \in Nat
    BY <2>1, WalkStack
  <2>3. ASSUME NEW w \in Seq(WalkFrames), gcStack' = w \o Tail(gcStack), Descends(w),
               \A i \in DOMAIN w : w[i].off <= Head(gcStack).off
        PROVE  Descends(gcStack')
    <3> PICK F, s, u : F = WalkFrames /\ s = gcStack /\ u = gcStack'
      OBVIOUS
    <3>1. /\ s \in Seq(F) /\ s # <<>> /\ w \in Seq(F) /\ u = w \o Tail(s)
          /\ Descends(s) /\ Descends(w) /\ \A f \in F : f.off \in Nat
          /\ \A i \in DOMAIN w : w[i].off <= Head(s).off
      BY <2>1, <2>2, <2>3
    <3>2. Descends(u)
      BY ONLY <3>1, DescendsPush
    <3> QED
      BY <3>2
  <2>4. CASE gcStack' = Tail(gcStack)
    <3> PICK w : w = <<>>
      OBVIOUS
    <3>1. gcStack' = w \o Tail(gcStack) /\ w \in Seq(WalkFrames) /\ DOMAIN w = {}
      BY <2>1, <2>2, <2>4
    <3>2. Descends(w) /\ \A i \in DOMAIN w : w[i].off <= Head(gcStack).off
      BY <1>1, <3>1
    <3> QED
      BY <2>3, <3>1, <3>2
  <2>5. CASE GcEnter /\ Head(gcStack).off \notin Visited
    <3>1. gcStack' = Walk(Head(gcStack).off) \o Tail(gcStack)
      BY <2>5 DEF GcEnter
    <3> PICK w : w = Walk(Head(gcStack).off)
      OBVIOUS
    <3>2. /\ w \in Seq(WalkFrames) /\ Descends(w)
          /\ \A i \in DOMAIN w : w[i].off <= Head(gcStack).off
      BY <2>1, <2>5, EnterShape
    <3> QED
      BY <2>3, <3>1, <3>2
  <2>6. \/ gcStack' = Tail(gcStack)
        \/ GcEnter /\ Head(gcStack).off \notin Visited
    BY <1>5 DEF GcEnter, GcExit
  <2> QED
    BY <2>4, <2>5, <2>6
<1>6. CASE GcTruncate \/ GcCopy \/ GcFinish
  <2>1. GcTruncate => phase' = "copy"
    BY DEF GcTruncate
  <2>2. GcCopy => phase = "copy" /\ phase' = phase
    BY DEF GcCopy, GcPanic, gcVars
  <2>3. GcFinish => phase = "copy" /\ (phase' = phase \/ phase' = "off")
    BY DEF GcFinish, GcPanic, gcVars
  <2> QED
    BY <1>6, <2>1, <2>2, <2>3
<1>7. CASE UNCHANGED allVars
  <2>1. gcStack' = gcStack /\ phase' = phase
    BY <1>7 DEF allVars, gcVars
  <2> QED
    BY <2>1 DEF Descending
<1> QED
  BY <1>2, <1>3, <1>4, <1>5, <1>6, <1>7 DEF GcNext, GcStep

\* A node the walk has entered and not yet left is not marked.
ExitsUnmarked ==
  phase = "mark" =>
    \A i \in DOMAIN gcStack :
      gcStack[i].kind = "exit" => gcStack[i].off \notin DOMAIN remap

LEMMA ExitsUnmarkedNext ==
  ASSUME GcInv, Descending, ExitsUnmarked, [GcNext]_allVars
  PROVE  ExitsUnmarked'
<1> SUFFICES ASSUME phase' = "mark", NEW k \in DOMAIN gcStack',
                    gcStack'[k].kind = "exit"
             PROVE  gcStack'[k].off \notin DOMAIN remap'
  BY DEF ExitsUnmarked
<1>1. CASE phase = "off" /\ Next /\ UNCHANGED gcVars
  BY <1>1 DEF gcVars
<1>2. CASE GcCall
  <2>1. phase = "off" /\ gcStack' = gcStack
    BY <1>2, CallInArena DEF GcBegin, gcVars
  <2>2. gcStack' = <<>>
    BY <2>1 DEF GcInv, BetweenInv
  <2> QED
    BY <2>2
<1>3. CASE GcRoot
  <2> PICK r : r = held[keep[nextRoot]]
    OBVIOUS
  <2>1. gcStack' = <<[kind |-> "enter", off |-> r]>> \/ gcStack' = <<>>
    BY <1>3 DEF GcRoot
  <2> QED
    BY <2>1
<1>4. CASE GcEnter \/ GcExit
  <2> PICK s : s = gcStack
    OBVIOUS
  <2> PICK u : u = gcStack'
    OBVIOUS
  <2> PICK o : o = Head(gcStack).off
    OBVIOUS
  <2>1. phase = "mark" /\ s # <<>> /\ Descends(s)
    BY <1>4 DEF GcEnter, GcExit, Marking, Descending
  <2>2. s \in Seq(WalkFrames) /\ \A f \in WalkFrames : f.off \in Nat
    BY <2>1, WalkStack
  <2>3. PICK w \in Seq(WalkFrames) :
          /\ u = w \o Tail(s)
          /\ \A i \in DOMAIN w : w[i].kind = "exit" =>
               w[i].off = o /\ o \notin DOMAIN remap /\ UNCHANGED remap
    <3>1. CASE GcEnter /\ o \notin Visited
      <4>1. u = Walk(o) \o Tail(s) /\ remap' = remap
        BY <3>1 DEF GcEnter
      <4>2. /\ Walk(o) \in Seq(WalkFrames)
            /\ \A i \in DOMAIN Walk(o) : Walk(o)[i].kind = "exit" => Walk(o)[i].off = o
        BY <2>1, <3>1, EnterShape
      <4> QED
        BY <3>1, <4>1, <4>2 DEF Visited
    <3>2. CASE ~ (GcEnter /\ o \notin Visited)
      <4>1. u = Tail(s)
        BY <1>4, <3>2 DEF GcEnter, GcExit
      <4> PICK w : w = <<>>
        OBVIOUS
      <4>2. u = w \o Tail(s) /\ w \in Seq(WalkFrames) /\ DOMAIN w = {}
        BY <2>1, <2>2, <4>1
      <4> QED
        BY <4>2
    <3> QED
      BY <3>1, <3>2
  <2>4. Pushed(WalkFrames, s, w, u)
    <3> PICK F : F = WalkFrames
      OBVIOUS
    <3>1. s \in Seq(F) /\ s # <<>> /\ w \in Seq(F) /\ u = w \o Tail(s)
      BY <2>1, <2>2, <2>3
    <3>2. Pushed(F, s, w, u)
      BY ONLY <3>1, PushFacts
    <3> QED
      BY <3>2
  <2>5. CASE k \in DOMAIN w /\ u[k] = w[k]
    BY <2>3, <2>5
  <2>6. CASE \E i \in DOMAIN s : i # 1 /\ u[k] = s[i]
    <3>1. PICK i \in DOMAIN s : i # 1 /\ u[k] = s[i]
      BY <2>6
    <3>2. s[i].kind = "exit" /\ s[i].off \notin DOMAIN remap
      BY <2>1, <3>1 DEF ExitsUnmarked
    <3>3. s[1].off < s[i].off /\ s[1].off = o /\ s[i].off \in Nat /\ o \in Nat
      <4>1. i \in Nat /\ i >= 1 /\ 1 \in DOMAIN s /\ s[1] = Head(s)
        BY <2>4 DEF Pushed
      <4>2. 1 \in 1 .. i - 1
        BY <3>1, <4>1
      <4>3. s[1].off < s[i].off
        BY <2>1, <3>2, <4>2 DEF Descends
      <4>4. s[1] \in WalkFrames /\ s[i] \in WalkFrames
        BY <2>2, <4>1
      <4> QED
        BY <2>2, <4>1, <4>3, <4>4
    <3>4. DOMAIN remap' \subseteq DOMAIN remap \cup {o}
      BY <1>4 DEF GcEnter, GcExit, Extend
    <3>5. s[i].off # o
      BY <3>3
    <3> QED
      BY <3>1, <3>2, <3>4, <3>5
  <2> QED
    BY <2>4, <2>5, <2>6 DEF Pushed
<1>5. CASE GcTruncate \/ GcCopy \/ GcFinish
  <2>1. GcTruncate => phase' = "copy"
    BY DEF GcTruncate
  <2>2. GcCopy => phase = "copy" /\ phase' = phase
    BY DEF GcCopy, GcPanic, gcVars
  <2>3. GcFinish => phase = "copy" /\ (phase' = phase \/ phase' = "off")
    BY DEF GcFinish, GcPanic, gcVars
  <2> QED
    BY <1>5, <2>1, <2>2, <2>3
<1>6. CASE UNCHANGED allVars
  BY <1>6 DEF allVars, gcVars, ExitsUnmarked
<1> QED
  BY <1>1, <1>2, <1>3, <1>4, <1>5, <1>6 DEF GcNext, GcStep

\* The walk enters a node once, whatever its parents: while its exit is on the
\* stack it is unmarked, all above it precedes it in the arena, and once it is
\* left the mark turns away the frames its other parents pushed.
THEOREM NodesEnteredOnce ==
  ASSUME VarsFit
  PROVE  GcSpec => []WalkEntersOnce
<1> DEFINE Inv == GcInv /\ Descending /\ ExitsUnmarked
<1>1. GcInit => Inv
  <2>1. GcInit => GcInv /\ phase = "off"
    BY InitGcInv DEF GcInit
  <2> QED
    BY <2>1 DEF Descending, ExitsUnmarked
<1>2. Inv /\ [GcNext]_allVars => Inv'
  BY NextGcInv, DescendingNext, ExitsUnmarkedNext
<1>3. Inv => WalkEntersOnce
  <2> SUFFICES ASSUME Inv, phase = "mark", NEW i \in DOMAIN gcStack,
                      gcStack[i].kind = "exit"
               PROVE  /\ gcStack[i].off \notin Range(postOrder)
                      /\ \A j \in DOMAIN gcStack : gcStack[j] = gcStack[i] => j = i
    BY DEF WalkEntersOnce
  <2>1. gcStack[i].off \notin Range(postOrder)
    BY WalkStack DEF ExitsUnmarked, MarkInv
  <2>2. ASSUME NEW j \in DOMAIN gcStack, gcStack[j] = gcStack[i] PROVE j = i
    <3>1. /\ Descends(gcStack) /\ i \in Nat /\ j \in Nat /\ i >= 1 /\ j >= 1
          /\ gcStack[i].off \in Nat
      <4>1. gcStack \in Seq(WalkFrames) /\ \A f \in WalkFrames : f.off \in Nat
        BY WalkStack
      <4> QED
        BY <4>1 DEF Descending
    <3>2. ~ (j \in 1 .. i - 1) /\ ~ (i \in 1 .. j - 1)
      BY <2>2, <3>1 DEF Descends
    <3> QED
      BY <3>1, <3>2
  <2> QED
    BY <2>1, <2>2
<1> HIDE DEF Inv
<1> QED
  BY <1>1, <1>2, <1>3, PTL DEF GcSpec

\* What is left of a collection: its phases to come, its roots to come, the
\* tail's nodes not entered, and the frames of the walk or the nodes to copy.
GcStage == CASE phase = "off" -> 0 [] phase = "copy" -> 1 [] OTHER -> 2
RootsLeft == IF phase = "mark" THEN Len(keep) + 1 - nextRoot ELSE 0
Unentered == IF phase = "mark" THEN Cardinality(DOMAIN oldTail \ Entered) ELSE 0
FramesLeft == IF phase = "mark" THEN Len(gcStack) ELSE Len(postOrder)
GcRank == <<GcStage, RootsLeft, Unentered, FramesLeft>>

\* The roots the walk has come to are not more than it was passed.
RootsBound == phase = "mark" => nextRoot <= Len(keep) + 1

LEMMA RootsBoundNext ==
  ASSUME GcInv, RootsBound, [GcNext]_allVars
  PROVE  RootsBound'
<1> SUFFICES ASSUME phase' = "mark" PROVE nextRoot' <= Len(keep') + 1
  BY DEF RootsBound
<1>1. CASE phase = "off" /\ Next /\ UNCHANGED gcVars
  BY <1>1 DEF gcVars
<1>2. CASE GcCall
  <2>1. PICK b \in Nat, roots \in Seq(Handles) : GcBegin(b, roots)
    BY <1>2, CallInArena DEF gcVars
  <2>2. nextRoot' = 1 /\ keep' = roots
    BY <2>1 DEF GcBegin
  <2>3. Len(roots) \in Nat
    OBVIOUS
  <2> QED
    BY <2>2, <2>3
<1>3. CASE GcRoot
  <2>1. phase = "mark" /\ nextRoot <= Len(keep) /\ nextRoot' = nextRoot + 1 /\ keep' = keep
    BY <1>3 DEF GcRoot, Marking
  <2>2. nextRoot \in Nat /\ Len(keep) \in Nat
    BY <2>1, WalkStack DEF DuringInv
  <2> QED
    BY <2>1, <2>2
<1>4. CASE GcEnter \/ GcExit
  BY <1>4 DEF GcEnter, GcExit, Marking, RootsBound
<1>5. CASE GcTruncate \/ GcCopy \/ GcFinish
  <2>1. GcTruncate => phase' = "copy"
    BY DEF GcTruncate
  <2>2. GcCopy => phase = "copy" /\ phase' = phase
    BY DEF GcCopy, GcPanic, gcVars
  <2>3. GcFinish => phase = "copy" /\ (phase' = phase \/ phase' = "off")
    BY DEF GcFinish, GcPanic, gcVars
  <2> QED
    BY <1>5, <2>1, <2>2, <2>3
<1>6. CASE UNCHANGED allVars
  BY <1>6 DEF allVars, gcVars, RootsBound
<1> QED
  BY <1>1, <1>2, <1>3, <1>4, <1>5, <1>6 DEF GcNext, GcStep
\* All four are numbers.
LEMMA GcRankType ==
  ASSUME GcInv, RootsBound
  PROVE  GcStage \in Nat /\ RootsLeft \in Nat /\ Unentered \in Nat /\ FramesLeft \in Nat
<1>1. phase = "off" => postOrder = <<>>
  BY DEF GcInv, BetweenInv
<1>2. phase = "copy" => postOrder \in Seq(DOMAIN oldTail)
  BY DEF GcInv, DuringInv, WalkSound
<1>3. phase \in {"off", "mark", "copy"}
  BY DEF GcInv
<1>4. CASE phase = "mark"
  <2>1. Len(gcStack) \in Nat /\ IsFiniteSet(DOMAIN oldTail)
    BY <1>4, WalkStack
  <2>2. Cardinality(DOMAIN oldTail \ Entered) \in Nat
    <3>1. DOMAIN oldTail \ Entered \subseteq DOMAIN oldTail
      OBVIOUS
    <3>2. IsFiniteSet(DOMAIN oldTail \ Entered)
      BY <2>1, <3>1, FS_Subset
    <3> QED
      BY <3>2, FS_CardinalityType
  <2>3. Len(keep) + 1 - nextRoot \in Nat
    <3>1. nextRoot \in Nat /\ keep \in Seq(Handles)
      BY <1>4, WalkStack DEF DuringInv
    <3>2. Len(keep) \in Nat
      BY <3>1
    <3>3. nextRoot <= Len(keep) + 1
      BY <1>4 DEF RootsBound
    <3> QED
      BY <3>1, <3>2, <3>3
  <2> QED
    BY <1>4, <2>1, <2>2, <2>3 DEF GcStage, RootsLeft, Unentered, FramesLeft
<1>5. CASE phase # "mark"
  <2>1. Len(postOrder) \in Nat
    <3>1. CASE phase = "off"
      BY <1>1, <3>1
    <3>2. CASE phase = "copy"
      BY <1>2, <3>2
    <3> QED
      BY <1>3, <1>5, <3>1, <3>2
  <2> QED
    BY <1>5, <2>1 DEF GcStage, RootsLeft, Unentered, FramesLeft
<1> QED
  BY <1>4, <1>5

LEMMA GcRankTypeNext ==
  ASSUME GcInv', RootsBound'
  PROVE  /\ GcStage' \in Nat /\ RootsLeft' \in Nat
         /\ Unentered' \in Nat /\ FramesLeft' \in Nat
<1>1. (GcInv /\ RootsBound =>
         GcStage \in Nat /\ RootsLeft \in Nat /\ Unentered \in Nat /\ FramesLeft \in Nat)'
  BY GcRankType, PTL
<1> QED
  BY <1>1

\* What the walk has entered stays entered, and a node it enters was not.
LEMMA EnteredGrows ==
  ASSUME GcInv, Descending, phase = "mark", GcEnter \/ GcExit
  PROVE  /\ Entered \subseteq Entered'
         /\ GcEnter /\ Head(gcStack).off \notin Visited =>
              Head(gcStack).off \in Entered' \ Entered
<1> PICK s : s = gcStack
  OBVIOUS
<1> PICK u : u = gcStack'
  OBVIOUS
<1> PICK o : o = Head(gcStack).off
  OBVIOUS
<1>0. /\ s \in Seq(WalkFrames) /\ s # <<>> /\ Live = DOMAIN remap
      /\ \A f \in WalkFrames : f.off \in Nat /\ f.off \in DOMAIN oldTail
  BY WalkStack DEF GcEnter, GcExit
<1>1. PICK w \in Seq(WalkFrames) :
        /\ u = w \o Tail(s)
        /\ GcEnter /\ o \notin Visited =>
             \E i \in DOMAIN w : w[i].kind = "exit" /\ w[i].off = o
  <2>1. CASE GcEnter /\ o \notin Visited
    <3>1. u = Walk(o) \o Tail(s)
      BY <2>1 DEF GcEnter
    <3>2. /\ Walk(o) \in Seq(WalkFrames)
          /\ \E i \in DOMAIN Walk(o) : Walk(o)[i].kind = "exit" /\ Walk(o)[i].off = o
      BY <2>1, EnterShape
    <3> QED
      BY <3>1, <3>2
  <2>2. CASE ~ (GcEnter /\ o \notin Visited)
    <3>1. u = Tail(s)
      BY <2>2 DEF GcEnter, GcExit
    <3> PICK w : w = <<>>
      OBVIOUS
    <3>2. w \in Seq(WalkFrames) /\ u = w \o Tail(s)
      BY <1>0, <3>1
    <3> QED
      BY <2>2, <3>2
  <2> QED
    BY <2>1, <2>2
<1>2. Pushed(WalkFrames, s, w, u)
  <2> PICK F : F = WalkFrames
    OBVIOUS
  <2>1. s \in Seq(F) /\ s # <<>> /\ w \in Seq(F) /\ u = w \o Tail(s)
    BY <1>0, <1>1
  <2>2. Pushed(F, s, w, u)
    BY ONLY <2>1, PushFacts
  <2> QED
    BY <2>2
<1>3. Live \subseteq Live'
  <2>1. CASE GcEnter
    BY <2>1 DEF GcEnter, Live
  <2>2. CASE GcExit /\ o \in Visited
    BY <2>2 DEF GcExit, Live
  <2>3. CASE GcExit /\ o \notin Visited
    <3>1. remap' = Extend(remap, o, FalseRef)
      BY <2>3 DEF GcExit
    <3>2. DOMAIN remap \subseteq DOMAIN remap'
      BY <3>1 DEF Extend
    <3> QED
      BY <1>0, <3>2 DEF Live
  <2> QED
    BY <2>1, <2>2, <2>3
<1>4. GcExit => o \in Live'
  <2>1. CASE GcExit /\ o \in Visited
    BY <2>1, <1>3 DEF Visited, Live
  <2>2. CASE GcExit /\ o \notin Visited
    <3>1. remap' = Extend(remap, o, FalseRef)
      BY <2>2 DEF GcExit
    <3>2. o \in DOMAIN remap'
      BY <3>1 DEF Extend
    <3> QED
      BY <3>2 DEF Live
  <2> QED
    BY <2>1, <2>2
<1>5. \A q : q \in Entered' <=>
         q \in Live' \/ \E k \in DOMAIN u : u[k].kind = "exit" /\ u[k].off = q
  BY DEF Entered
<1>6. \A q : q \in Entered <=>
         q \in Live \/ \E k \in DOMAIN s : s[k].kind = "exit" /\ s[k].off = q
  BY DEF Entered
<1>7. s[1] = Head(s) /\ s[1].off = o
  BY <1>2 DEF Pushed
<1>8. ASSUME NEW q \in Entered PROVE q \in Entered'
  <2>1. CASE q \in Live
    BY <1>3, <1>5, <2>1
  <2>2. CASE q \notin Live
    <3>1. PICK k \in DOMAIN s : s[k].kind = "exit" /\ s[k].off = q
      BY <1>6, <2>2
    <3>2. CASE k = 1
      <4>1. GcExit
        BY <1>7, <3>1, <3>2 DEF GcEnter
      <4> QED
        BY <1>4, <1>5, <1>7, <3>1, <3>2, <4>1
    <3>3. CASE k # 1
      <4>1. PICK m : m \in DOMAIN u /\ u[m] = s[k]
        BY <1>2, <3>3 DEF Pushed
      <4> QED
        BY <1>5, <3>1, <4>1
    <3> QED
      BY <3>2, <3>3
  <2> QED
    BY <2>1, <2>2
<1>9. ASSUME GcEnter, o \notin Visited PROVE o \in Entered' \ Entered
  <2>1. o \in Entered'
    <3>1. PICK i \in DOMAIN w : w[i].kind = "exit" /\ w[i].off = o
      BY <1>1, <1>9
    <3>2. i \in DOMAIN u /\ u[i] = w[i]
      BY <1>2 DEF Pushed
    <3> QED
      BY <1>5, <3>1, <3>2
  <2>2. o \notin Live
    BY <1>0, <1>9 DEF Visited
  <2>3. ASSUME NEW k \in DOMAIN s, s[k].kind = "exit", s[k].off = o PROVE FALSE
    <3>1. k # 1
      BY <1>7, <1>9, <2>3 DEF GcEnter
    <3>2. k \in Nat /\ k >= 1
      BY <1>2 DEF Pushed
    <3>3. 1 \in 1 .. k - 1
      BY <3>1, <3>2
    <3>4. s[1].off < s[k].off
      BY <2>3, <3>3 DEF Descending, Descends
    <3>5. Head(s) \in WalkFrames
      BY <1>2 DEF Pushed
    <3>6. o \in Nat
      BY <1>0, <1>7, <3>5
    <3> QED
      BY <1>7, <2>3, <3>4, <3>6
  <2> QED
    BY <1>6, <2>1, <2>2, <2>3
<1> QED
  BY <1>8, <1>9

\* A set whose complement loses an element is the larger for it.
LEMMA FewerLeft ==
  ASSUME NEW D, IsFiniteSet(D), NEW A, NEW B, A \subseteq B
  PROVE  /\ Cardinality(D \ B) \in Nat /\ Cardinality(D \ A) \in Nat
         /\ Cardinality(D \ B) <= Cardinality(D \ A)
         /\ \A x \in D : x \in B \ A => Cardinality(D \ B) < Cardinality(D \ A)
<1> PICK P, Q : P = D \ A /\ Q = D \ B
  OBVIOUS
<1>1. IsFiniteSet(P) /\ Q \subseteq P
  <2>1. P \subseteq D
    OBVIOUS
  <2> QED
    BY <2>1, FS_Subset
<1>2. /\ Cardinality(Q) \in Nat /\ Cardinality(P) \in Nat
      /\ Cardinality(Q) <= Cardinality(P)
      /\ \A x \in P : x \notin Q => Cardinality(Q) < Cardinality(P)
  BY ONLY <1>1, FewerMembers
<1> QED
  BY <1>2

LEMMA GcRootFalls ==
  ASSUME GcInv, GcRoot
  PROVE  GcStage' = GcStage /\ RootsLeft' < RootsLeft
<1>1. phase = "mark" /\ phase' = phase /\ keep' = keep /\ nextRoot' = nextRoot + 1
  BY DEF GcRoot, Marking
<1>2. nextRoot \in Nat /\ keep \in Seq(Handles)
  BY <1>1, WalkStack DEF DuringInv
<1>3. Len(keep) \in Nat
  BY <1>2
<1> QED
  BY <1>1, <1>2, <1>3 DEF GcStage, RootsLeft

LEMMA GcWalkFalls ==
  ASSUME GcInv, Descending, GcEnter \/ GcExit
  PROVE  /\ GcStage' = GcStage /\ RootsLeft' = RootsLeft
         /\ \/ Unentered' < Unentered
            \/ Unentered' = Unentered /\ FramesLeft' < FramesLeft
<1>1. /\ phase = "mark" /\ phase' = phase /\ keep' = keep /\ nextRoot' = nextRoot
      /\ oldTail' = oldTail /\ gcStack # <<>>
  BY DEF GcEnter, GcExit, Marking
<1>2. GcStage' = GcStage /\ RootsLeft' = RootsLeft
  BY <1>1 DEF GcStage, RootsLeft
<1> PICK D : D = DOMAIN oldTail
  OBVIOUS
<1> PICK A, B : A = Entered /\ B = Entered'
  OBVIOUS
<1>3. A \subseteq B /\ IsFiniteSet(D)
  BY <1>1, WalkStack, EnteredGrows
<1>4. Unentered = Cardinality(D \ A) /\ Unentered' = Cardinality(D \ B)
  BY <1>1 DEF Unentered
<1>5. /\ Cardinality(D \ B) \in Nat /\ Cardinality(D \ A) \in Nat
      /\ Cardinality(D \ B) <= Cardinality(D \ A)
      /\ \A x \in D : x \in B \ A => Cardinality(D \ B) < Cardinality(D \ A)
  BY <1>3, FewerLeft
<1>6. CASE GcEnter /\ Head(gcStack).off \notin Visited
  <2>1. Head(gcStack).off \in D
    <3>1. gcStack \in Seq(WalkFrames) /\ \A f \in WalkFrames : f.off \in D
      BY <1>1, WalkStack
    <3>2. Head(gcStack) \in WalkFrames
      BY <1>1, <3>1
    <3> QED
      BY <3>1, <3>2
  <2>2. Head(gcStack).off \in B \ A
    BY <1>1, <1>6, EnteredGrows
  <2> QED
    BY <1>2, <1>4, <1>5, <2>1, <2>2
<1>7. CASE ~ (GcEnter /\ Head(gcStack).off \notin Visited)
  <2>1. gcStack' = Tail(gcStack)
    BY <1>7 DEF GcEnter, GcExit
  <2>2. gcStack \in Seq(WalkFrames)
    BY <1>1, WalkStack
  <2>3. Len(gcStack') < Len(gcStack)
    BY <1>1, <2>1, <2>2
  <2>4. FramesLeft' < FramesLeft
    BY <1>1, <2>3 DEF FramesLeft
  <2>5. Unentered' < Unentered \/ Unentered' = Unentered
    BY <1>4, <1>5
  <2> QED
    BY <1>2, <2>4, <2>5
<1> QED
  BY <1>6, <1>7

LEMMA GcTruncateFalls ==
  ASSUME GcTruncate
  PROVE  GcStage' < GcStage
BY DEF GcTruncate, GcStage

LEMMA GcCopyFalls ==
  ASSUME GcInv, GcInv', GcCopy
  PROVE  /\ GcStage' = GcStage /\ RootsLeft' = RootsLeft /\ Unentered' = Unentered
         /\ FramesLeft' < FramesLeft
<1>1. phase = "copy" /\ postOrder # <<>>
  BY DEF GcCopy
<1>2. pc' # "panic"
  BY DEF GcInv, BetweenInv, DuringInv, IteInv, NoPanic
<1>3. postOrder' = Tail(postOrder) /\ phase' = phase
  BY <1>2 DEF GcCopy, GcPanic
<1>4. postOrder \in Seq(DOMAIN oldTail)
  BY <1>1 DEF GcInv, DuringInv, WalkSound
<1>5. Len(postOrder') < Len(postOrder)
  BY <1>1, <1>3, <1>4
<1> QED
  BY <1>1, <1>3, <1>5 DEF GcStage, RootsLeft, Unentered, FramesLeft

LEMMA GcFinishFalls ==
  ASSUME GcInv', GcFinish
  PROVE  GcStage' < GcStage
<1>1. pc' # "panic"
  BY DEF GcInv, BetweenInv, DuringInv, IteInv, NoPanic
<1>2. phase = "copy" /\ phase' = "off"
  BY <1>1 DEF GcFinish, GcPanic
<1> QED
  BY <1>2 DEF GcStage

\* Each root, each node entered or left by the walk, the truncation, each node
\* copied and the rebuilding leaves less of the collection to do, in an order
\* with no endless descent: gc is a finite number of turns (manager.rs:610-722).
\* A node is entered once, for what lies above its exit precedes it in the arena.
THEOREM GcRunsOut ==
  ASSUME VarsFit
  PROVE  GcSpec => [][GcStep => <<GcRank', GcRank>> \in Lower(4)]_allVars
<1> DEFINE Inv == GcInv /\ Descending /\ RootsBound
<1>1. ASSUME Inv, Inv', GcStep PROVE <<GcRank', GcRank>> \in Lower(4)
  <2>1. Falls(GcStage, RootsLeft, Unentered, FramesLeft,
              GcStage', RootsLeft', Unentered', FramesLeft')
    <3>1. CASE GcRoot
      BY <1>1, <3>1, GcRootFalls DEF Falls
    <3>2. CASE GcEnter \/ GcExit
      BY <1>1, <3>2, GcWalkFalls DEF Falls
    <3>3. CASE GcTruncate
      BY <3>3, GcTruncateFalls DEF Falls
    <3>4. CASE GcCopy
      BY <1>1, <3>4, GcCopyFalls DEF Falls
    <3>5. CASE GcFinish
      BY <1>1, <3>5, GcFinishFalls DEF Falls
    <3> QED
      BY <1>1, <3>1, <3>2, <3>3, <3>4, <3>5 DEF GcStep
  <2> PICK a, b, c, d : a = GcStage /\ b = RootsLeft /\ c = Unentered /\ d = FramesLeft
    OBVIOUS
  <2> PICK p, q, r, t : p = GcStage' /\ q = RootsLeft' /\ r = Unentered' /\ t = FramesLeft'
    OBVIOUS
  <2>2. /\ a \in Nat /\ b \in Nat /\ c \in Nat /\ d \in Nat
        /\ p \in Nat /\ q \in Nat /\ r \in Nat /\ t \in Nat
    BY <1>1, GcRankType, GcRankTypeNext
  <2>3. <<<<p, q, r, t>>, <<a, b, c, d>>>> \in Lower(4)
    BY <2>1, <2>2, FallsIsLower
  <2> QED
    BY <2>3 DEF GcRank
<1>2. GcInit => Inv
  <2>1. GcInit => GcInv /\ phase = "off"
    BY InitGcInv DEF GcInit
  <2> QED
    BY <2>1 DEF Descending, RootsBound
<1>3. Inv /\ [GcNext]_allVars => Inv'
  BY NextGcInv, DescendingNext, RootsBoundNext
<1>4. Inv /\ Inv' /\ [GcNext]_allVars =>
        [GcStep => <<GcRank', GcRank>> \in Lower(4)]_allVars
  BY <1>1
<1> HIDE DEF Inv
<1> QED
  BY <1>2, <1>3, <1>4, PTL DEF GcSpec
=============================================================================
