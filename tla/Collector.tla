----------------------------- MODULE Collector -----------------------------
(***************************************************************************)
(* The generational garbage collector (Manager::gc and drop_roots in       *)
(* src/manager.rs), over the engine of Manager.  A collection is a call    *)
(* like any other; its steps are the turns of its loops: a depth-first     *)
(* walk over the old tail that lists the live nodes after their children,  *)
(* the truncation, one copy per listed node, and the rebuilding of the     *)
(* unique table with the translation of the roots.                         *)
(***************************************************************************)
EXTENDS Manager, SequencesExt

ASSUME CollectorAssumption == IsFiniteSet(Handles)

VARIABLES
  phase,      \* where the collection is: off, mark or copy
  base,       \* base_len: offsets below it are not collected
  keep,       \* the handles the caller passes as roots, in order
  nextRoot,   \* the root the walk comes to next
  gcStack,    \* the walk's stack, top first
  oldTail,    \* the tail as it was when the collection began
  remap,      \* the visited offsets, and later their new references
  postOrder,  \* the live tail nodes, children first; then those left to copy
  oldDen      \* history: den when the collection began

gcVars ==
  <<phase, base, keep, nextRoot, gcStack, oldTail, remap, postOrder, oldDen>>
allVars == <<vars, gcVars>>

IsYoung(r) == IsNode(r) /\ r >= base

GcInit ==
  /\ Init
  /\ phase = "off"
  /\ base = 0
  /\ keep = <<>>
  /\ nextRoot = 1
  /\ gcStack = <<>>
  /\ oldTail = <<>>
  /\ remap = <<>>
  /\ postOrder = <<>>
  /\ oldDen = <<>>
-----------------------------------------------------------------------------
(* gc is called. *)

GcPanic == pc' = "panic" /\ UNCHANGED gcVars

\* The tail is set aside for the copy, and the walk has come to no root.
GcBegin(b, roots) ==
  /\ phase' = "mark"
  /\ base' = b
  /\ keep' = roots
  /\ nextRoot' = 1
  /\ oldTail' = [o \in {o \in Headers : o >= b} |-> buf[o]]
  /\ oldDen' = den
  /\ UNCHANGED <<pc, gcStack, remap, postOrder>>

\* gc(b, roots) asserts that b is not past the end of the arena.  With an empty
\* tail it returns at once and flushes nothing.
Gc(b, roots) ==
  /\ phase = "off"
  /\ pc = "idle"
  /\ CASE b > bufLen -> GcPanic
       [] b = bufLen -> UNCHANGED <<pc, gcVars>>
       [] OTHER      -> GcBegin(b, roots)
  /\ UNCHANGED <<arenaVars, numVars, cacheVars, held, call, stack, results>>

\* drop_roots(roots).
DropRoots(roots) == Gc(0, roots)
-----------------------------------------------------------------------------
(* The walk. *)

Marking == phase = "mark" /\ UNCHANGED <<vars, phase, base, keep, oldTail, oldDen>>

Visited == DOMAIN remap

\* The walk is over; the next root starts one if it is young and unvisited.
GcRoot ==
  /\ Marking
  /\ gcStack = <<>>
  /\ nextRoot <= Len(keep)
  /\ LET r == held[keep[nextRoot]] IN
     gcStack' = IF IsYoung(r) /\ r \notin Visited
                THEN <<[kind |-> "enter", off |-> r]>>
                ELSE <<>>
  /\ nextRoot' = nextRoot + 1
  /\ UNCHANGED <<remap, postOrder>>

\* The frames a child adds to the stack: none, or one.
EnterChild(c) ==
  IF IsYoung(c) /\ c \notin Visited
  THEN <<[kind |-> "enter", off |-> c]>>
  ELSE <<>>

\* A slip: a node is left before its children.
WalkPreOrder(o) ==
  <<[kind |-> "exit", off |-> o]>>
    \o EnterChild(Node(o).hi) \o EnterChild(Node(o).lo)

\* A node is left after its young children, hi before lo.
Walk(o) ==
  EnterChild(Node(o).hi) \o EnterChild(Node(o).lo)
    \o <<[kind |-> "exit", off |-> o]>>

\* A slip: a node that was left meanwhile is entered again.
GcEnterAgain ==
  /\ Marking
  /\ gcStack # <<>>
  /\ Head(gcStack).kind = "enter"
  /\ gcStack' = Walk(Head(gcStack).off) \o Tail(gcStack)
  /\ UNCHANGED <<nextRoot, remap, postOrder>>

GcEnter ==
  /\ Marking
  /\ gcStack # <<>>
  /\ Head(gcStack).kind = "enter"
  /\ LET o == Head(gcStack).off IN
     gcStack' = IF o \in Visited
                THEN Tail(gcStack)
                ELSE Walk(o) \o Tail(gcStack)
  /\ UNCHANGED <<nextRoot, remap, postOrder>>

\* A slip: a node that is left is not marked.
GcExitUnmarked ==
  /\ Marking
  /\ gcStack # <<>>
  /\ Head(gcStack).kind = "exit"
  /\ postOrder' = Append(postOrder, Head(gcStack).off)
  /\ gcStack' = Tail(gcStack)
  /\ UNCHANGED <<nextRoot, remap>>

GcExit ==
  /\ Marking
  /\ gcStack # <<>>
  /\ Head(gcStack).kind = "exit"
  /\ LET o == Head(gcStack).off IN
     IF o \in Visited
     THEN UNCHANGED <<remap, postOrder>>
     ELSE /\ remap' = Extend(remap, o, FalseRef)
          /\ postOrder' = Append(postOrder, o)
  /\ gcStack' = Tail(gcStack)
  /\ UNCHANGED nextRoot

\* A slip: the arena is emptied whatever the base.
NothingKept == {}

\* The nodes of the base.
OldNodes == {o \in Headers : o < base}

\* The tail goes, and with it the marks.
GcTruncate ==
  /\ phase = "mark"
  /\ gcStack = <<>>
  /\ nextRoot > Len(keep)
  /\ phase' = "copy"
  /\ buf' = [o \in OldNodes |-> buf[o]]
  /\ den' = [o \in OldNodes |-> den[o]]
  /\ bufLen' = base
  /\ remap' = <<>>
  /\ UNCHANGED <<unique, numVars, cacheVars, held, loopVars,
                 base, keep, nextRoot, gcStack, oldTail, postOrder, oldDen>>
-----------------------------------------------------------------------------
(* The copy. *)

\* translate panics on a young reference that was not copied.
Translates(r) == IsYoung(r) => r \in DOMAIN remap

\* A slip: the walk's marks are taken for the copies.
TranslateMark(r) == IF IsYoung(r) THEN FalseRef ELSE r

\* A slip: a reference to the node at the base is taken for an old one.
TranslateLate(r) == IF IsYoung(r) /\ r # base THEN remap[r] ELSE r

Translate(r) == IF IsYoung(r) THEN remap[r] ELSE r

GcCopy ==
  LET o == Head(postOrder)
      n == Decode(oldTail, o)
      lo == Translate(n.lo)
      hi == Translate(n.hi)
  IN
  /\ phase = "copy"
  /\ postOrder # <<>>
  /\ IF \/ ~ Translates(n.lo) \/ ~ Translates(n.hi)
        \/ lo # hi /\ EncodePanics(n.var, lo, hi)
     THEN GcPanic /\ UNCHANGED <<buf, bufLen, den>>
     ELSE /\ IF lo = hi
             THEN remap' = Extend(remap, o, lo) /\ UNCHANGED <<buf, bufLen, den>>
             ELSE remap' = Extend(remap, o, bufLen) /\ EncodeNode(n.var, lo, hi)
          /\ postOrder' = Tail(postOrder)
          /\ UNCHANGED <<phase, pc, base, keep, nextRoot, gcStack, oldTail, oldDen>>
  /\ UNCHANGED <<unique, numVars, cacheVars, held, call, stack, results>>

\* unique_rebuild_from_arena over the arena b, of a manager with tables for the
\* variables T and n variables declared: reset_for keeps every table there is,
\* adds the ones for the declared and the decoded variables, and at least one.
Tables(T, n, b) ==
  LET tables == T \cup {0} \cup (0 .. n - 1)
                  \cup UNION {0 .. b[o].var : o \in DOMAIN b}
  IN  [v \in tables |-> {o \in DOMAIN b : b[o].var = v}]

RebuildUnique(b) == unique' = Tables(DOMAIN unique, numVars, b)

\* A slip: the cache is left as it is.
NoFlush == UNCHANGED cacheVars

FlushCache ==
  /\ cache' = [s \in DOMAIN cache |-> EmptyEntry]
  /\ cacheLen' = 0

\* The caller goes on with the roots gc returns and what it held in the base.
GcFinish ==
  /\ phase = "copy"
  /\ postOrder = <<>>
  /\ RebuildUnique(buf)
  /\ FlushCache
  /\ IF \E i \in DOMAIN keep : ~ Translates(held[keep[i]])
     THEN GcPanic /\ UNCHANGED held
     ELSE /\ held' = [k \in Handles |->
                        IF k \in Range(keep) THEN Translate(held[k])
                        ELSE IF IsYoung(held[k]) THEN FalseRef ELSE held[k]]
          /\ phase' = "off"
          /\ base' = 0
          /\ keep' = <<>>
          /\ nextRoot' = 1
          /\ oldTail' = <<>>
          /\ remap' = <<>>
          /\ oldDen' = <<>>
          /\ UNCHANGED <<pc, gcStack, postOrder>>
  /\ UNCHANGED <<buf, bufLen, den, numVars, call, stack, results>>
-----------------------------------------------------------------------------
GcStep == GcRoot \/ GcEnter \/ GcExit \/ GcTruncate \/ GcCopy \/ GcFinish

\* A caller's base is the arena's length at some earlier moment: a header's
\* offset, or the arena's end.
GcCall ==
  \E S \in SUBSET Handles : \E roots \in SetToSeqs(S) :
    \/ DropRoots(roots)
    \/ \E b \in (Headers \cup {bufLen}) \ {0} : Gc(b, roots)

GcNext ==
  \/ phase = "off" /\ Next /\ UNCHANGED gcVars
  \/ GcCall
  \/ GcStep

GcSpec == GcInit /\ [][GcNext]_allVars

-----------------------------------------------------------------------------
(* Properties. *)

YoungNodes(b) == {o \in Headers : o >= b}
Children(o) == {Node(o).lo, Node(o).hi} \ Terminals

\* Between collections the engine is as Manager leaves it: gc restores the
\* types, the unique table, canonicity and the apply cache.
EngineIntact ==
  phase = "off" => TypeOK /\ Canonical /\ UniqueExact /\ CacheSound

\* The functions the caller holds; while a collection moves the nodes, those
\* its handles stood for when it began.
HeldFns ==
  [k \in Handles |->
     IF phase # "off" /\ IsNode(held[k]) THEN oldDen[held[k]] ELSE Den(held[k])]

\* The handles the collection under way keeps: its roots, and those it has no
\* say over.
Kept ==
  IF phase = "off" THEN {}
  ELSE {Range(keep) \cup {k \in Handles : ~IsYoung(held[k])}}

\* The roots a collection returns stand for what they stood for when it was
\* called, as does every handle to a node below the base; the others are given
\* up, and nothing else the caller sees changes while it runs.
GcBF == INSTANCE BoolGc WITH fn <- HeldFns, owed <- Owed, kept <- Kept
GcImplementsBoolGc == GcBF!GcSpec

\* No step of a collection changes a byte below the base.
BaseUntouched ==
  [][phase # "off" =>
       \A o \in Headers : o < base => o \in DOMAIN buf' /\ buf'[o] = buf[o]]_allVars

\* A collection leaves a clean tail: what it kept is a root or the child of
\* a kept node, so every tail node is reachable from the roots.
CleanTail ==
  [][phase = "copy" /\ phase' = "off" =>
       \A o \in YoungNodes(base) :
         \/ \E i \in DOMAIN keep : held'[keep[i]] = o
         \/ \E p \in YoungNodes(base) : o \in Children(p)]_allVars

\* The copy is one to one: gc of a canonical arena never meets two equal new
\* children, and never copies a node twice.
CopyOneToOne ==
  phase = "copy" =>
    /\ \A o, q \in DOMAIN remap : remap[o] = remap[q] => o = q
    /\ \A o \in DOMAIN remap : remap[o] \in YoungNodes(base)
    /\ Range(postOrder) \cap DOMAIN remap = {}

\* A copied node stands for the function it stood for.
CopySound ==
  phase = "copy" => \A o \in DOMAIN remap : Den(remap[o]) = oldDen[o]

\* The walk enters a node once, however many parents pushed it: one that has
\* been entered is not yet marked, and is on the stack once, as an exit
\* (manager.rs:651-681).
WalkEntersOnce ==
  phase = "mark" =>
    \A i \in DOMAIN gcStack :
      gcStack[i].kind = "exit" =>
        /\ gcStack[i].off \notin Range(postOrder)
        /\ \A j \in DOMAIN gcStack :
             gcStack[j] = gcStack[i] => j = i
-----------------------------------------------------------------------------
(* The inductive invariant behind the safety properties. *)

\* The references of the arena a collection began with, and their functions.
OldRefs == Terminals \cup OldNodes \cup DOMAIN oldTail
OldFn(r) == IF IsNode(r) THEN oldDen[r] ELSE Den(r)
OldVar(r) == IF IsYoung(r) THEN oldTail[r].var ELSE VarOf(r)

OldNode(o) == Decode(oldTail, o)
YoungChildren(o) == {c \in {OldNode(o).lo, OldNode(o).hi} : IsYoung(c)}

\* A node of the old tail is reduced and ordered, and means what its bytes say.
OldNodeSound(o) ==
  LET n == OldNode(o) IN
  /\ n.var < numVars /\ n.var < VarRadix
  /\ n.lo # n.hi
  /\ \A c \in {n.lo, n.hi} :
       c \in OldRefs /\ (IsNode(c) => OldVar(c) > n.var)
  /\ oldDen[o] = Shannon(n.var, OldFn(n.lo), OldFn(n.hi))

\* What is left of that arena, its base and the old tail, is still canonical.
Snapshot ==
  /\ oldTail \in [DOMAIN oldTail -> RawNodes]
  /\ \A o \in DOMAIN oldTail : o \in Nat /\ o >= base /\ OldNodeSound(o)
  /\ \A o \in OldNodes : oldDen[o] = den[o]
  /\ \A r, s \in OldRefs : OldFn(r) = OldFn(s) => r = s

Roots == {held[keep[i]] : i \in DOMAIN keep}
Live == DOMAIN remap \cup Range(postOrder)
OnStack == {gcStack[i].off : i \in DOMAIN gcStack}
Entered ==
  Live \cup {gcStack[i].off : i \in {j \in DOMAIN gcStack : gcStack[j].kind = "exit"}}

WalkFrames == [kind : {"enter", "exit"}, off : DOMAIN oldTail]

\* The walk leaves a node once, after its young children; it has come to the
\* roots before nextRoot, and to nothing that is not a root or a child.
WalkSound ==
  /\ gcStack \in Seq(WalkFrames)
  /\ postOrder \in Seq(DOMAIN oldTail)
  /\ \A i, j \in DOMAIN postOrder : postOrder[i] = postOrder[j] => i = j
  /\ \A i \in DOMAIN gcStack :
       gcStack[i].kind = "exit" =>
         \A c \in YoungChildren(gcStack[i].off) :
           c \in Live \/ \E j \in 1 .. i - 1 : gcStack[j].off = c
  /\ \A i \in DOMAIN postOrder : \A c \in YoungChildren(postOrder[i]) :
       \/ phase = "copy" /\ c \in DOMAIN remap
       \/ \E j \in 1 .. i - 1 : postOrder[j] = c
  /\ \A i \in DOMAIN keep :
       i < nextRoot /\ IsYoung(held[keep[i]])
         => held[keep[i]] \in Live \cup OnStack
  /\ \A o \in Live \cup OnStack :
       o \in Roots \/ \E p \in Entered : o \in YoungChildren(p)

MarkInv ==
  /\ ArenaInv
  /\ VarBytesFit
  /\ oldTail = [o \in YoungNodes(base) |-> buf[o]]
  /\ oldDen = den
  /\ DOMAIN remap = Range(postOrder)

\* The new tail is the image of the nodes copied, whose children are copied.
CopyInv ==
  /\ gcStack = <<>>
  /\ nextRoot > Len(keep)
  /\ BytesTypeOK /\ Reduced /\ Meaning /\ VarBytesFit
  /\ DOMAIN unique = 0 .. numVars - 1
  /\ DOMAIN remap \subseteq DOMAIN oldTail
  /\ Range(postOrder) \cap DOMAIN remap = {}
  /\ \A o \in DOMAIN remap :
       LET n == OldNode(o) IN
       /\ YoungChildren(o) \subseteq DOMAIN remap
       /\ remap[o] \in YoungNodes(base)
       /\ Node(remap[o]) =
            [var |-> n.var, lo |-> Translate(n.lo), hi |-> Translate(n.hi)]
       /\ Den(remap[o]) = oldDen[o]
  /\ \A h \in YoungNodes(base) : \E o \in DOMAIN remap : remap[o] = h

BetweenInv ==
  /\ IInv /\ IteInv
  /\ bufLen > 0 => numVars > 0
  /\ pc # "loop" => stack = <<>>
  /\ gcStack = <<>> /\ remap = <<>> /\ postOrder = <<>>

DuringInv ==
  /\ pc = "idle" /\ call = NoCall /\ stack = <<>> /\ results = <<>>
  /\ base \in Nat /\ bufLen >= base /\ numVars > 0 /\ nextRoot \in Nat \ {0}
  /\ keep \in Seq(Handles)
  /\ held \in [Handles -> OldRefs]
  /\ DOMAIN cache = 0 .. CacheSlots - 1
  /\ Snapshot
  /\ WalkSound

\* Between collections the engine has its own invariant, and during one the
\* old arena is still what the new one is copied from (manager.rs:610-780).
GcInv ==
  \/ phase = "off" /\ BetweenInv
  \/ phase = "mark" /\ DuringInv /\ MarkInv
  \/ phase = "copy" /\ DuringInv /\ CopyInv
=============================================================================
