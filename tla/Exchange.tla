------------------------------ MODULE Exchange ------------------------------
(***************************************************************************)
(* Slabs and diffs (src/slab.rs): two processes, each with a manager and   *)
(* its collector, exchange arena bytes.  Managers share nothing else, so   *)
(* the processes take turns between calls: one runs while the manager of   *)
(* the other rests.  A publication stays on the wire for good: it may be   *)
(* lost, arrive twice, or arrive after a later one.                        *)
(***************************************************************************)
EXTENDS Collector, Diagram

VARIABLES
  wire,     \* the slabs and diffs published so far, in order
  baseLen,  \* the arena length the caller recorded last
  emit,     \* the call of slab_for or diff_since under way
  who,      \* the process that runs
  other     \* the manager of the one that rests, and its caller's records

exVars == <<allVars, wire, baseLen, emit, who, other>>

NoEmit == <<>>

\* Manager::new().
NewManager ==
  [buf |-> <<>>, bufLen |-> 0, den |-> <<>>, unique |-> <<>>, numVars |-> 0,
   cache |-> [s \in 0 .. CacheSlots - 1 |-> EmptyEntry], cacheLen |-> 0,
   held |-> [k \in Handles |-> FalseRef], baseLen |-> 0]

\* The running process's manager.
Current ==
  [buf |-> buf, bufLen |-> bufLen, den |-> den, unique |-> unique,
   numVars |-> numVars, cache |-> cache, cacheLen |-> cacheLen,
   held |-> held, baseLen |-> baseLen]

Run(m) ==
  /\ buf' = m.buf
  /\ bufLen' = m.bufLen
  /\ den' = m.den
  /\ unique' = m.unique
  /\ numVars' = m.numVars
  /\ cache' = m.cache
  /\ cacheLen' = m.cacheLen
  /\ held' = m.held
  /\ baseLen' = m.baseLen

\* Between two calls.
Resting == pc = "idle" /\ phase = "off" /\ emit = NoEmit

\* A call of the manager's own API, or a turn of one.
Work ==
  /\ phase = "off"
  /\ emit = NoEmit
  /\ Next
  /\ UNCHANGED <<gcVars, wire, baseLen, emit, who, other>>

NewProcess ==
  /\ Resting
  /\ Run(NewManager)
  /\ UNCHANGED <<gcVars, loopVars, wire, emit, who, other>>

Switch ==
  /\ Resting
  /\ Run(other)
  /\ other' = Current
  /\ who' = IF who = "server" THEN "client" ELSE "server"
  /\ UNCHANGED <<gcVars, loopVars, wire, emit>>

\* A failed assertion ends the process before it changed anything.
Abort == Run(NewManager)
-----------------------------------------------------------------------------
(* Publishing. *)

\* slab_for and diff_since collect above b; fns is history: what is asked for.
Emit(kind, b, S) ==
  emit' = [kind |-> kind, base |-> b, keys |-> S,
           fns |-> [k \in S |-> Den(held[k])]]

SlabFor(S) ==
  /\ Resting
  /\ \E roots \in SetToSeqs(S) : DropRoots(roots)
  /\ Emit("slab", 0, S)
  /\ UNCHANGED <<wire, baseLen, who, other>>

\* A slip: the diff is taken without a collection.
DiffSinceRaw(b, S) ==
  /\ Resting
  /\ Emit("diff", b, S)
  /\ UNCHANGED <<allVars, wire, baseLen, who, other>>

\* A slip: everything is collected, not what is above b.
DiffSinceWhole(b, S) ==
  /\ Resting
  /\ \E roots \in SetToSeqs(S) : Gc(0, roots)
  /\ Emit("diff", b, S)
  /\ UNCHANGED <<wire, baseLen, who, other>>

DiffSince(b, S) ==
  /\ Resting
  /\ IF b <= bufLen
     THEN /\ \E roots \in SetToSeqs(S) : Gc(b, roots)
          /\ Emit("diff", b, S)
          /\ UNCHANGED baseLen
     ELSE Abort /\ UNCHANGED <<gcVars, loopVars, emit>>
  /\ UNCHANGED <<wire, who, other>>

Collect == GcStep /\ UNCHANGED <<wire, baseLen, emit, who, other>>

\* The arena's nodes from b on, as bytes: where they are counts from b, and
\* their codes are relative.
TailBytes(b) == [i \in {o - b : o \in YoungNodes(b)} |-> buf[b + i]]

\* The bytes and the roots leave the manager; the caller records the length.
Publish ==
  /\ emit # NoEmit
  /\ phase = "off"
  /\ wire' = Append(wire,
       [kind |-> emit.kind, base |-> emit.base, tail |-> TailBytes(emit.base),
        tailLen |-> bufLen - emit.base,
        roots |-> [k \in emit.keys |-> held[k]], fns |-> emit.fns])
  /\ baseLen' = bufLen
  /\ emit' = NoEmit
  /\ UNCHANGED <<allVars, who, other>>
-----------------------------------------------------------------------------
(* Receiving. *)

\* The arena b of length len with a's bytes after it.
Grafted(b, len, a) ==
  [o \in DOMAIN b \cup {len + i : i \in DOMAIN a.tail} |->
     IF o \in DOMAIN b THEN b[o] ELSE a.tail[o - len]]

\* The manager m after a's bytes were appended and the table rebuilt; num_vars
\* and the apply cache stay.  The caller gets a's roots, and the length.
Received(m, a) ==
  LET b == Grafted(m.buf, m.bufLen, a) IN
  [buf |-> b, bufLen |-> m.bufLen + a.tailLen, den |-> Meanings(b),
   unique |-> Tables(DOMAIN m.unique, m.numVars, b),
   numVars |-> m.numVars, cache |-> m.cache, cacheLen |-> m.cacheLen,
   held |-> [k \in Handles |-> IF k \in DOMAIN a.roots THEN a.roots[k]
                               ELSE m.held[k]],
   baseLen |-> m.bufLen + a.tailLen]

Receive(a) == Run(Received(Current, a))

IngestSlab(a) ==
  /\ Resting
  /\ a.kind = "slab"
  /\ IF bufLen = 0 THEN Receive(a) ELSE Abort
  /\ UNCHANGED <<gcVars, loopVars, wire, emit, who, other>>

\* A slip: a longer arena than the diff's base will do.
ApplyDiffAbove(a) ==
  /\ Resting
  /\ a.kind = "diff"
  /\ IF bufLen >= a.base THEN Receive(a) ELSE Abort
  /\ UNCHANGED <<gcVars, loopVars, wire, emit, who, other>>

ApplyDiff(a) ==
  /\ Resting
  /\ a.kind = "diff"
  /\ IF bufLen = a.base THEN Receive(a) ELSE Abort
  /\ UNCHANGED <<gcVars, loopVars, wire, emit, who, other>>

\* A slip: the greatest variable, not the number of variables.
ScanMaxVarShort(a) ==
  Cardinality(UNION {1 .. a.tail[i].var : i \in DOMAIN a.tail})

\* scan_max_var: the variables the bytes of a slab need.
ScanMaxVar(a) ==
  Cardinality(UNION {0 .. a.tail[i].var : i \in DOMAIN a.tail})

\* A new manager whose first n variables are declared.
Declaring(n) ==
  [NewManager EXCEPT !.numVars = n, !.unique = [v \in 0 .. n - 1 |-> {}]]

\* extend_slab before it calls ops: a new manager, with the base's variables
\* declared and the base ingested.  What ops does is Work, then DiffSince.
ExtendSlab(a) ==
  /\ Resting
  /\ a.kind = "slab"
  /\ Run(Received(Declaring(ScanMaxVar(a)), a))
  /\ UNCHANGED <<gcVars, loopVars, wire, emit, who, other>>

-----------------------------------------------------------------------------
ExInit ==
  /\ GcInit
  /\ wire = <<>>
  /\ baseLen = 0
  /\ emit = NoEmit
  /\ who = "server"
  /\ other = NewManager

\* The receiver has declared the variables the bytes use.
Declared(a) == ScanMaxVar(a) <= numVars

\* One lineage: the server alone publishes, one slab and then diffs, each from
\* where the last publication ended; it may go on from the slab in a new
\* manager.  The client receives anything, at any time, as often as it comes,
\* but a diff only while its arena is as it received it; it may start again.
\* Both call their managers as they like.
LineageNext ==
  \/ Work
  \/ Collect
  \/ Publish
  \/ Switch
  \/ /\ who = "server"
     /\ \E S \in SUBSET Handles :
          IF wire = <<>> THEN SlabFor(S) ELSE DiffSince(baseLen, S)
  \/ /\ who = "server"
     /\ Len(wire) = 1
     /\ ExtendSlab(wire[1])
  \/ /\ who = "client"
     /\ \/ NewProcess
        \/ \E a \in Range(wire) :
             Declared(a) /\ (IngestSlab(a) \/ (bufLen = baseLen /\ ApplyDiff(a)))

LineageSpec == ExInit /\ [][LineageNext]_exVars
-----------------------------------------------------------------------------
(* Properties. *)

\* A manager that received is as good as one that built: its diagram reduced,
\* its table exact, equal functions equal references, its cache right.
ReceiverIntact ==
  phase = "off" =>
    Reduced /\ Meaning /\ UniqueExact /\ Canonical /\ CacheSound

\* A root apply_diff returns is the function the sender published, or the call
\* was refused (tests/slab.rs:10, "base_len check catches a corrupted base").
DiffMeansSent ==
  [][\A a \in Range(wire) :
       ApplyDiff(a) /\ bufLen' # 0 =>
         \A k \in DOMAIN a.roots : Den(a.roots[k])' = a.fns[k]]_exVars

\* Publications are clean, and clean tails on a clean base are a clean arena:
\* where nothing was built since, each node is a published root or a child, so
\* a collection would find nothing to remove (slab.rs:5-18, VWBDD.md:836).
CleanBytes ==
  Resting /\ bufLen = baseLen =>
    \A o \in Headers :
      \/ \E a \in Range(wire) : o \in Range(a.roots)
      \/ \E p \in Headers : o \in Children(p)

\* Where both processes recorded one length, they hold the same bytes below it:
\* the length is all apply_diff compares (slab.rs:34-36, 263-266).
LengthIsBase ==
  baseLen = other.baseLen =>
    \A o \in Headers \cup DOMAIN other.buf :
      o < baseLen =>
        o \in Headers \cap DOMAIN other.buf /\ buf[o] = other.buf[o]

\* A receipt delivers the publication received and no other: each root stands
\* for what the sender's caller asked for, each handle it does not name for what
\* it stood for, whatever was received before (slab.rs:196-281).
ReceiptsMeanSent ==
  [][\A a \in Range(wire) :
       (IngestSlab(a) \/ ApplyDiff(a)) /\ bufLen' # 0 =>
         \A k \in Handles :
           HeldFns'[k] = IF k \in DOMAIN a.roots THEN a.fns[k] ELSE HeldFns[k]]_exVars

\* Both processes are Boolean-function services, and what one receives is what
\* the other was asked to publish when it called slab_for or diff_since: after
\* any receipt, collection, abort or restart (slab.rs:195-307).
BS == INSTANCE BoolShare WITH
  fn <- HeldFns, owed <- Owed, kept <- Kept,
  sent <- {a.fns : a \in Range(wire)},
  rest <- [fn |-> [k \in Handles |-> FnIn(other.den, other.held[k])],
           numVars |-> other.numVars]
ImplementsBoolShare == BS!ShareSteps
-----------------------------------------------------------------------------
(* The inductive invariant behind the safety properties. *)

\* A node of a manager at rest is reduced and ordered, and means what its bytes
\* say.
NodeSound(m, o) ==
  LET n == Decode(m.buf, o) IN
  /\ o \in 0 .. m.bufLen - 1
  /\ n.var < m.numVars /\ n.var < VarRadix
  /\ n.lo # n.hi
  /\ \A c \in {n.lo, n.hi} \ Terminals :
       c \in DOMAIN m.buf /\ c < o /\ m.buf[c].var > n.var
  /\ m.den[o] = Shannon(n.var, FnIn(m.den, n.lo), FnIn(m.den, n.hi))
  /\ \A u \in 0 .. n.var - 1 : IndependentOf(m.den[o], u)

\* So the manager at rest is canonical, its table exact and its cache right.
Sound(m) ==
  LET refs == Terminals \cup DOMAIN m.buf IN
  /\ m.bufLen \in 0 .. MaxOffset /\ m.numVars \in 0 .. MaxVars
  /\ m.bufLen > 0 => m.numVars > 0
  /\ m.buf \in [DOMAIN m.buf -> RawNodes]
  /\ m.den \in [DOMAIN m.buf -> Functions]
  /\ \A o \in DOMAIN m.buf : NodeSound(m, o)
  /\ \A q, r \in refs : FnIn(m.den, q) = FnIn(m.den, r) => q = r
  /\ \/ DOMAIN m.unique = 0 .. m.numVars - 1
     \/ m.numVars = 0 /\ DOMAIN m.unique = {0}
  /\ m.unique = [v \in DOMAIN m.unique |-> {o \in DOMAIN m.buf : m.buf[o].var = v}]
  /\ m.cache \in [0 .. CacheSlots - 1 ->
                 {EmptyEntry} \cup [f : refs, g : refs, h : refs, r : refs]]
  /\ \A s \in DOMAIN m.cache :
       LET e == m.cache[s] IN
       e # EmptyEntry =>
         FnIn(m.den, e.r) =
           IteFn(FnIn(m.den, e.f), FnIn(m.den, e.g), FnIn(m.den, e.h))
  /\ m.cacheLen \in Nat
  /\ m.held \in [Handles -> refs]
  /\ m.baseLen \in DOMAIN m.buf \cup {m.bufLen}

Server == IF who = "server" THEN Current ELSE other
Client == IF who = "client" THEN Current ELSE other

End(a) == a.base + a.tailLen

\* The nodes of the manager s whose bytes a carries.
Stretch(s, a) == {o \in DOMAIN s.buf : a.base <= o /\ o < End(a)}

\* A publication of s is a clean stretch of what s still holds, with roots that
\* mean what was asked for.
Published(s, a) ==
  LET stretch == Stretch(s, a) IN
  /\ a.kind \in {"slab", "diff"} /\ (a.kind = "slab" => a.base = 0)
  /\ a.base \in Nat /\ a.tailLen \in Nat /\ End(a) <= s.baseLen
  /\ a.tail = [i \in {o - a.base : o \in stretch} |-> s.buf[a.base + i]]
  /\ a.tailLen = 0 \/ 0 \in DOMAIN a.tail
  /\ DOMAIN a.roots \subseteq Handles
  /\ a.fns = [k \in DOMAIN a.roots |-> FnIn(s.den, a.roots[k])]
  /\ \A r \in Range(a.roots) \ Terminals : r \in DOMAIN s.buf /\ r < End(a)
  /\ \A o \in stretch :
       \/ o \in Range(a.roots)
       \/ \E p \in stretch : o \in {Decode(s.buf, p).lo, Decode(s.buf, p).hi}

\* The arenas of s and c are the same below n.
SameBelow(s, c, n) ==
  \A o \in DOMAIN s.buf \cup DOMAIN c.buf :
    o < n => o \in DOMAIN s.buf \cap DOMAIN c.buf /\ s.buf[o] = c.buf[o]

\* The publications w follow one another and make up what the server s
\* recorded; the client c holds them up to the end of one.
Shared(s, c, w) ==
  /\ w \in Seq(Range(w))
  /\ \A a \in Range(w) : Published(s, a)
  /\ \A i, j \in DOMAIN w : i < j => End(w[i]) <= w[j].base
  /\ \A o \in DOMAIN s.buf :
       o < s.baseLen => \E a \in Range(w) : o \in Stretch(s, a)
  /\ IF w = <<>> THEN s.baseLen = 0
     ELSE w[1].base = 0 /\ End(w[Len(w)]) = s.baseLen
  /\ c.baseLen \in {0} \cup {End(a) : a \in Range(w)}
  /\ SameBelow(s, c, c.baseLen)

WireInv == Shared(Server, Client, wire)

\* While the server collects for a publication its handles stand for what was
\* asked for, and when it has collected, what it will publish is clean.
EmitInv ==
  /\ phase # "off" => emit # NoEmit
  /\ emit # NoEmit =>
       /\ who = "server" /\ pc = "idle"
       /\ emit.kind = IF wire = <<>> THEN "slab" ELSE "diff"
       /\ emit.base = baseLen
       /\ emit.keys \subseteq Handles
       /\ emit.fns = [k \in emit.keys |-> HeldFns[k]]
       /\ IF phase # "off"
          THEN base = baseLen /\ Range(keep) = emit.keys
          ELSE \A o \in YoungNodes(baseLen) :
                 \/ \E k \in emit.keys : held[k] = o
                 \/ \E p \in YoungNodes(baseLen) : o \in Children(p)

\* The engine that runs and the one that rests are sound, and both hold what
\* was published (slab.rs:195-307).
LineageInv ==
  /\ GcInv
  /\ baseLen \in Headers \cup {bufLen}
  /\ who \in {"server", "client"}
  /\ Sound(other)
  /\ WireInv
  /\ EmitInv
=============================================================================
