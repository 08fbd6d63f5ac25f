------------------------------ MODULE Manager ------------------------------
(***************************************************************************)
(* The BDD engine (src/manager.rs): the append-only arena, the unique      *)
(* table that keeps it canonical, and ite, the iterative apply with its    *)
(* direct-mapped cache.  One action is one call of the API or one turn of  *)
(* ite's work loop.  Garbage collection is in Collector.                   *)
(***************************************************************************)
EXTENDS Codec, BoolAlgebra, Sequences

CONSTANTS
  Handles,         \* the references the caller holds
  MaxLen,          \* bound: calls are made only while bufLen <= MaxLen
  CacheSlots,      \* slots of the apply cache
  IteSlot(_, _, _),\* ite_key_hash(f, g, h) & ite_cache_mask
  DebugBuild       \* whether debug_assert! is compiled in

ASSUME ManagerAssumption ==
  /\ MaxLen \in 0 .. MaxOffset
  /\ CacheSlots \in Nat \ {0, 1}
  /\ \A f, g, h \in Refs : IteSlot(f, g, h) \in 0 .. CacheSlots - 1
  /\ DebugBuild \in BOOLEAN

VARIABLES
  buf,       \* the node whose bytes start at each header offset of the arena
  bufLen,    \* the arena's length in bytes
  unique,    \* for each variable's table, the offsets it holds
  numVars,   \* declared variables
  cache,     \* the apply cache's slots
  cacheLen,  \* ite_cache_len
  held,      \* the reference behind each of the caller's handles
  pc,        \* where the current call of ite is
  call,      \* its operands, what xor computes next, the function asked for
  stack,     \* its work stack, top first
  results,   \* its result stack, top first
  den        \* history: the function each node stands for

arenaVars == <<buf, bufLen, unique, den>>
cacheVars == <<cache, cacheLen>>
loopVars == <<pc, call, stack, results>>
vars == <<arenaVars, numVars, cacheVars, held, loopVars>>

EmptyRef == -3
EmptyEntry == [f |-> EmptyRef, g |-> EmptyRef, h |-> EmptyRef, r |-> EmptyRef]
NoCall == <<>>
-----------------------------------------------------------------------------
(* The arena. *)

\* f with x mapped to y.
Extend(f, x, y) ==
  [z \in DOMAIN f \cup {x} |-> IF z = x THEN y ELSE f[z]]

Headers == DOMAIN buf
Nodes == Terminals \cup Headers  \* the references that mean something

Node(o) == Decode(buf, o)
VarOf(o) == buf[o].var

Den(r) == CASE r = FalseRef -> FalseFn
            [] r = TrueRef  -> TrueFn
            [] OTHER        -> den[r]

\* The offsets var's table finds for (var, lo, hi).
Lookup(v, lo, hi) ==
  {o \in unique[v] : Node(o) = [var |-> v, lo |-> lo, hi |-> hi]}

\* The assertions of encode_node, and of ref_to_code below it.
EncodePanics(v, lo, hi) ==
  \/ DebugBuild /\ v >= VarRadix
  \/ \E c \in {lo, hi} : IsNode(c) /\ c >= bufLen

\* A slip: a child may have its parent's variable.
MakeNodePanicsLate(v, lo, hi) ==
  v >= numVars \/ \E c \in {lo, hi} : IsNode(c) /\ VarOf(c) < v

\* The assertions of make_node and of what it calls.
MakeNodePanics(v, lo, hi) ==
  \/ v >= numVars
  \/ /\ lo # hi
     /\ \/ \E c \in {lo, hi} : IsNode(c) /\ VarOf(c) <= v
        \/ Lookup(v, lo, hi) = {} /\ EncodePanics(v, lo, hi)

\* encode_node at the end of the arena.
EncodeNode(v, lo, hi) ==
  LET raw == Encode(v, lo, hi, bufLen) IN
  /\ bufLen + NodeSize(raw) <= MaxOffset
  /\ buf' = Extend(buf, bufLen, raw)
  /\ bufLen' = bufLen + NodeSize(raw)
  /\ den' = Extend(den, bufLen, Shannon(raw.var, Den(lo), Den(hi)))

\* A slip: the new node is left out of the unique table.
AppendNodeUnlisted(v, lo, hi) == EncodeNode(v, lo, hi) /\ UNCHANGED unique

\* A new node: its bytes, and its entry in var's table.
AppendNode(v, lo, hi) ==
  /\ EncodeNode(v, lo, hi)
  /\ unique' = [unique EXCEPT ![v] = @ \cup {bufLen}]

\* A slip: lo = hi is not reduced.
MakeNodeUnreduced(v, lo, hi, r) ==
  \/ r \in Lookup(v, lo, hi) /\ UNCHANGED arenaVars
  \/ Lookup(v, lo, hi) = {} /\ r = bufLen /\ AppendNode(v, lo, hi)

\* make_node returns r.
MakeNode(v, lo, hi, r) ==
  \/ /\ lo = hi
     /\ r = lo
     /\ UNCHANGED arenaVars
  \/ /\ lo # hi
     /\ r \in Lookup(v, lo, hi)
     /\ UNCHANGED arenaVars
  \/ /\ lo # hi
     /\ Lookup(v, lo, hi) = {}
     /\ r = bufLen
     /\ AppendNode(v, lo, hi)
-----------------------------------------------------------------------------
(* What ite looks up before it works. *)

\* A slip: ite(f, TRUE, h) is f whatever h is.
TrivialAnyElse(f, g, h) ==
  CASE f = TrueRef                   -> {g}
    [] f = FalseRef                  -> {h}
    [] IsNode(f) /\ g = h            -> {g}
    [] IsNode(f) /\ g = TrueRef /\ g # h -> {f}
    [] OTHER                         -> {}

Trivial(f, g, h) ==
  CASE f = TrueRef                     -> {g}
    [] f = FalseRef                    -> {h}
    [] IsNode(f) /\ g = h              -> {g}
    [] IsNode(f) /\ g = TrueRef /\ h = FalseRef -> {f}
    [] OTHER                           -> {}

CacheGet(f, g, h) ==
  LET e == cache[IteSlot(f, g, h)] IN
  IF e.f = f /\ e.g = g /\ e.h = h THEN {e.r} ELSE {}

\* A slip: a filled slot keeps its key and takes the new result.
CachePutResult(f, g, h, r) ==
  LET s == IteSlot(f, g, h) IN
  /\ cache' = [cache EXCEPT ![s] = IF @ = EmptyEntry
                                   THEN [f |-> f, g |-> g, h |-> h, r |-> r]
                                   ELSE [@ EXCEPT !.r = r]]
  /\ cacheLen' = cacheLen + (IF cache[s].f = EmptyRef THEN 1 ELSE 0)

CachePut(f, g, h, r) ==
  LET s == IteSlot(f, g, h) IN
  /\ cache' = [cache EXCEPT ![s] = [f |-> f, g |-> g, h |-> h, r |-> r]]
  /\ cacheLen' = cacheLen + (IF cache[s].f = EmptyRef THEN 1 ELSE 0)

\* The result ite has without expanding: none, or one.
Known(f, g, h) ==
  IF Trivial(f, g, h) # {} THEN Trivial(f, g, h) ELSE CacheGet(f, g, h)

\* A slip: the last variable instead of the first.
TopVarLast(rs) ==
  LET vs == {VarOf(r) : r \in rs \ Terminals}
  IN  CHOOSE v \in vs : \A u \in vs : u <= v

TopVar(rs) ==
  LET vs == {VarOf(r) : r \in rs \ Terminals}
  IN  CHOOSE v \in vs : \A u \in vs : v <= u

CofactorPanics(r, v) == IsNode(r) /\ VarOf(r) < v

Cofactor(r, v, val) ==
  IF IsNode(r) /\ VarOf(r) = v
  THEN IF val THEN Node(r).hi ELSE Node(r).lo
  ELSE r

Enter(f, g, h) == [kind |-> "enter", f |-> f, g |-> g, h |-> h]
Combine(f, g, h, tv) ==
  [kind |-> "combine", f |-> f, g |-> g, h |-> h, tv |-> tv]

\* A slip: lo and hi change places.
EnterCofactorsSwapped(e, v, val) ==
  Enter(Cofactor(e.f, v, ~val), Cofactor(e.g, v, ~val), Cofactor(e.h, v, ~val))

EnterCofactors(e, v, val) ==
  Enter(Cofactor(e.f, v, val), Cofactor(e.g, v, val), Cofactor(e.h, v, val))
-----------------------------------------------------------------------------
(* The caller's calls. *)

Operands == Terminals \cup {held[k] : k \in Handles}

Init ==
  /\ buf = <<>>
  /\ bufLen = 0
  /\ unique = <<>>
  /\ numVars = 0
  /\ cache = [s \in 0 .. CacheSlots - 1 |-> EmptyEntry]
  /\ cacheLen = 0
  /\ held = [k \in Handles |-> FalseRef]
  /\ pc = "idle"
  /\ call = NoCall
  /\ stack = <<>>
  /\ results = <<>>
  /\ den = <<>>

\* Between calls, with room for one more.
CanCall == pc = "idle" /\ bufLen <= MaxLen

\* A slip: the variable gets no table.
NewVarWithoutTable ==
  /\ pc = "idle"
  /\ numVars < MaxVars
  /\ numVars' = numVars + 1
  /\ UNCHANGED <<arenaVars, cacheVars, held, loopVars>>

\* ensure_var: every table up to v's that is missing.
EnsureVar(v) ==
  unique' = [u \in DOMAIN unique \cup (0 .. v) |->
               IF u \in DOMAIN unique THEN unique[u] ELSE {}]

NewVar ==
  /\ pc = "idle"
  /\ numVars < MaxVars
  /\ numVars' = numVars + 1
  /\ EnsureVar(numVars)
  /\ UNCHANGED <<buf, bufLen, den, cacheVars, held, loopVars>>

\* constant, false, true: no access to the manager's state.
Constant(k) ==
  /\ pc = "idle"
  /\ \E r \in Terminals : held' = [held EXCEPT ![k] = r]
  /\ UNCHANGED <<arenaVars, numVars, cacheVars, loopVars>>

\* A caller of make_node keeps its assertions.
CallMakeNode(k) ==
  /\ CanCall
  /\ \E v \in 0 .. numVars - 1, lo, hi \in Operands, r \in Refs :
       /\ ~MakeNodePanics(v, lo, hi)
       /\ MakeNode(v, lo, hi, r)
       /\ held' = [held EXCEPT ![k] = r]
  /\ UNCHANGED <<numVars, cacheVars, loopVars>>

\* D is the function the caller asked for (history).
StartIte(k, f, g, h, then, D) ==
  /\ CanCall
  /\ pc' = "probe"
  /\ call' = [dest |-> k, f |-> f, g |-> g, h |-> h, then |-> then, want |-> D]
  /\ UNCHANGED <<arenaVars, numVars, cacheVars, held, stack, results>>

\* A slip: the operands of ite(f, TRUE, g) in another order.
OrSwapped(k) ==
  \E f, g \in Operands :
    StartIte(k, f, g, TrueRef, <<>>, Den(f) \cup Den(g))

Not(k) ==
  \E f \in Operands :
    StartIte(k, f, FalseRef, TrueRef, <<>>, TrueFn \ Den(f))

And(k) ==
  \E f, g \in Operands :
    StartIte(k, f, g, FalseRef, <<>>, Den(f) \cap Den(g))

Or(k) ==
  \E f, g \in Operands :
    StartIte(k, f, TrueRef, g, <<>>, Den(f) \cup Den(g))

\* xor is not(g), and then ite(f, its result, g).
Xor(k) ==
  \E f, g \in Operands :
    StartIte(k, g, FalseRef, TrueRef, <<[f |-> f, h |-> g]>>,
             XorFn(Den(f), Den(g)))

Ite(k) ==
  \E f, g, h \in Operands :
    StartIte(k, f, g, h, <<>>, IteFn(Den(f), Den(g), Den(h)))
-----------------------------------------------------------------------------
(* ite. *)

\* ite returns r: to the caller, or to xor, which calls ite again.
Return(r) ==
  \/ /\ call.then = <<>>
     /\ pc' = "idle"
     /\ held' = [held EXCEPT ![call.dest] = r]
     /\ call' = NoCall
  \/ /\ call.then # <<>>
     /\ pc' = "probe"
     /\ call' = [call EXCEPT !.f = call.then[1].f, !.g = r,
                             !.h = call.then[1].h, !.then = <<>>]
     /\ UNCHANGED held

Panic == pc' = "panic" /\ UNCHANGED <<held, call, stack, results>>

\* The trivial cases and the cache, before any stack is set up.
IteKnown ==
  /\ pc = "probe"
  /\ \E r \in Known(call.f, call.g, call.h) : Return(r)
  /\ UNCHANGED <<arenaVars, numVars, cacheVars, stack, results>>

IteBegin ==
  /\ pc = "probe"
  /\ Known(call.f, call.g, call.h) = {}
  /\ pc' = "loop"
  /\ stack' = <<Enter(call.f, call.g, call.h)>>
  /\ UNCHANGED <<arenaVars, numVars, cacheVars, held, call, results>>

PopEnter ==
  /\ pc = "loop"
  /\ stack # <<>>
  /\ Head(stack).kind = "enter"
  /\ UNCHANGED <<arenaVars, numVars, cacheVars, held, call>>

\* A frame whose result is known pushes it.
IteEnterKnown ==
  LET e == Head(stack) IN
  /\ PopEnter
  /\ \E r \in Known(e.f, e.g, e.h) : results' = <<r>> \o results
  /\ stack' = Tail(stack)
  /\ UNCHANGED pc

\* Any other frame becomes its two cofactors, lo on top, and their Combine.
IteExpand ==
  LET e  == Head(stack)
      tv == TopVar({e.f, e.g, e.h})
  IN
  /\ PopEnter
  /\ Known(e.f, e.g, e.h) = {}
  /\ IF \E r \in {e.f, e.g, e.h} : CofactorPanics(r, tv)
     THEN pc' = "panic" /\ UNCHANGED stack
     ELSE /\ stack' = <<EnterCofactors(e, tv, FALSE),
                        EnterCofactors(e, tv, TRUE),
                        Combine(e.f, e.g, e.h, tv)>> \o Tail(stack)
          /\ UNCHANGED pc
  /\ UNCHANGED results

\* A slip: Combine finds its children in the cache, and works both off again if
\* one put has evicted the other.
IteCombineCached ==
  /\ pc = "loop"
  /\ stack # <<>>
  /\ Head(stack).kind = "combine"
  /\ LET c == Head(stack)
         ins == [val \in BOOLEAN |-> EnterCofactors(c, c.tv, val)]
         out == [val \in BOOLEAN |-> Known(ins[val].f, ins[val].g, ins[val].h)]
     IN  IF {} \in {out[FALSE], out[TRUE]}
         THEN /\ stack' = <<ins[FALSE], ins[TRUE]>> \o stack
              /\ results' = Tail(Tail(results))
              /\ UNCHANGED <<arenaVars, cacheVars>>
         ELSE \E lo \in out[FALSE], hi \in out[TRUE], r \in Refs :
                /\ MakeNode(c.tv, lo, hi, r)
                /\ CachePut(c.f, c.g, c.h, r)
                /\ results' = <<r>> \o Tail(Tail(results))
                /\ stack' = Tail(stack)
  /\ UNCHANGED <<numVars, pc, held, call>>

\* Combine pops hi and then lo; either pop and make_node may panic.
IteCombine ==
  /\ pc = "loop"
  /\ stack # <<>>
  /\ Head(stack).kind = "combine"
  /\ IF Len(results) < 2 \/ MakeNodePanics(Head(stack).tv, results[2], results[1])
     THEN Panic /\ UNCHANGED <<arenaVars, cacheVars>>
     ELSE LET c == Head(stack) IN
          \E r \in Refs :
            /\ MakeNode(c.tv, results[2], results[1], r)
            /\ CachePut(c.f, c.g, c.h, r)
            /\ results' = <<r>> \o Tail(Tail(results))
            /\ stack' = Tail(stack)
            /\ UNCHANGED <<pc, held, call>>
  /\ UNCHANGED numVars

\* The loop ends with the work stack; the result is on the result stack.
IteReturn ==
  /\ pc = "loop"
  /\ stack = <<>>
  /\ IF results = <<>> \/ (DebugBuild /\ Len(results) # 1)
     THEN Panic
     ELSE Return(Head(results)) /\ results' = <<>> /\ UNCHANGED stack
  /\ UNCHANGED <<arenaVars, numVars, cacheVars>>

IteStep ==
  IteKnown \/ IteBegin \/ IteEnterKnown \/ IteExpand \/ IteCombine \/ IteReturn

Next ==
  \/ NewVar
  \/ \E k \in Handles :
       \/ Constant(k)
       \/ CallMakeNode(k)
       \/ Not(k)
       \/ And(k)
       \/ Or(k)
       \/ Xor(k)
       \/ Ite(k)
  \/ IteStep

Spec == Init /\ [][Next]_vars

\* ite runs on the caller's thread and waits for nothing.
Fairness == WF_vars(IteStep)
-----------------------------------------------------------------------------
(* Properties. *)

RawNodes == [var : Nat, lo : Nat, hi : Nat]
Calls ==
  [dest : Handles, f : Nodes, g : Nodes, h : Nodes, want : Functions,
   then : {<<>>} \cup {<<p>> : p \in [f : Nodes, h : Nodes]}]
Frames ==
  [kind : {"enter"}, f : Nodes, g : Nodes, h : Nodes]
    \cup [kind : {"combine"}, f : Nodes, g : Nodes, h : Nodes, tv : Vars]
Entries ==
  {EmptyEntry} \cup [f : Nodes, g : Nodes, h : Nodes, r : Nodes]

BytesTypeOK ==
  /\ Headers \subseteq 0 .. bufLen - 1
  /\ buf \in [Headers -> RawNodes]
  /\ bufLen \in 0 .. MaxOffset
  /\ numVars \in 0 .. MaxVars
  /\ den \in [Headers -> Functions]

\* A table for each variable; a rebuild makes one where there is no variable.
ArenaTypeOK ==
  /\ BytesTypeOK
  /\ unique \in [DOMAIN unique -> SUBSET Headers]
  /\ \/ DOMAIN unique = 0 .. numVars - 1
     \/ numVars = 0 /\ DOMAIN unique = {0}

CallTypeOK ==
  /\ cache \in [0 .. CacheSlots - 1 -> Entries]
  /\ cacheLen \in Nat
  /\ held \in [Handles -> Nodes]
  /\ pc \in {"idle", "probe", "loop", "panic"}
  /\ call \in Calls \cup {NoCall}
  /\ pc \in {"probe", "loop"} => call \in Calls
  /\ stack \in Seq(Frames)
  /\ results \in Seq(Nodes)

\* Every variable has the type its comment says, and every reference in it is
\* live: a terminal, or an offset at which a node starts (the fields of Manager
\* and the locals of ite).
TypeOK == ArenaTypeOK /\ CallTypeOK

\* Children come before their parent in the arena and after it in the variable
\* order, and differ: the arena is the reduced, ordered diagram make_node's
\* assertions are there for.
Reduced ==
  \A o \in Headers :
    LET n == Node(o) IN
    /\ n.var < numVars
    /\ n.lo # n.hi
    /\ \A c \in {n.lo, n.hi} :
         /\ c \in Nodes
         /\ c < o
         /\ IsNode(c) => VarOf(c) > n.var

\* Two references are equal exactly when their functions are: the canonicity
\* make_node keeps by its reduction, its ordering assertions and the unique
\* table (VWBDD.md 2.2).
Canonical == \A r, s \in Nodes : Den(r) = Den(s) => r = s

\* Each variable's table holds the offsets of its nodes and of no others, so
\* lookup can neither miss a node nor decode at an offset that starts none.
UniqueExact ==
  \A v \in DOMAIN unique : unique[v] = {o \in Headers : VarOf(o) = v}

\* A node stands for the function its bytes say, which does not depend on the
\* variables before its own.
Meaning ==
  \A o \in Headers :
    /\ den[o] = Shannon(VarOf(o), Den(Node(o).lo), Den(Node(o).hi))
    /\ \A u \in 0 .. VarOf(o) - 1 : IndependentOf(den[o], u)

\* Every variable fits the var byte, or the build asserts that it does.
VarsFit == DebugBuild \/ MaxVars <= VarRadix

\* The inductive invariant behind Canonical.
ArenaInv == ArenaTypeOK /\ Reduced /\ Meaning /\ UniqueExact /\ Canonical
IInv == ArenaInv /\ CallTypeOK

\* A filled slot of the apply cache names live nodes, and its result is the
\* ite of its key whatever was evicted or collected since.
CacheSound ==
  \A s \in DOMAIN cache :
    LET e == cache[s] IN
    e # EmptyEntry =>
      /\ {e.f, e.g, e.h, e.r} \subseteq Nodes
      /\ Den(e.r) = IteFn(Den(e.f), Den(e.g), Den(e.h))

\* One triple, one offset: the node make_node is asked for twice is the same
\* node (VWBDD.md 2.2, tests/manager.rs make_node_canonicalizes).
SameTripleSameOffset ==
  \A o, q \in Headers : Node(o) = Node(q) => o = q

\* The function a frame, or the call itself, is to yield.
FnOf(e) == IteFn(Den(e.f), Den(e.g), Den(e.h))

\* The functions of the result stack when frame e has been worked off rs.
After(e, rs) ==
  IF e.kind = "enter"
  THEN <<FnOf(e)>> \o rs
  ELSE <<Shannon(e.tv, rs[2], rs[1])>> \o Tail(Tail(rs))

\* The functions of the result stack after the first i frames of the work stack.
Pending[i \in 0 .. Len(stack)] ==
  IF i = 0
  THEN [j \in DOMAIN results |-> Den(results[j])]
  ELSE After(stack[i], Pending[i - 1])

\* What the frames still on ite's work stack make of the result stack is the
\* ite of the call's operands: no result is lost, duplicated or swapped.
WorkSound == pc = "loop" => Pending[Len(stack)] = <<FnOf(call)>>

\* A Combine finds the functions of its two cofactors, which come after tv.
CombineReady(e, rs) ==
  /\ e.tv < numVars /\ e.tv < VarRadix
  /\ Len(rs) >= 2
  /\ \A u \in 0 .. e.tv : IndependentOf(rs[1], u) /\ IndependentOf(rs[2], u)
  /\ FnOf(e) = Shannon(e.tv, rs[2], rs[1])

\* w is a way to work the stack off that ends with the call's function.
WorksOff(w) ==
  /\ w[0] = [j \in DOMAIN results |-> Den(results[j])]
  /\ \A i \in 1 .. Len(stack) :
       /\ w[i] = After(stack[i], w[i - 1])
       /\ stack[i].kind = "combine" => CombineReady(stack[i], w[i - 1])
  /\ w[Len(stack)] = <<FnOf(call)>>

\* Every call is on its way to the function its caller asked for: by its own
\* operands, or through xor's second call.
OnItsWay ==
  /\ pc = "idle" => call = NoCall
  /\ pc \in {"probe", "loop"} =>
       call.want = IF call.then = <<>>
                   THEN FnOf(call)
                   ELSE IteFn(Den(call.then[1].f), FnOf(call), Den(call.then[1].h))
  /\ pc # "loop" => results = <<>>

\* No assertion, expect or panic arm of ite, and none of make_node below it,
\* is ever reached by a caller that keeps make_node's own preconditions.
NoPanic == pc # "panic"

\* The inductive invariant behind NoPanic, CacheSound and WorkSound: each
\* Combine on the work stack will meet what its make_node and its entry in the
\* apply cache assume (manager.rs:497-547).
VarBytesFit == \A o \in Headers : VarOf(o) < VarRadix
IteInv ==
  /\ NoPanic
  /\ CacheSound
  /\ VarBytesFit
  /\ OnItsWay
  /\ pc = "loop" => WorksOff(Pending)

\* The caller sees Boolean functions: a call of NOT, AND, OR, XOR or ite is
\* answered by the function it asked for, and ite's turns are invisible.
Owed == IF call = NoCall THEN <<>> ELSE [dest |-> call.dest, fn |-> call.want]
BF == INSTANCE BoolFns WITH fn <- [k \in Handles |-> Den(held[k])], owed <- Owed
ImplementsBoolFns == BF!Spec

\* The same of the steps alone, from an arena that already holds nodes: each
\* call of ite and of the operators above it returns the function it should.
CallsAreBoolFns == BF!Steps

\* Every call of ite returns to its caller.
IteTerminates == pc \in {"probe", "loop"} ~> pc = "idle"
=============================================================================
