# vwbdd in TLA+

vwbdd is a single-threaded BDD engine. Nodes are written, variable-width, at the
end of an append-only byte buffer; children are back-pointer deltas; a unique
table per variable keeps the diagram canonical; `ite` runs on an explicit work
stack with a direct-mapped apply cache; a generational collector compacts the
tail of the buffer. This directory holds TLA+ modules of that engine, the TLC
instances that check them and TLAPS proofs about them.

## 1. Inventory

| Component | Source | State | Operations | What makes it correct |
|---|---|---|---|---|
| Node codec | `codec.rs`, `leb.rs` | none | `ref_to_code`, `code_to_ref`, `encode_node`, `decode_node`, LEB128 | a node read where it was written is the node; the var fits its byte |
| Unique table | `unique.rs` | per variable: slots, tags, length, growth threshold | `lookup`, `insert`, `resize`, `resize_for`, `ensure_var`, `reset_for` | it holds exactly the arena's nodes; a probe ends |
| BDD engine | `manager.rs` | arena, `num_vars`, unique table, apply cache | `new_var`, constants, `make_node`, `ite`, `not`, `and`, `or`, `xor` | equal functions are equal references; each call returns the right function |
| Apply cache | `manager.rs` | a fixed array of slots | get, put, flush | an entry's result is the ite of its key, now |
| Garbage collector | `manager.rs` | locals of `gc`: remap, walk stack, post-order, old tail | `gc`, `drop_roots` | roots keep their functions, the base its bytes, the tail is clean |
| Slab / Diff exchange | `slab.rs` | bytes and roots in transit | `slab_for`, `ingest_slab`, `diff_since`, `apply_diff`, `extend_slab` | a received reference means what the sender's did |
| Slab queries | `slab.rs` | memo tables | `support`, `sat_count` | they agree with the function |
| Apply statistics | `manager.rs` | process-wide relaxed atomics and a gate | enable, bump, snapshot, reset | counts are of the calls made while enabled |
| Multiplier workload | `examples/` | none of the engine's | builds a multiplier from the operators, samples the counters | (a client; only the sampling is modelled) |
| Configuration, `MemStats` | `manager.rs` | none | constructors, getters | the slot count is a power of two, at least 2 |

How they meet: the operators call `ite`; `ite` reads the cache, decodes nodes,
calls `make_node` and writes the cache; `make_node` asks the unique table, which
decodes candidates from the arena, and appends. `gc` cuts the arena, writes the
survivors back, rebuilds the unique table from the arena's bytes and flushes the
cache. The exchange copies arena bytes out and in, and calls `gc` first so that
what leaves is clean. The caller's references are plain offsets: nothing tells
the engine which are still held.

What is hard: within a process nothing is concurrent but the statistics; between
processes, publications arrive late, twice or never. The other difficulty is in
long sequences of legal calls over state that is easily left stale: a cache that
evicts in the middle of a computation, a table that must agree with bytes,
offsets that change meaning under a collection, the order of pushes and pops on
three stacks, and boundaries (the base, the variable order, the var byte).
`PROJECT.json` lists these hazards line by line.

## 2. Modules

| Module | What it is |
|---|---|
| `Codec` | references, child codes, nodes as their bytes say them, sizes |
| `BoolAlgebra` | Boolean functions as sets of assignments; Shannon expansion, ite |
| `BoolFns` | the abstract specification: handles to Boolean functions |
| `Manager` | the engine: `EXTENDS Codec, BoolAlgebra` |
| `Collector` | the collector over the engine: `EXTENDS Manager` |
| `BoolGc` | the abstract specification with collections: `EXTENDS BoolFns` |
| `BoolShare` | the abstract specification of two services that exchange functions: `EXTENDS BoolGc` |
| `Diagram` | what the nodes of a diagram given by its bytes stand for: `EXTENDS Codec, BoolAlgebra` |
| `Exchange` | slabs and diffs between two engines: `EXTENDS Collector, Diagram` |
| `KeySet` | the abstract specification of one unique table: a set |
| `UniqueTable` | the table itself: slots, tags, probing, growth, rebuilding |
| `Leb` | an arena written and read as bytes: `EXTENDS Codec` |
| `Queries` | `support` and `sat_count` on a slab: `EXTENDS Diagram` |
| `ApplyStats` | the counters, the sampling harness and other threads |
| `MCManager`, `MCCollector`, `MCExchange`, `MCUniqueTable`, `MCLeb`, `MCQueries` | instances for TLC |
| `Manager_proofs` | proofs about `Manager`: the arena, canonicity, the unique table as a set; `ite`'s loop and cache, the engine as `BoolFns`, the end of each call |
| `Collector_proofs` | proofs about `gc`: the walk, the copy, the engine with it as `BoolGc`, the end of each collection |
| `Diagram_proofs` | lemmas about naturals, ranks, the codec, Boolean functions and diagrams, for the other proofs |
| `Exchange_proofs` | proofs about the exchange: what is received, and the two processes as `BoolShare` |
| `Queries_proofs` | proofs about `support` and `sat_count` |
| `Leb_proofs` | proofs about `Leb`: the layout of a node, the numbers, the scan |
| `UniqueTable_proofs` | proofs about `UniqueTable`: chains, counters, sizes, the table as a `KeySet`, the end of each call |
| `ApplyStats_proofs` | proofs about the counters and what a sample of them holds |

### Codec

A reference is an integer: -2 and -1 are the terminals, 0 and above an offset.
The arena maps the offset at which a node starts to the values of its three
fields (var byte, lo code, hi code). Codes are kept, not the references they
stand for: `Decode` turns them into references relative to the offset they are
read at, so the same bytes read elsewhere are another node, and the var byte is
`v % VarRadix`. LEB128 counts through the length of a node, which decides where
the next one starts.

### Manager

| TLA+ | Code |
|---|---|
| `buf`, `bufLen` | `Manager.buf`: where nodes start, and its length |
| `unique` | `UniqueTables`: for each variable, the offsets its table holds |
| `numVars` | `num_vars` |
| `cache`, `cacheLen`, `IteSlot` | `ite_cache`, `ite_cache_len`, hash and mask |
| `held` | the references the caller keeps (not state of the engine) |
| `pc`, `call`, `stack`, `results` | the call of `ite` under way, its operands (and, as history, the function asked for) and its two stacks |
| `den` | history: the function each node stands for |

`NewVar`, `Constant` and `CallMakeNode` are whole calls. `Not`, `And`, `Or`,
`Xor` and `Ite` set up a call of `ite`. Its turns are actions: `IteKnown` (trivial
case or cache hit, before the stacks exist), `IteBegin`, `IteEnterKnown`,
`IteExpand`, `IteCombine` (two pops, `make_node`, the cache put and the push, as
one turn of the loop) and `IteReturn`. `xor` calls `ite` twice; `call.then` holds
the second call. Every `expect`, `panic!` and assertion that a state could reach
leads to `pc = "panic"`, which has no successor. `DebugBuild` says whether the
`debug_assert!`s are compiled in. A caller of `make_node` is assumed to keep its
documented assertions, since breaking them is the caller's panic; `ite` is not.

`IteSlot` is a constant: the properties do not depend on the hash, and a slot
function that sends every key to one slot makes every put evict.

The history variable `den` is what makes the properties say something: it is set
once, when a node is appended, from the functions its bytes point to then. If
bytes, offsets or tables later disagree, the function recorded and the node
decoded part ways, and `Meaning` or the refinement fails.

### Collector

A call of `gc` is cut at the turns of its loops. `Gc` is the call: the assertion
that the base is within the arena, the early return when nothing is above it, and
`GcBegin`, which sets the tail aside; `GcRoot`, `GcEnter` and `GcExit` are the
depth-first walk (frames are pushed before a node is marked, so a shared node can
be on the stack more than once, as in the code); `GcTruncate` cuts the arena and
clears the marks; `GcCopy` translates and re-encodes one node; `GcFinish` rebuilds
the unique table, flushes the cache and translates the roots. `translate`'s
`expect` and a failed assertion lead to `"panic"`. The caller passes any handles as roots, in any order,
and any boundary of the arena as base, as an earlier length of it always is. Afterwards it holds the returned roots and
what it held below the base; a handle above the base that was no root is given up
(`VWBDD.md` 2.3: the caller's references are invalid after a collection).

### BoolFns and BoolGc, and how they are implemented

`BoolFns` has three variables: the function behind each handle, the number of
variables, and what the service owes for the call under way. A caller declares a
variable, makes a branch, or asks for NOT, AND, OR, XOR or if-then-else of functions
it holds; what is asked is stated with set operations, never through ite. The
answer is exactly the function asked for. `Manager` implements it with
`fn <- [k \in Handles |-> Den(held[k])]` and `owed` read off the call: the call's
history field `want` is fixed when the caller calls, from what the operator's name
means. A call is asked when it begins and answered when it returns, and all of
ite's turns (for xor, those of both calls) stutter.

`BoolGc` adds one variable, `kept`. A collection is told which handles to keep when
it begins (`Collect`), takes no call while it runs, and when it ends (`Collected`)
the kept handles stand for what they stood for and the others are given up: nothing
else is allowed, so a collection that returned its placeholders, or lost one root,
is none. `Collector` implements it with the functions the handles had when the
collection began, while one is under way, and with `Kept`: its roots, and the handles
that are terminals or below the base. The walk and the copy stutter.

### Exchange and BoolShare

Two processes, each with a whole engine, share nothing but a wire. One runs at a
time: the variables of `Manager` and `Collector` are the running one's, `other`
holds the manager of the one that rests, and `Switch` exchanges them between two
calls. This loses no interleaving, since a call touches only its own manager; the
wire is the only thing both see, and it only grows. A publication is never taken
off it, which gives loss, duplication and reordering without further actions.

| TLA+ | Code |
|---|---|
| `wire` | the `Slab`s and `Diff`s a caller has got: kind, base length, bytes, roots; `fns`, as history, what the published handles meant when the call was made |
| `baseLen` | the length a caller records after a publication or a receipt |
| `SlabFor`, `DiffSince`, `Collect`, `Publish` | `slab_for`, `diff_since`: the collection, turn by turn, then the bytes taken |
| `Received` | the append and the rebuilt table, of a manager as a record |
| `IngestSlab`, `ApplyDiff` | the assertion, then `Received`; a failed assertion ends the process before it changed anything (`Abort`), and the process begins again empty, as after `NewProcess`; the same in `DiffSince` for a base past the end |
| `Declaring`, `ExtendSlab` | `extend_slab` up to its callback, whose calls are `Work`: a new manager with the base's variables declared, which receives the base; `DiffSince` is its end |
| `NewProcess` | a crash, or the end of a process: everything but the wire is lost |

`LineageNext` is the discipline a caller keeps, which the documentation asks for
and the code does not check: one process, the server, publishes a slab and then
diffs, each on the length it recorded last; the other, the client, receives what
it likes when it likes, but a diff only while its arena is as long as after its
last receipt, and only once it has declared the variables of what it receives
(`slab.rs:310`). Between receipts both call their managers as they like.
`LineageInv` is what that preserves (section 4).

A collection and a receipt rebuild the tables (`unique_rebuild_from_arena`), and
`reset_for` ensures a table for the greatest variable it counts, or for variable 0
when it counts none: an engine without variables may so have one, empty, table
(`Tables`, `ArenaTypeOK`).

`Meanings` recomputes what every node stands for from the bytes received, so
`den` on the receiver's side owes nothing to the sender's. A code that lands
inside a node reads as a node nobody wrote. `BoolShare` says what callers see:
whoever receives holds the functions of some publication, unchanged, and
everything else a process holds stays as it was or, after a restart, is gone.
`BoolShare` does not say which publication, since a receipt and a restart with
another one would look alike to it; `ReceiptsMeanSent` does, of each receipt.

### UniqueTable and KeySet

`slots` and `tags` are the two arrays; a key is the offset of a node, since to
decode at an offset is to have the triple. `Make` is `make_node`'s `lookup`,
followed by `insert` when it finds nothing; `Lookup` and `Probe` are single turns
of the two probing loops. `insert` enters `resize` when the load is at its
threshold: `Grow` is a turn of the loop over the old slots, `Move` one of the
probe that places an entry in the new arrays, `Grown` the return. `Rebuild`
is the pre-sizing of `resize_for`; the insertions that follow go without a
lookup, in arena order (`Least`). The hash function is chosen once per behaviour.
`KeySet` is the set `Manager` and `Collector` keep for a table: it changes when a
key is asked for, and when a rebuilding is given another set, whose keys are then
put back one by one before anything else happens. The set is not read off the
slots: it is mapped to the history variable `given`, what the caller gave the
table, so that a lookup's answer is compared with that. `HoldsGiven` says that the
slots hold it at every turn. `UniqueTable` implements `KeySet`, so abstracting the
table to a set in the other modules loses nothing.

### Leb, Queries, ApplyStats

`Leb` appends nodes as `make_node` and `encode_node` do (`Write`), cuts the bytes
anywhere (`Scan`), and reads them a byte at a time: a var (`ReadVar`), a marked group
(`ReadGroup`), the last group of a number and with it perhaps the node (`ReadLast`),
or the end (`NoMore`). `weight` is `2 ^ shift`. `EncodeU128` and `NodeSize` are
those of `Codec`, so the offsets at which the scan finds the nodes are the ones the
engine's arena has. `LebInv` is the invariant of the scan.
`Queries` asks for `support` (a step is a turn of its loop)
and `sat_count` (one step: it is a pure recursion; fractions are integers over
`2 ^ MaxVars`, rounded at each node to `Precision` bits, ties to even). Its slab is
any reduced, ordered and canonical one (`CleanSlab`), as an engine's arena is.
`WalkInv` is the invariant of the walk.
`ApplyStats` takes each store, load and `fetch_add` as a step. All of them are
`Relaxed`: the harness, the only writer of the gate, sees its own last store;
another thread may see any store made so far; and a load of a counter may miss
what other threads added.

## 3. Runs

| Run | Instance | What it shows |
|---|---|---|
| `engine_from_scratch` | 2 variables, 2 handles, every slot the same | from the empty engine, any sequence of calls: types, exact unique table, canonicity, the proofs' invariant, and each call is a call of `BoolFns` (264 000 states) |
| `ite_three_vars` | 3 declared variables, 2 slots with colliding keys | every operator on three variables: the stacks stay in step, the cache stays right, nothing panics, the proofs' invariant of the loop holds, functions are right, calls return (98 000 states) |
| `gc_whole_engine` | as the first, with collections | calls and collections in any order: the engine is intact after each, and what is kept keeps its function (1.3 million states) |
| `gc_shared_dag` | 8 nodes, 3 variables, shared children | collections in a row from every pair of held references, every base, every list of roots: no node is entered twice, copy, translation, base and tail, the proofs' invariant of a collection (184 000 states) |
| `exchange_lineage` | 2 processes, 2 variables, 3 publications | one server publishes, one client receives in any order, restarts and computes: engine, bytes, lengths and each receipt's functions are right, the proofs' invariant holds (557 000 states) |
| `unique_table` | 4 slots, 6 keys, 3 hash functions | chains stay whole and no key is lost over growth and rebuilding, the table is a set, the proofs' invariant (its counters, tags and load among it) holds at every turn, probes end (140 000 states) |
| `leb_scan` | up to 2 nodes, codes at each group boundary, every cut | the scan finds what was written and notices a cut, the proofs' invariant holds at every byte (200 000 states) |
| `slab_queries` | 768 slabs of 4-variable functions, 2-bit floats | support is dependence, small counts are exact, the walk is linear, the proofs' invariant holds at every turn (87 000 states) |
| `apply_stats` | 2 sampled runs, 2 probes of another thread | a sample is its run, give or take what others added since the reset |
| `var_byte_wrap` | release build, `VarRadix = 2`, 3 variables | **violation**: one triple at two offsets (section 6) |
| `exchange_careless` | the client may build nodes before it receives | **violation**: a diff on another base of equal length |
| `sat_count_wide` | release build, as many variables as bits of the word | **violation**: a count of one comes out as 1/16 |

Bounds. `Radix = 4` stands for 128: with arenas of tens of bytes, child deltas
cross one and two group boundaries, so nodes have different lengths and
collections change them. `VarRadix` is 256 in the code;
4 exceeds every variable of the passing runs. `MaxLen` bounds when a call may
begin (a call under way is never cut off); `MaxOffset = 60` is above what any call
then reaches, and no run stops there: deadlock is checked, but for the two runs
named below.
Two variables have 16 functions and let an order, a reduction and a shared child
go wrong; three are needed for an operand that skips a level between two others
and for a node with two parents in different places, which is what the second
and fourth runs are for. The second run starts from the three projections and
may build above them once per behaviour; results are held and used again. The
fourth starts from an arena `make_node` leaves when called for x2, NOT x2,
x1 XOR x2, x1 XNOR x2, x1 AND x2, x0 XOR x1 XOR x2, x0 AND x1 AND x2 and x2 AND
(x1 OR NOT x0); the last has x2 for a child and for a child's child, which the walk
pushes twice before it leaves it once. Two
handles are enough for two roots that share nodes and for one root with one
reference given up.
Symmetry of the handles is used only in runs without liveness.

The exchange runs use two handles and two variables: enough for a root shared
with a scratch node, for a tail whose children are in the base, and for a
collection that moves a node across a group boundary. Three publications are a
slab, a diff on it and a diff on that, the least with a diff that can come too
early, too late and twice. `SmallNext` is `LineageNext` with fewer calls: the
server applies NOT and AND, the client NOT, and each rests only while its arena is
as it published or received it, which loses nothing, since the processes' calls
commute. `exchange_careless` drops the rule that the client's arena is as it was
received for `apply_diff`.

`UniqueTable` starts with 4 slots for 1024 and `Keys` of six fill the table to
the threshold of 4 and of 8 slots; rebuilding visits every subset. The hash
functions are the extremes: one chain that wraps around the end of the array with
equal tags, three chains that run into each other across the end, and keys
spread with pairwise equal tags. `leb_scan` has radix 8 for 128, a word that a
third group fills in part (as a nineteenth does 128 bits). `Precision = 2` makes
fractions round at inner nodes of four-variable functions, which 53 bits would
need dozens of variables for. `CHECK_DEADLOCK FALSE` is said where a program
ends: the scan, and the harness after its last run.

Fairness. `ite`, the table's loops and the scan run on the caller's thread: once
called, they have no one to wait for, and the processor takes their next step.
`Fairness` is weak fairness of `IteStep`; in `UniqueTable` and `Leb` it is that of
the loops' turns. A collection and `support` need none: that they end is said by
their ranks (`GcRunsOut`, `SupportProgress`, section 4) and by runs that find no
panic and no deadlock. The caller owes nothing: no call is ever assumed to be made.

Slips. Beside several definitions stands a second one commented "A slip": the
definition with a plausible bug. Each property is known to fail when its slip
takes the definition's place (`PROJECT.json`, `mutants`).

## 4. Proofs

`Manager_proofs` proves, for any number of variables, handles, cache slots, any
slot function and any radix, under `VarsFit` (every variable fits the var byte, or
the build asserts that it does):

| Theorem | Statement |
|---|---|
| `Invariance` | `Spec => []IInv` |
| `TypeCorrect` | `Spec => []TypeOK`: no reference anywhere dangles |
| `Canonicity` | `Spec => []Canonical`: equal functions, equal references |
| `TableExact` | `Spec => []UniqueExact` |
| `OneOffsetPerTriple` | `Spec => []SameTripleSameOffset` |

`Canonical` is not inductive. A new node could equal an old one's function if
children could be out of order, equal, or unknown to the table. `IInv` adds what
rules that out: `Reduced` (children precede their parent in the arena, follow it
in the variable order, and differ), `Meaning` (a node's function is the Shannon
expansion of its decoded children's, and does not depend on variables above its
own), `UniqueExact` (a failed lookup means there is no such node) and the types.
The argument for an append (`AppendInv`): the new function depends on v
(`ShannonDepends`, since its children differ and do not depend on v); an old
reference with the same function is then a node on v (a node on a variable above
depends on it and the new function does not; a node below cannot depend on v); by
`ShannonInjective` its cofactors equal the new children's functions, by canonicity
of the old arena they are the same children, and by `UniqueExact` the lookup would
have found it. The bytes enter through `RoundTrip` and `VarByte`. One lemma per
action shows the invariant preserved; the calls and turns of `ite` that touch no
arena reduce to `SameArena`, the others to `MakeNodeInv`.

Of the loop of `ite` it proves, under the same assumption:

| Theorem | Statement |
|---|---|
| `IteInvariance` | `Spec => []IteInv` |
| `NeverPanics` | `Spec => []NoPanic`: no `expect`, assertion or panic arm is reached |
| `CacheCorrect` | `Spec => []CacheSound`: a cached result is the ite of its key |
| `NoWorkLost` | `Spec => []WorkSound`: the two stacks make up the call's function |
| `EngineIsBoolFns` | `Spec => ImplementsBoolFns`: the refinement, step by step |
| `WarmEngine` | the same from any arena with the invariant (`CallsAreBoolFns`), which is how a run starts from a prepared one |
| `IteRunsOut` | every turn lowers a rank (see "The end of every call") |

`WorkSound` says what the loop will return, not why it can go on: that needs
`IteInv`. A run (`WorksOff`) is what the result stack will hold after each frame
still on the work stack; it begins with the functions of the result stack and
ends with the call's one function, and where it passes a `Combine`, that frame
will find two functions that do not depend on variables up to its own and whose
Shannon expansion is the function it stands for (`CombineReady`). These are the
assertions of `make_node` and the truth of the cache entry, long before the two
pops. `IteExpand` inserts three frames and keeps the run (`ite` commutes with
Shannon expansion; the cofactors by the least variable are at hand in the nodes),
`IteCombine` takes the run's first step, and a frame that is known is its own
step. The cache stays sound because functions of nodes never change and a put
writes a proved result. `OnItsWay` ties the call to what the operator's name means,
through xor's second call. In the refinement a caller's action is `BoolFns`'
question, the return its answer, and every other turn a stutter.

`Collector_proofs` proves of the engine with collections between its calls:

| Theorem | Statement |
|---|---|
| `GcInvariance` | `GcSpec => []GcInv` |
| `GcNeverPanics` | `GcSpec => []NoPanic`: `translate` always finds its copy |
| `EngineSurvivesGc` | `GcSpec => []EngineIntact` |
| `CopiesKeepFns` | `GcSpec => []CopySound` |
| `CopiesAreDistinct` | `GcSpec => []CopyOneToOne` |
| `BaseNeverMoves` | `GcSpec => BaseUntouched` (an action property) |
| `NoGarbageKept` | `GcSpec => CleanTail` (an action property) |
| `CollectorIsBoolGc` | `GcSpec => GcImplementsBoolGc`: the refinement; what a collection keeps keeps its function |
| `NodesEnteredOnce` | `GcSpec => []WalkEntersOnce`: the walk is linear in the tail |
| `GcRunsOut` | every turn lowers a rank |

Between collections `GcInv` is the engine's own invariant. During one it has three
parts. The old arena, in place during the walk and as the copy `gc` took of its
tail afterwards, is canonical. The walk lists children before parents: every
child of a frame to be left is listed or above it on the stack, whatever was
pushed twice, and every listed or stacked node is a root or a child of one
entered (`WalkSound`). The new tail is the image of the nodes copied, whose
children are copied: so a copy's decoded children are the images of its
original's, by canonicity of the old arena two nodes never have one copy, a copy
is never reduced and its function is its original's (`CopyInv`). When the list is
empty the new arena is canonical without one lookup, and the rebuilt table is
exact. In `BoolGc` the call is `Collect` and the last step `Collected`, with the same
set of handles, since the roots and the base do not change in between; all other
steps stutter. `NodesEnteredOnce` needs two more facts of the walk: all that lies
above an exit on the stack precedes its node in the arena (`Descending`), and no
node whose exit is on the stack is marked (`ExitsUnmarked`). The marks are needed for
that and not for the walk to end, which it would do in any acyclic diagram.

`UniqueTable_proofs` proves, for any keys, capacity and hash functions:

| Theorem | Statement |
|---|---|
| `TableInvariance` | `Spec => []TableInv` |
| `CountersRight` | `Spec => []TableOK`: counters, tags and load |
| `ChainsWhole` | `Spec => []ChainsUnbroken` |
| `NeverFull` | an empty slot is left at every turn, for a probe to end at |
| `SizedForRebuild` | `Spec => RebuildNeverGrows` (an action property) |
| `NothingLost` | `Spec => []HoldsGiven`: the slots hold what the caller gave |
| `TableIsKeySet` | `Spec => ImplementsKeySet`: the refinement |
| `TurnsRunOut` | every turn lowers a rank |

`ChainsUnbroken` is preserved by a write only where a probe has come over live
slots, so `TableInv` says that of every probe under way (`OnChain`), of lookup's
that it has not passed its key, and of both pairs of arrays while `resize` runs,
whose new pair holds what is behind it (`Moved`). Lookup's answer at an empty slot
follows: an entry for the key would have its whole chain live, the empty slot
would be outside of it, and so the probe would have passed the entry
(`ChainMeets`). The load counts the keys a rebuilding has yet to insert, which
makes `CapForFits` (a capacity of at least (4n + 2) / 3 has a threshold of at
least n) enough for `SizedForRebuild`.

`Queries_proofs` proves of `support` and `sat_count`, for any clean slabs of any size:

| Theorem | Statement |
|---|---|
| `WalkInvariance` | `Spec => []WalkInv` |
| `WalkLinear` | `Spec => []WalkIsLinear`: no node is decoded twice, and the stack stays short |
| `SupportCorrect` | `Spec => []SupportIsDependence` |
| `SupportProgress` | every turn of the walk leaves less of it |
| `SatCountCorrect` | `Spec => [](counted.nvars < ShiftBits => SatCountExact)` |

`WalkInv` says that a decoded node's children are decoded or on the stack, that the
variables listed are those of the nodes decoded, and that all of these are reached
from the root. When the stack is empty the decoded nodes are so closed under
children. That the root's function depends on no other variable goes from the
leaves up; that it depends on each listed one goes from a decoded node up its
parents, each of which depends on what either child does (its own variable is
less) and, by its children's difference, on its own variable.

`SatCountExact` is false as it stands, which is the finding `sat_count_wide`:
`nvars` may be up to 256, and a shift has 64 bits. `SatCountCorrect` is about every
count over fewer variables than that. The argument: a node's fraction is its count over the assignments to the
variables after it, in units of `2 ^ -MaxVars`. A count of at most
`2 ^ Precision` of which every rounding unit is a divisor is not changed by
rounding (`UnitDivides`, `FloatExact`). The counts below a node are at most its
own, so where a root's count fits, the fractions of all nodes below it are exact,
whatever is rounded in the rest of the slab (`FractionExact`, by downward induction
over the variables). A variable that a child skips doubles the count and leaves
the fraction (`CountDoubles`); a node's own variable splits its assignments into
those of its children (`PartSplit`, `CountAdds`). The recursion of `sat_frac` and the
powers of two are defined by `SatFracDef` and `Pow2Def`.

`Exchange_proofs` proves of two engines in a lineage, for any number of handles,
variables and publications and any calls in between:

| Theorem | Statement |
|---|---|
| `LineageInvariance` | `LineageSpec => []LineageInv` |
| `ReceivedEngineIntact` | `LineageSpec => []ReceiverIntact`: a received diagram is as good as one built |
| `ExchangeNeverPanics` | `LineageSpec => []NoPanic` |
| `RecordedLengthIsBase` | `LineageSpec => []LengthIsBase`: equal recorded lengths are equal bytes |
| `ReceivedBytesClean` | `LineageSpec => []CleanBytes` |
| `LineageDiffsMeanSent` | `LineageSpec => DiffMeansSent`, which `exchange_careless` violates |
| `ReceiptsDeliver` | `LineageSpec => ReceiptsMeanSent`: each receipt delivers its own publication |
| `ExchangeIsBoolShare` | `LineageSpec => BS!ShareInit /\ ImplementsBoolShare`: the refinement |

`LengthIsBase` is about two managers of which one is at rest, and says nothing of
why their bytes agree. `LineageInv` does. The manager that runs satisfies `GcInv`;
the one that rests is `Sound`, which says the same of a record (`RestIsSound` and
`SoundRuns` turn one into the other at each `Switch`). `Shared` ties both to the
wire. A publication is a stretch of what the server still holds, since a later
collection never goes below the length recorded (`GcKeeps`) and the engine only
appends (`NextKeeps`); stretches follow one another without a gap and without a node
cut, up to the server's recorded length; each node of one is a root or a child in
it; and its roots mean, in the server's arena, what was asked. The client holds
the server's bytes up to the end of some stretch (`SameBelow`). Equal bytes at
equal offsets are equal nodes, so they mean the same (`PrefixMeans`, by induction
over offsets, since children precede their parents). A diff that passes the
length check therefore grafts the server's next stretch onto the server's own
bytes (`GraftIsPrefix`), the grafted arena is a prefix of the server's, and a
prefix of a canonical arena is canonical (`ReceivedIsSound`). While the server
collects for a publication, `EmitInv` keeps the functions asked for and, when the
collection is over, what `CleanTail` says of the tail. In `BoolShare` a receipt is
the only step in which functions pass from one process to the other; the rest of
the exchange is a step of `BoolGc`, a restart, or a stutter. `ReceiptsDeliver` adds
which functions: the roots mean in the receiver's arena what they meant in the
server's (`RootsMean`), and the receiver's own nodes lie below the bytes added and
mean what they meant (`ReceiptKeepsFns`).

Assumptions. `VarsFit` is the only one on the code's input; `var_byte_wrap` shows
that it is needed. `Handles` is finite (`CollectorAssumption`): the roots a caller
passes are a list. `Keys` is finite: offsets have 64 bits. The others give the
constants their types and least values. Where an argument is an induction (the
runs of `ite`, the doublings of a capacity, the least node copied wrongly), it
goes over a set of naturals (`SetInduction` in `Diagram_proofs`), since the provers cannot instantiate the
library's theorems about a predicate; that recursive functions (`Doubled`) are
defined at each of their arguments is proved in the same way.

`Leb_proofs` proves, for any radix above one, any word, any nodes whose codes fit
it and any number of them, cut anywhere:

| Theorem | Statement |
|---|---|
| `ScanInvariance` | `Spec => []LebInv` |
| `ScanCorrect` | `Spec => []ScanFindsNodes`: the nodes that were written, each where it starts |
| `CutsSeen` | `Spec => []CutsAreSeen`: no silent end within a node, no overflow |
| `WholeArena` | a scan of uncut bytes that is over found every node |
| `ScanProgress` | every turn of a scan leaves less of it |

`ScanFindsNodes` speaks of the nodes already found; `LebInv` adds what the one under
way will be. `ArenaInv` says where each node ends and what its bytes are (`NodeAt`).
Within a number `Numbered` splits the code that was written into what was read and
what is left at the present weight, and says that the next bytes encode what is
left. A marked group is then the remainder and leaves the quotient, a weight higher
(`MarkedGroup`, `GroupArithmetic`); nothing is shifted out of the word, since what is
added is no more than the code; and the weight stays below the word as long as
something is left, so that the decoder does not stop too early (`NumberGoesOn`). The
last group makes the code and ends where the next number begins (`NumberEnds`). That
a scan cut within a node stops strictly between two ends is what makes a truncation
one that no silent end could be. That the encoder's recursion is defined at
every number, and yields a nonempty sequence of numbers, is `GroupsDefined` and
`GroupsType` in `Diagram_proofs`.

`ApplyStats_proofs` proves, for any threads and any number of runs and probes:

| Theorem | Statement |
|---|---|
| `CountsInvariance` | `Spec => []CountsInv` |
| `SampleCorrect` | `Spec => []SampleIsTheRun` |

`SampleIsTheRun` bounds the sums of a complete sample. `CountsInv` says why they
come out so: what the harness itself added to a counter is what the counter holds
less what others added (`Own`); it is zero for the counters already reset
(`ResetInv`); during a run the harness' own events and own patterns both make the
number of its calls but for those its probe under way has yet to bump (`RunInv`); and
what was read of a counter is at least its own part and at most all of it
(`SampleInv`). What a thread that sees an old gate adds is in
the counter and in what others added alike.

The end of every call. Liveness is beyond these provers, for it needs `ENABLED` and
fairness; but the reason for it is not. Five theorems say that every turn of a call
lowers a rank:

| Theorem | Rank, in lexicographic order |
|---|---|
| `IteRunsOut` | what of the call is to come (xor's second part, probe, loop); for each variable the frames that enter a node not after it; the frames |
| `GcRunsOut` | the phases to come; the roots to come; the nodes of the tail not entered; the frames of the walk, or the nodes to copy |
| `TurnsRunOut` | the keys to insert; the loops to come; the slots to move from; the slots the probe has yet to try |
| `SupportProgress` | twice the nodes not decoded, plus the stack (one number) |
| `ScanProgress` | the bytes to come, and the end (one number) |

The order is the library's lexicographic product of the naturals, and `LowerEnds`
proves, from the library's theorem, that it has no endless descent. So no call
takes infinitely many turns, and what the runs alone show of `IteTerminates`,
`CallsReturn` and `WholeArenaRead` is that a call that is not over has a turn and,
by fairness, takes it; of `gc` and `support` they show, by the absence of deadlock,
that it has one. Each rank needs a reason a test would not
give. A frame of `ite` becomes two: both are below it in the variable order (by
`Reduced`), so the frames at its variable are one fewer. The collector's walk pushes
shared children again, and pops a node it finds visited: but it never enters a node
whose exit is still on the stack, since all that lies above an exit precedes the
node in the arena (`Descending`), so that entering is always progress. A probe
comes nearer to the slot before the one it started at, and an empty slot, which
there is by `NotFull`, comes before that. Where a step ends in a panic the rank need
not fall, and the invariants say there is none.

Only model-checked. Liveness under fairness, as said: `IteTerminates`,
`CallsReturn` and `WholeArenaRead` (whose other half, that a scan that is over has
read the whole arena, is `WholeArena`). Every other property of a passing run is a
theorem.

## 5. Not modelled

A base inside a node, given to `gc` or `diff_since`: both assert only that it is not
past the end, and would decode bytes nobody wrote as a node; a caller has its base
from `buf_len()`. `extend_slab`'s own manager beside the caller's: the model's server
goes on in it (`ExtendSlab`), where the code drops it with its call; its caller's
manager is the state before, and is untouched since the two share nothing.
Bytes that no encoder wrote (overlong numbers, codes beyond 64 bits, a corrupted
slab that is not merely cut): no operation of the crate produces them. A receiver
that has not declared the variables it is sent (see above). `MemStats` and
the getters, which only read and format. The examples' multiplier circuit, a client
of the operators; its reachable-node count is the walk of `support` over again. The
merge of several workers' diffs (`VWBDD.md:1269`): the code has none, and
`apply_diff` refuses the second diff. `ManagerConfig`:
one check at construction. `lib.rs`, `node.rs`: re-exports and aliases.
Allocation failure and the exhaustion of 64-bit offsets. Two harnesses that toggle
the gate at once: the code has one.

## 6. Findings

`var_byte_wrap`. `encode_node` stores `var as u8`; only a `debug_assert!` keeps the
variable below 256 (`codec.rs:77`). In a release build variable 256 is written as
0. The lookup compares the whole variable with the decoded byte, so the node is
never found again and the same triple is appended at a second offset, against
`VWBDD.md:83` ("same triple → same offset") and the scale `unique.rs:197` names
("fewer than 1000 vars"). `OneOffsetPerTriple` proves that `VarsFit` is all that is
missing.

`exchange_careless`. `apply_diff` compares lengths (`slab.rs:272`).
`tests/slab.rs:10` says the check "catches a corrupted base" and
`tests/slab.rs:216` asks for "a loud panic" where the base does not match; a base
of equal length and other bytes passes, and the roots returned are other
functions. `exchange_lineage` shows what keeps a disciplined client safe:
`LengthIsBase`, one length is one base.

`sat_count_wide`. `1u64 << nvars` (`slab.rs:151`) overflows at 64 variables: a panic
in a debug build, a shift by `nvars % 64` in a release build. `slab.rs:137-142`
promises counts "exact up to 2^53" with no bound on the variables; the conjunction
of 64 variables, with one model, is not counted as one.

## 7. Plan

1. Larger instances: three processes on one wire, a third variable in the exchange.
2. A decoder's side of `Leb` for bytes no encoder wrote, should the crate come to
   accept slabs from elsewhere.
