---------------------------- MODULE UniqueTable ----------------------------
(***************************************************************************)
(* One variable's unique table (CompactUnique in src/unique.rs): slots of  *)
(* arena offsets and a parallel array of tags, linear probing, growth at   *)
(* three quarters and the rebuilding after a collection.  A turn of a loop *)
(* is a step.  A key is a node of the arena, known by its offset: to       *)
(* decode at the offset is to have the key.                                *)
(***************************************************************************)
EXTENDS Integers, FiniteSets

CONSTANTS
  Keys,        \* the offsets of the nodes, each with another (var, lo, hi)
  InitialCap,  \* INITIAL_CAP (1024 in the code)
  HashFns      \* unique_key_hash, any of these: its low bits and its top byte

ASSUME UniqueTableAssumption ==
  /\ Keys \subseteq Nat /\ IsFiniteSet(Keys)
  /\ InitialCap \in Nat \ {0}
  /\ \A f \in HashFns, k \in Keys : f[k].low \in Nat /\ f[k].top \in Nat

VARIABLES
  hash,      \* the hash function of this behaviour
  slots,     \* offset + 1, or 0
  tags,      \* 0 in an empty slot
  len,       \* entries
  resizeAt,  \* the most entries before the table grows
  newSlots,  \* resize's two new arrays
  newTags,
  pc,        \* which loop runs: idle, lookup, insert (about to), grow, move, probe
  key,       \* the key it runs for
  i,         \* the slot it probes
  at,        \* the slot whose entry resize moves
  todo,      \* the keys a rebuilding has yet to insert, key among them
  found,     \* the answer of the last lookup
  given      \* history: the keys the last rebuilding was given, and those since

tableVars == <<slots, tags, len, resizeAt>>
growVars == <<newSlots, newTags, at>>
vars == <<hash, tableVars, growVars, pc, key, i, todo, found, given>>

Cap == Cardinality(DOMAIN slots)
EmptySlots(c) == [j \in 0 .. c - 1 |-> 0]

\* tag_of_hash: the top byte with its low bit set, so never 0.
TagOf(k) == 2 * (hash[k].top \div 2) + 1

\* Where the probes for k begin in a table of c slots.
Home(k, c) == hash[k].low % c

Init ==
  /\ hash \in HashFns
  /\ slots = EmptySlots(InitialCap)
  /\ tags = EmptySlots(InitialCap)
  /\ len = 0
  /\ resizeAt = (InitialCap * 3) \div 4
  /\ newSlots = <<>>
  /\ newTags = <<>>
  /\ pc = "idle"
  /\ key = 0
  /\ i = 0
  /\ at = 0
  /\ todo = {}
  /\ found = FALSE
  /\ given = {}
-----------------------------------------------------------------------------
(* make_node: lookup, and insert when it found nothing. *)

Make(k) ==
  /\ pc = "idle"
  /\ pc' = "lookup"
  /\ key' = k
  /\ i' = Home(k, Cap)
  /\ UNCHANGED <<hash, tableVars, growVars, todo, given, found>>

\* One turn of lookup's loop: the end of the chain, the key, or the next slot.
Lookup ==
  /\ pc = "lookup"
  /\ \/ /\ tags[i] = 0
        /\ pc' = "insert"
        /\ UNCHANGED <<i, found>>
     \/ /\ tags[i] = TagOf(key)
        /\ slots[i] - 1 = key
        /\ pc' = "idle"
        /\ found' = TRUE
        /\ UNCHANGED i
     \/ /\ tags[i] # 0
        /\ tags[i] # TagOf(key) \/ slots[i] - 1 # key
        /\ i' = (i + 1) % Cap
        /\ UNCHANGED <<pc, found>>
  /\ UNCHANGED <<hash, tableVars, growVars, key, todo, given>>

\* insert goes on to its own loop, in a table of c slots.
StartProbe(c) == pc' = "probe" /\ i' = Home(key, c)

\* A slip: the table never grows.
InsertWithoutResize ==
  /\ pc = "insert"
  /\ StartProbe(Cap)
  /\ UNCHANGED <<hash, tableVars, growVars, key, todo, given, found>>

\* insert, up to its loop or into resize, whose new arrays have twice the slots.
Insert ==
  /\ pc = "insert"
  /\ \/ /\ len + 1 <= resizeAt
        /\ StartProbe(Cap)
        /\ UNCHANGED growVars
     \/ /\ len + 1 > resizeAt
        /\ newSlots' = EmptySlots(2 * Cap)
        /\ newTags' = EmptySlots(2 * Cap)
        /\ at' = 0
        /\ pc' = "grow"
        /\ UNCHANGED i
  /\ UNCHANGED <<hash, tableVars, key, todo, given, found>>

\* A slip: an entry is moved to the slot of its index.
GrowInPlace ==
  /\ pc = "grow"
  /\ at < Cap
  /\ IF tags[at] = 0
     THEN at' = at + 1 /\ UNCHANGED <<pc, i>>
     ELSE pc' = "move" /\ i' = at /\ UNCHANGED at
  /\ UNCHANGED <<hash, tableVars, newSlots, newTags, key, todo, given, found>>

\* resize's loop: an empty slot is passed over, an entry's own loop begins.
Grow ==
  /\ pc = "grow"
  /\ at < Cap
  /\ IF tags[at] = 0
     THEN at' = at + 1 /\ UNCHANGED <<pc, i>>
     ELSE pc' = "move" /\ i' = Home(slots[at] - 1, 2 * Cap) /\ UNCHANGED at
  /\ UNCHANGED <<hash, tableVars, newSlots, newTags, key, todo, given, found>>

\* A slip: an entry goes where it hashes to, whatever is there.
MoveOver ==
  /\ pc = "move"
  /\ newSlots' = [newSlots EXCEPT ![i] = slots[at]]
  /\ newTags' = [newTags EXCEPT ![i] = TagOf(slots[at] - 1)]
  /\ at' = at + 1
  /\ pc' = "grow"
  /\ UNCHANGED <<hash, tableVars, i, key, todo, given, found>>

\* One turn of that inner loop: the next slot, or the entry's.
Move ==
  /\ pc = "move"
  /\ IF newTags[i] # 0
     THEN i' = (i + 1) % (2 * Cap) /\ UNCHANGED <<newSlots, newTags, at, pc>>
     ELSE /\ newSlots' = [newSlots EXCEPT ![i] = slots[at]]
          /\ newTags' = [newTags EXCEPT ![i] = TagOf(slots[at] - 1)]
          /\ at' = at + 1
          /\ pc' = "grow"
          /\ UNCHANGED i
  /\ UNCHANGED <<hash, tableVars, key, todo, given, found>>

\* resize returns to insert.
Grown ==
  /\ pc = "grow"
  /\ at = Cap
  /\ slots' = newSlots
  /\ tags' = newTags
  /\ resizeAt' = (2 * Cap * 3) \div 4
  /\ newSlots' = <<>>
  /\ newTags' = <<>>
  /\ at' = 0
  /\ StartProbe(2 * Cap)
  /\ UNCHANGED <<hash, len, key, todo, given, found>>

\* The arena's order is that of the offsets.
Least(S) == CHOOSE k \in S : \A m \in S : k <= m

\* One turn of insert's loop; a rebuilding goes on with its next key.
Probe ==
  /\ pc = "probe"
  /\ IF tags[i] # 0
     THEN i' = (i + 1) % Cap /\ UNCHANGED <<slots, tags, len, pc, key, todo, given, found>>
     ELSE /\ slots' = [slots EXCEPT ![i] = key + 1]
          /\ tags' = [tags EXCEPT ![i] = TagOf(key)]
          /\ len' = len + 1
          /\ todo' = todo \ {key}
          /\ given' = given \cup {key}
          /\ IF todo \subseteq {key}
             THEN pc' = "idle" /\ found' = (found /\ todo # {}) /\ UNCHANGED key
             ELSE pc' = "insert" /\ key' = Least(todo') /\ UNCHANGED found
          /\ UNCHANGED i
  /\ UNCHANGED <<hash, resizeAt, growVars>>
-----------------------------------------------------------------------------
(* rebuild_from_arena. *)

\* INITIAL_CAP doubled e times.
Doubled[e \in Nat] == IF e = 0 THEN InitialCap ELSE 2 * Doubled[e - 1]

\* A slip: the table is sized for its entries, not for its load.
CapForEntries(n) ==
  CHOOSE c \in {Doubled[e] : e \in 0 .. n} :
    c >= n /\ (c = InitialCap \/ c \div 2 < n)

\* The slots resize_for gives n entries.
CapFor(n) ==
  LET needed == (n * 4 + 2) \div 3 IN
  CHOOSE c \in {Doubled[e] : e \in 0 .. n} :
    c >= needed /\ (c = InitialCap \/ c \div 2 < needed)

\* resize_for: the table is emptied and sized for n entries.
ResizeFor(n) ==
  /\ slots' = EmptySlots(CapFor(n))
  /\ tags' = EmptySlots(CapFor(n))
  /\ len' = 0
  /\ resizeAt' = (CapFor(n) * 3) \div 4

\* A slip: the arena is read from its second node on.
RebuildLate(S) ==
  /\ pc = "idle"
  /\ ResizeFor(Cardinality(S))
  /\ todo' = {k \in S : \E m \in S : m < k}
  /\ given' = S
  /\ IF todo' = {}
     THEN UNCHANGED <<pc, key>>
     ELSE pc' = "insert" /\ key' = Least(todo')
  /\ UNCHANGED <<hash, growVars, i, found>>

\* What the arena now holds is put in again, in arena order.
Rebuild(S) ==
  /\ pc = "idle"
  /\ ResizeFor(Cardinality(S))
  /\ todo' = S
  /\ given' = S
  /\ IF S = {}
     THEN UNCHANGED <<pc, key>>
     ELSE pc' = "insert" /\ key' = Least(S)
  /\ UNCHANGED <<hash, growVars, i, found>>

Step == Lookup \/ Insert \/ Grow \/ Move \/ Grown \/ Probe

Next ==
  \/ \E k \in Keys : Make(k)
  \/ \E S \in SUBSET Keys : Rebuild(S)
  \/ Step

\* A call runs on its caller's thread and waits for nothing.
Spec == Init /\ [][Next]_vars /\ WF_vars(Step)
-----------------------------------------------------------------------------
(* Properties. *)

LiveIn(tg) == {j \in DOMAIN tg : tg[j] # 0}
HeldIn(sl, tg) == {sl[j] - 1 : j \in LiveIn(tg)}
Live == LiveIn(tags)
Held == HeldIn(slots, tags)

\* The slots from h to j, the way a probe goes in a table of c slots.
Chain(h, j, c) ==
  {s \in 0 .. c - 1 : IF h <= j THEN h <= s /\ s <= j ELSE h <= s \/ s <= j}

\* The counters say what the arrays hold: len is the entries, resizeAt three
\* quarters of the slots, and a tag is that of its slot's key (unique.rs:25-32).
TableOK ==
  /\ DOMAIN tags = DOMAIN slots
  /\ len = Cardinality(Live)
  /\ len = Cardinality(Held)
  /\ resizeAt = (3 * Cap) \div 4
  /\ len <= resizeAt
  /\ \A j \in Live : slots[j] - 1 \in Keys /\ tags[j] = TagOf(slots[j] - 1)

\* No empty slot lies between the slot an entry hashes to and the one it is in.
Unbroken(sl, tg, c) ==
  \A j \in LiveIn(tg) : Chain(Home(sl[j] - 1, c), j, c) \subseteq LiveIn(tg)

\* So lookup, which stops at an empty slot, comes to the entry.
ChainsUnbroken == Unbroken(slots, tags, Cap)

\* Nothing gets lost: the slots, and while a rebuilding is under way the arena's
\* nodes still to come, are what the caller gave the table (manager.rs:730-756,
\* unique.rs:126-151).
HoldsGiven == Held \cup todo = given

\* A rebuilding never grows the table it sized (manager.rs:728, "avoiding a
\* cascade of resizes").
RebuildNeverGrows ==
  [][todo # {} => DOMAIN slots' = DOMAIN slots]_vars

Inserting == pc \in {"insert", "grow", "move", "probe"}
Asking == pc = "lookup" \/ (Inserting /\ todo = {})
KS == INSTANCE KeySet WITH
  keys <- given,
  wanted <- IF Asking THEN {key} ELSE {},
  left <- todo
\* The table is the set of offsets that Manager has for it: a lookup finds what
\* the caller gave it and nothing else, whatever collided, grew or was rebuilt.
ImplementsKeySet == KS!Spec

\* Every probe ends: the table never fills.
CallsReturn == pc # "idle" ~> pc = "idle"
-----------------------------------------------------------------------------
(* The inductive invariant. *)

\* Two arrays of c slots that hold each key once, each in its unbroken chain.
ArraysOK(sl, tg, c) ==
  /\ sl \in [0 .. c - 1 -> Nat]
  /\ tg \in [0 .. c - 1 -> Nat]
  /\ \A j \in LiveIn(tg) : sl[j] - 1 \in Keys /\ tg[j] = TagOf(sl[j] - 1)
  /\ \A j, k \in LiveIn(tg) : sl[j] = sl[k] => j = k
  /\ Unbroken(sl, tg, c)

\* A probe for k has come from k's home to slot j over live slots.
OnChain(k, j, tg, c) ==
  /\ j \in 0 .. c - 1
  /\ Chain(Home(k, c), j, c) \ {j} \subseteq LiveIn(tg)

\* The keys resize has moved.
Moved == {slots[j] - 1 : j \in {s \in Live : s < at}}

TypeOK ==
  /\ hash \in HashFns
  /\ len \in Nat /\ resizeAt \in Nat /\ at \in Nat
  /\ pc \in {"idle", "lookup", "insert", "grow", "move", "probe"}
  /\ pc # "idle" => key \in Keys
  /\ todo \in SUBSET Keys
  /\ found \in BOOLEAN

\* What holds at each turn of each loop.  The rebuilding's own table has room
\* for all it has yet to insert, and resize loses no entry.
TableInv ==
  /\ TypeOK
  /\ Cap \in Nat \ {0}
  /\ ArraysOK(slots, tags, Cap)
  /\ len = Cardinality(Held)
  /\ resizeAt = (3 * Cap) \div 4
  /\ len + Cardinality(todo) <= resizeAt
  /\ todo \cap Held = {}
  /\ todo # {} => pc \in {"insert", "probe"} /\ key \in todo
  /\ pc = "lookup" => /\ OnChain(key, i, tags, Cap)
                      /\ \A s \in Chain(Home(key, Cap), i, Cap) \ {i} :
                           slots[s] - 1 # key
  /\ Inserting => key \notin Held
  /\ pc = "probe" => OnChain(key, i, tags, Cap) /\ len + 1 <= resizeAt
  /\ pc \in {"grow", "move"} => /\ ArraysOK(newSlots, newTags, 2 * Cap)
                                /\ HeldIn(newSlots, newTags) = Moved
                                /\ at <= Cap
  /\ pc = "move" => at \in Live /\ OnChain(slots[at] - 1, i, newTags, 2 * Cap)
=============================================================================
