-------------------------------- MODULE Leb --------------------------------
(***************************************************************************)
(* An arena as bytes (src/leb.rs, and the layout of a node in codec.rs),   *)
(* and the scan that reads it back node by node.  A byte read is a step.   *)
(* The bytes may be cut short, as those of a slab that lost its end.       *)
(***************************************************************************)
EXTENDS Codec

CONSTANTS
  Word,     \* values of the decoder's word (2^128 in the code)
  Nodes,    \* nodes by their fields: the var byte and two child codes
  MaxNodes  \* bound on the nodes written

Fields == [var : 0 .. VarRadix - 1, lo : 0 .. Word - 1, hi : 0 .. Word - 1]

ASSUME LebAssumption ==
  /\ Word \in Nat
  /\ Nodes \subseteq Fields
  /\ MaxNodes \in Nat

\* A slip: the codes the other way round.
NodeBytesSwapped(n) == <<n.var>> \o EncodeU128(n.hi) \o EncodeU128(n.lo)

\* encode_node.
NodeBytes(n) == <<n.var>> \o EncodeU128(n.lo) \o EncodeU128(n.hi)

VARIABLES
  written,  \* the nodes written
  ends,     \* history: where each of them ends
  arena,    \* their bytes
  bytes,    \* what is scanned: the arena's bytes, perhaps cut short
  pos,      \* bytes read
  field,    \* what the next byte belongs to: var, lo or hi
  node,     \* the node under way
  weight,   \* 2^shift: where the next group of its number goes
  found,    \* the nodes read, each with the offset it starts at
  pc        \* write, read, or how the scan ended: end, overflow or truncated

arenaVars == <<written, ends, arena>>
vars == <<arenaVars, bytes, pos, field, node, weight, found, pc>>

NoNode == [at |-> 0, var |-> 0, lo |-> 0, hi |-> 0]

Init ==
  /\ written = <<>>
  /\ ends = <<>>
  /\ arena = <<>>
  /\ bytes = <<>>
  /\ pos = 0
  /\ field = "var"
  /\ node = NoNode
  /\ weight = 1
  /\ found = <<>>
  /\ pc = "write"

\* make_node appends a node's bytes.
Write(n) ==
  /\ pc = "write"
  /\ Len(written) < MaxNodes
  /\ written' = Append(written, n)
  /\ arena' = arena \o NodeBytes(n)
  /\ ends' = Append(ends, Len(arena'))
  /\ UNCHANGED <<bytes, pos, field, node, weight, found, pc>>

\* The scan begins, of the first len bytes.
Scan(len) ==
  /\ pc = "write"
  /\ pc' = "read"
  /\ bytes' = SubSeq(arena, 1, len)
  /\ UNCHANGED <<arenaVars, pos, field, node, weight, found>>

Reading == pc = "read" /\ pos < Len(bytes)

ReadVar ==
  /\ Reading
  /\ field = "var"
  /\ node' = [NoNode EXCEPT !.at = pos, !.var = bytes[pos + 1]]
  /\ field' = "lo"
  /\ pos' = pos + 1
  /\ UNCHANGED <<arenaVars, bytes, weight, found, pc>>

\* A slip: the word is taken for full a group too early.
FullEarly(w) == w * Radix >= Word

\* shift >= 128: nothing more fits.
Full(w) == w >= Word

\* The node under way with the group in the byte b added to its number: bits
\* shifted out of the word are gone.
GroupAdded(b) == [node EXCEPT ![field] = @ + (((b % Radix) * weight) % Word)]

\* A marked group: the number goes on.
ReadGroup ==
  /\ Reading
  /\ field \in {"lo", "hi"}
  /\ bytes[pos + 1] >= Radix
  /\ node' = GroupAdded(bytes[pos + 1])
  /\ weight' = weight * Radix
  /\ pc' = IF Full(weight') THEN "overflow" ELSE "read"
  /\ pos' = pos + 1
  /\ UNCHANGED <<arenaVars, bytes, field, found>>

\* A slip: the shift goes on from one number to the next.
ReadLastOn ==
  /\ Reading
  /\ field \in {"lo", "hi"}
  /\ bytes[pos + 1] < Radix
  /\ node' = GroupAdded(bytes[pos + 1])
  /\ field' = IF field = "lo" THEN "hi" ELSE "var"
  /\ found' = IF field = "hi" THEN Append(found, node') ELSE found
  /\ pos' = pos + 1
  /\ UNCHANGED <<arenaVars, bytes, weight, pc>>

\* The last group of a number, and with the second number the node.
ReadLast ==
  /\ Reading
  /\ field \in {"lo", "hi"}
  /\ bytes[pos + 1] < Radix
  /\ node' = GroupAdded(bytes[pos + 1])
  /\ weight' = 1
  /\ field' = IF field = "lo" THEN "hi" ELSE "var"
  /\ found' = IF field = "hi" THEN Append(found, node') ELSE found
  /\ pos' = pos + 1
  /\ UNCHANGED <<arenaVars, bytes, pc>>

\* A slip: running out of bytes ends the number under way.
NoMoreLenient ==
  /\ pc = "read"
  /\ pos = Len(bytes)
  /\ pc' = "end"
  /\ found' = IF field = "hi" THEN Append(found, node) ELSE found
  /\ UNCHANGED <<arenaVars, bytes, pos, field, node, weight>>

\* No byte is left: the scan is over, or decode_u128 panics.
NoMore ==
  /\ pc = "read"
  /\ pos = Len(bytes)
  /\ pc' = IF field = "var" THEN "end" ELSE "truncated"
  /\ UNCHANGED <<arenaVars, bytes, pos, field, node, weight, found>>

Turn == ReadVar \/ ReadGroup \/ ReadLast \/ NoMore

Next ==
  \/ \E n \in Nodes : Write(n)
  \/ \E len \in 0 .. Len(arena) : Scan(len)
  \/ Turn

Spec == Init /\ [][Next]_vars /\ WF_vars(Turn)
-----------------------------------------------------------------------------
(* Properties. *)

\* Where the first k nodes end.
End(k) == IF k = 0 THEN 0 ELSE ends[k]

\* A scan finds the nodes that were written, in order, each where Codec says it
\* starts, which is what the arena of Manager, Collector and Exchange is built
\* on: whatever was cut off, never another node (codec.rs:75-96).
ScanFindsNodes ==
  /\ Len(found) <= Len(written)
  /\ \A k \in DOMAIN found :
       /\ found[k].at = IF k = 1 THEN 0
                        ELSE found[k - 1].at + NodeSize(written[k - 1])
       /\ \A f \in {"var", "lo", "hi"} : found[k][f] = written[k][f]

\* A scan ends in silence only between two nodes, of which it found the first:
\* bytes cut elsewhere panic as truncated, and no number an encoder wrote
\* overflows (leb.rs:26-30).
CutsAreSeen ==
  /\ pc = "end" => Len(bytes) = End(Len(found))
  /\ pc = "truncated" => \A k \in 0 .. Len(written) : Len(bytes) # End(k)
  /\ pc # "overflow"

\* An arena as encode_node left it is read to its end, and all of it is found.
WholeArenaRead ==
  (pc = "read" /\ bytes = arena) ~> (pc = "end" /\ Len(found) = Len(written))
-----------------------------------------------------------------------------
(* The inductive invariant. *)

\* The arena is its nodes' bytes, one after the other.
ArenaInv ==
  /\ written \in Seq(Nodes) /\ ends \in Seq(Nat) /\ Len(ends) = Len(written)
  /\ arena \in Seq(Nat) /\ Len(arena) = End(Len(written))
  /\ \A k \in 1 .. Len(written) :
       /\ End(k) = End(k - 1) + NodeSize(written[k])
       /\ \A i \in 1 .. NodeSize(written[k]) :
            arena[End(k - 1) + i] = NodeBytes(written[k])[i]
  /\ \A j, k \in 0 .. Len(written) : j < k => End(j) < End(k)

\* The bytes from pos on begin with those of left, what of code is still to
\* come: read is what came before it.
Numbered(code, read, left) ==
  /\ read + weight * left = code
  /\ weight = 1 \/ left > 0
  /\ \A i \in 1 .. LebLen(left) : arena[pos + i] = EncodeU128(left)[i]

\* How far the scan has come in the node after those it found.
ScanInv ==
  LET k == Len(found)
      n == written[k + 1]
  IN  /\ field \in {"var", "lo", "hi"} /\ weight \in Nat \ {0}
      /\ node \in [at : Nat, var : Nat, lo : Nat, hi : Nat]
      /\ field = "var" => weight = 1 /\ pos = End(k)
      /\ field # "var" => /\ k < Len(written)
                          /\ node.at = End(k) /\ node.at < pos
                          /\ node.var = n.var
      /\ field = "lo" =>
           /\ node.hi = 0
           /\ \E left \in 0 .. Word - 1 :
                /\ Numbered(n.lo, node.lo, left)
                /\ pos + LebLen(left) + LebLen(n.hi) = End(k + 1)
      /\ field = "hi" =>
           /\ node.lo = n.lo
           /\ \E left \in 0 .. Word - 1 :
                /\ Numbered(n.hi, node.hi, left)
                /\ pos + LebLen(left) = End(k + 1)

LebInv ==
  /\ ArenaInv
  /\ bytes \in Seq(Nat) /\ Len(bytes) <= Len(arena)
  /\ \A i \in DOMAIN bytes : bytes[i] = arena[i]
  /\ pos \in 0 .. Len(bytes)
  /\ found \in Seq([at : Nat, var : Nat, lo : Nat, hi : Nat])
  /\ Len(found) <= Len(written)
  /\ \A k \in DOMAIN found :
       found[k] = [at |-> End(k - 1), var |-> written[k].var,
                   lo |-> written[k].lo, hi |-> written[k].hi]
  /\ ScanInv
  /\ pc \in {"write", "read", "end", "truncated"}
  /\ pc = "write" => bytes = <<>> /\ found = <<>> /\ field = "var"
  /\ pc = "end" => pos = Len(bytes) /\ field = "var"
  /\ pc = "truncated" => pos = Len(bytes) /\ field # "var"
=============================================================================
