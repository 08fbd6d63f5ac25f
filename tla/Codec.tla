------------------------------- MODULE Codec -------------------------------
(***************************************************************************)
(* References, nodes and their encoding (src/codec.rs).                    *)
(*                                                                         *)
(* A Ref is an integer: Terminal(false) is -2, Terminal(true) is -1 and    *)
(* Node(off) is off itself.  A node in the arena is kept as what its bytes *)
(* say, the var byte and the two child codes; Decode turns the codes into  *)
(* references relative to the offset the node starts at.                   *)
(***************************************************************************)
EXTENDS Integers, FiniteSets, Sequences

CONSTANTS
  Radix,     \* values of one LEB128 group (128 in the code)
  VarRadix,  \* values of the var byte (256 in the code)
  MaxOffset  \* the largest arena offset (u64::MAX in the code)

ASSUME CodecAssumption ==
  /\ Radix \in Nat \ {0, 1}
  /\ VarRadix \in Nat \ {0}
  /\ MaxOffset \in Nat

FalseRef == -2
TrueRef == -1
Terminals == {FalseRef, TrueRef}
Offsets == 0 .. MaxOffset
Refs == Terminals \cup Offsets

IsNode(r) == r \notin Terminals

\* The child code of r in a node that starts at cur.
RefToCode(r, cur) ==
  CASE r = FalseRef -> 0
    [] r = TrueRef  -> 1
    [] OTHER        -> 2 + (cur - r)

CodeToRef(code, cur) ==
  CASE code = 0 -> FalseRef
    [] code = 1 -> TrueRef
    [] OTHER    -> cur - (code - 2)

\* The node's bytes: the var byte keeps v modulo VarRadix.
Encode(v, lo, hi, cur) ==
  [var |-> v % VarRadix,
   lo  |-> RefToCode(lo, cur),
   hi  |-> RefToCode(hi, cur)]

\* The node that starts at offset o of the bytes b.
Decode(b, o) ==
  [var |-> b[o].var,
   lo  |-> CodeToRef(b[o].lo, o),
   hi  |-> CodeToRef(b[o].hi, o)]

\* encode_u128: groups from the least on, marked while something is left.
EncodeU128(code) ==
  LET enc[x \in Nat] ==
        IF x < Radix THEN <<x>>
        ELSE <<Radix + (x % Radix)>> \o enc[x \div Radix]
  IN  enc[code]

\* The bytes LEB128 takes for a code.
LebLen(code) == Len(EncodeU128(code))

\* The bytes of an encoded node: the var byte and its two codes.
NodeSize(raw) == 1 + LebLen(raw.lo) + LebLen(raw.hi)
=============================================================================
