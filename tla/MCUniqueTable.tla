--------------------------- MODULE MCUniqueTable ---------------------------
(***************************************************************************)
(* Instances of UniqueTable for TLC: hash functions from one that sends    *)
(* every key to the last slot to one that spreads keys and repeats tags.   *)
(***************************************************************************)
EXTENDS UniqueTable

Clustered == [k \in Keys |-> [low |-> 15, top |-> 2]]
Wrapping == [k \in Keys |-> [low |-> 13 + 3 * (k % 3), top |-> k % 4]]
Spread == [k \in Keys |-> [low |-> 5 * k, top |-> k]]
SomeHashFns == {Clustered, Wrapping, Spread}
=============================================================================
