---------------------------- MODULE MCCollector ----------------------------
(***************************************************************************)
(* Instances of Collector for TLC: the whole engine from scratch, and      *)
(* collections of an arena whose nodes share their children.               *)
(***************************************************************************)
EXTENDS Collector, TLC

\* Every key hashes to one slot: each put evicts what was put before.
OneSlot(f, g, h) == 0

\* Neither the engine nor the collector looks at which handle is which.
HandleSymmetry == Permutations(Handles)
-----------------------------------------------------------------------------
\* The nodes make_node is called for, a child k > 0 being the k-th of them: x2,
\* NOT x2, x1 XOR x2, x1 XNOR x2, x1 AND x2, x0 XOR x1 XOR x2, x0 AND x1 AND x2,
\* and x2 AND (x1 OR NOT x0), whose child x2 is also its other child's.
Script ==
  << [var |-> 2, lo |-> FalseRef, hi |-> TrueRef],
     [var |-> 2, lo |-> TrueRef, hi |-> FalseRef],
     [var |-> 1, lo |-> 1, hi |-> 2],
     [var |-> 1, lo |-> 2, hi |-> 1],
     [var |-> 1, lo |-> FalseRef, hi |-> 1],
     [var |-> 0, lo |-> 3, hi |-> 4],
     [var |-> 0, lo |-> FalseRef, hi |-> 5],
     [var |-> 0, lo |-> 1, hi |-> 5] >>

\* The arena after the first n of those calls.
built[n \in 0 .. Len(Script)] ==
  IF n = 0
  THEN [buf |-> <<>>, len |-> 0, den |-> <<>>, offs |-> <<>>]
  ELSE LET b == built[n - 1]
           s == Script[n]
           at(c) == IF IsNode(c) THEN b.offs[c] ELSE c
           fn(c) == CASE c = FalseRef -> FalseFn
                      [] c = TrueRef -> TrueFn
                      [] OTHER -> b.den[b.offs[c]]
           raw == Encode(s.var, at(s.lo), at(s.hi), b.len)
       IN  [buf |-> Extend(b.buf, b.len, raw),
            len |-> b.len + NodeSize(raw),
            den |-> Extend(b.den, b.len, Shannon(s.var, fn(s.lo), fn(s.hi))),
            offs |-> Append(b.offs, b.len)]

\* Any handles on that arena.
SharedInit ==
  LET b == built[Len(Script)] IN
  /\ buf = b.buf
  /\ bufLen = b.len
  /\ den = b.den
  /\ numVars = 3
  /\ unique = [v \in 0 .. 2 |-> {o \in Headers : VarOf(o) = v}]
  /\ cache = [s \in 0 .. CacheSlots - 1 |-> EmptyEntry]
  /\ cacheLen = 0
  /\ held \in [Handles -> Nodes]
  /\ pc = "idle"
  /\ call = NoCall
  /\ stack = <<>>
  /\ results = <<>>
  /\ phase = "off"
  /\ base = 0
  /\ keep = <<>>
  /\ nextRoot = 1
  /\ gcStack = <<>>
  /\ oldTail = <<>>
  /\ remap = <<>>
  /\ postOrder = <<>>
  /\ oldDen = <<>>

\* Collection after collection, with nothing built in between.
SharedSpec == SharedInit /\ [][GcCall \/ GcStep]_allVars
=============================================================================
