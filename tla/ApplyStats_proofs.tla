------------------------- MODULE ApplyStats_proofs -------------------------
(***************************************************************************)
(* Proofs about the probe counters: a sample is the run it was taken of.   *)
(***************************************************************************)
EXTENDS ApplyStats, TLAPS
-----------------------------------------------------------------------------
(* The counters, their order, and what is left of a probe. *)

LEMMA OrderFacts ==
  /\ ResetOrder = ReadOrder
  /\ Len(ReadOrder) = 7
  /\ DOMAIN ReadOrder = 1 .. 7
  /\ \A n \in 1 .. 7 : ReadOrder[n] \in Counters
  /\ \A c \in Counters : \E n \in 1 .. 7 : ReadOrder[n] = c
  /\ \A m, n \in 1 .. 7 : ReadOrder[m] = ReadOrder[n] => m = n
<1>1. ResetOrder = ReadOrder
  BY DEF ReadOrder, ResetOrder
<1>2. Len(ReadOrder) = 7 /\ DOMAIN ReadOrder = 1 .. 7
  BY DEF ReadOrder
<1>3. \A n \in 1 .. 7 : n = 1 \/ n = 2 \/ n = 3 \/ n = 4 \/ n = 5 \/ n = 6 \/ n = 7
  OBVIOUS
<1>4. /\ ReadOrder[1] = "hits" /\ ReadOrder[2] = "coll" /\ ReadOrder[3] = "empty"
      /\ ReadOrder[4] = "and" /\ ReadOrder[5] = "or" /\ ReadOrder[6] = "not"
      /\ ReadOrder[7] = "other"
  BY DEF ReadOrder
<1>5. \A n \in 1 .. 7 : ReadOrder[n] \in Counters
  BY <1>3, <1>4 DEF Counters, Events, Patterns
<1>6. \A c \in Counters : \E n \in 1 .. 7 : ReadOrder[n] = c
  <2> TAKE c \in Counters
  <2>1. \/ c = "hits" \/ c = "coll" \/ c = "empty"
        \/ c = "and" \/ c = "or" \/ c = "not" \/ c = "other"
    BY DEF Counters, Events, Patterns
  <2>2. \A n \in {1, 2, 3, 4, 5, 6, 7} : n \in 1 .. 7
    OBVIOUS
  <2> QED
    BY <1>4, <2>1, <2>2
<1>7. \A m, n \in 1 .. 7 : ReadOrder[m] = ReadOrder[n] => m = n
  BY <1>3, <1>4
<1> QED
  BY <1>1, <1>2, <1>5, <1>6, <1>7

\* A probe in hand has its event and perhaps its pattern to bump, the pattern
\* first.
LEMMA PendingFacts ==
  ASSUME NEW s \in Pending, s # <<>>
  PROVE  /\ Tail(s) \in Pending
         /\ Len(s) \in {1, 2}
         /\ Len(s) = 1 => Head(s) \in Events /\ Tail(s) = <<>>
         /\ Len(s) = 2 => Head(s) \in Patterns /\ Len(Tail(s)) = 1
<1>1. CASE \E e \in Events : s = <<e>>
  <2>1. PICK e \in Events : s = <<e>>
    BY <1>1
  <2>2. Len(s) = 1 /\ Head(s) = e /\ Tail(s) = <<>>
    BY <2>1
  <2> QED
    BY <2>1, <2>2 DEF Pending
<1>2. CASE \E p \in Patterns, e \in Events : s = <<p, e>>
  <2>1. PICK p \in Patterns, e \in Events : s = <<p, e>>
    BY <1>2
  <2>2. Len(s) = 2 /\ Head(s) = p /\ Tail(s) = <<e>> /\ Len(<<e>>) = 1
    BY <2>1
  <2> QED
    BY <2>1, <2>2 DEF Pending
<1> QED
  BY <1>1, <1>2 DEF Pending

LEMMA EmptyPending == <<>> \in Pending /\ Len(<<>>) = 0
BY DEF Pending

\* One more in a counter is one more in the sum it is part of.
LEMMA SumsBump ==
  ASSUME NEW f \in [Counters -> Int], NEW c \in Counters
  PROVE  LET g == [f EXCEPT ![c] = f[c] + 1] IN
         /\ c \in Events =>
              EventsOf(g) = EventsOf(f) + 1 /\ PatternsOf(g) = PatternsOf(f)
         /\ c \in Patterns =>
              EventsOf(g) = EventsOf(f) /\ PatternsOf(g) = PatternsOf(f) + 1
<1>1. \/ c = "hits" \/ c = "coll" \/ c = "empty"
      \/ c = "and" \/ c = "or" \/ c = "not" \/ c = "other"
  BY DEF Counters, Events, Patterns
<1> QED
  BY <1>1 DEF EventsOf, PatternsOf, Counters, Events, Patterns

LEMMA SumsType ==
  ASSUME NEW f \in [Counters -> Int]
  PROVE  /\ EventsOf(f) \in Int /\ PatternsOf(f) \in Int
         /\ (\A c \in Counters : f[c] = 0) => EventsOf(f) = 0 /\ PatternsOf(f) = 0
BY DEF EventsOf, PatternsOf, Counters, Events, Patterns

\* A sum of more is more.
LEMMA SumsGrow ==
  ASSUME NEW f \in [Counters -> Int], NEW g \in [Counters -> Int],
         \A c \in Counters : f[c] <= g[c]
  PROVE  EventsOf(f) <= EventsOf(g) /\ PatternsOf(f) <= PatternsOf(g)
BY DEF EventsOf, PatternsOf, Counters, Events, Patterns

LEMMA SumsAdd ==
  ASSUME NEW f \in [Counters -> Int], NEW g \in [Counters -> Int],
         NEW h \in [Counters -> Int], \A c \in Counters : h[c] = f[c] + g[c]
  PROVE  /\ EventsOf(h) = EventsOf(f) + EventsOf(g)
         /\ PatternsOf(h) = PatternsOf(f) + PatternsOf(g)
<1>1. EventsOf(h) = EventsOf(f) + EventsOf(g)
  <2>1. PICK a \in Int, b \in Int, c \in Int, p \in Int, q \in Int, r \in Int :
          /\ a = f["hits"] /\ b = f["coll"] /\ c = f["empty"]
          /\ p = g["hits"] /\ q = g["coll"] /\ r = g["empty"]
    BY DEF Counters, Events
  <2>2. h["hits"] = a + p /\ h["coll"] = b + q /\ h["empty"] = c + r
    BY <2>1 DEF Counters, Events
  <2>3. /\ EventsOf(h) = (a + p) + (b + q) + (c + r)
        /\ EventsOf(f) = a + b + c /\ EventsOf(g) = p + q + r
    BY <2>1, <2>2 DEF EventsOf
  <2> QED
    BY <2>3
<1>2. PatternsOf(h) = PatternsOf(f) + PatternsOf(g)
  <2>1. PICK a \in Int, b \in Int, c \in Int, d \in Int :
          a = f["and"] /\ b = f["or"] /\ c = f["not"] /\ d = f["other"]
    BY DEF Counters, Patterns
  <2>2. PICK p \in Int, q \in Int, r \in Int, s \in Int :
          p = g["and"] /\ q = g["or"] /\ r = g["not"] /\ s = g["other"]
    BY DEF Counters, Patterns
  <2>3. /\ h["and"] = a + p /\ h["or"] = b + q
        /\ h["not"] = c + r /\ h["other"] = d + s
    BY <2>1, <2>2 DEF Counters, Patterns
  <2>4. /\ PatternsOf(h) = (a + p) + (b + q) + (c + r) + (d + s)
        /\ PatternsOf(f) = a + b + c + d /\ PatternsOf(g) = p + q + r + s
    BY <2>1, <2>2, <2>3 DEF PatternsOf
  <2> QED
    BY <2>4
<1> QED
  BY <1>1, <1>2

-----------------------------------------------------------------------------
(* The invariant. *)

LEMMA OwnType ==
  ASSUME CountsType
  PROVE  Own \in [Counters -> Int]
BY DEF CountsType, Own

LEMMA InitCounts == Init => CountsInv
<1> SUFFICES ASSUME Init PROVE CountsInv
  OBVIOUS
<1>1. CountsType
  BY OrderFacts, EmptyPending DEF Init, CountsType, Zero
<1>2. GateInv
  BY DEF Init, GateInv, Harness, Threads
<1>3. \A c \in Counters : Own[c] = 0
  BY DEF Init, Own, Zero
<1>4. ResetInv /\ RunInv /\ OwnInv
  BY <1>3, OrderFacts DEF Init, ResetInv, RunInv, OwnInv
<1>5. SampleInv
  BY DEF Init, SampleInv
<1> QED
  BY <1>1, <1>2, <1>4, <1>5 DEF CountsInv

LEMMA ProbeCounts ==
  ASSUME CountsInv, NEW t \in Threads, Probe(t)
  PROVE  CountsInv'
<1> USE DEF CountsInv
<1>1. PICK s \in Pending : /\ Len(s) = 2 /\ s # <<>>
                           /\ probe' = [probe EXCEPT ![t] = s]
  <2>1. \A g, h \in {"F", "T", "node"} : PatternOf(g, h) \in Patterns
    BY DEF PatternOf, Patterns
  <2>2. PICK p \in Patterns, e \in Events :
          probe' = [probe EXCEPT ![t] = <<p, e>>]
    BY <2>1 DEF Probe
  <2>3. PICK s : s = <<p, e>>
    OBVIOUS
  <2>4. s \in Pending /\ Len(s) = 2 /\ s # <<>>
    BY <2>3 DEF Pending
  <2> QED
    BY <2>2, <2>3, <2>4
<1>2. /\ count' = count /\ foreign' = foreign /\ pc' = pc /\ at' = at
      /\ sample' = sample /\ enabled' = enabled
  BY DEF Probe
<1>3. Own' = Own
  BY <1>2 DEF Own
<1>4. calls' = IF t = Harness THEN calls + 1 ELSE calls
  BY DEF Probe
<1>5. CountsType'
  BY <1>1, <1>2, <1>4 DEF CountsType
<1>6. /\ t = Harness => pc = "run" /\ probe[Harness] = <<>> /\ probe'[Harness] = s
      /\ t # Harness => probe'[Harness] = probe[Harness]
  BY <1>1 DEF Probe, CountsType, Threads
<1>7. GateInv'
  BY <1>2, <1>6 DEF GateInv
<1>8. OwnInv' /\ SampleInv'
  BY <1>2, <1>3 DEF OwnInv, SampleInv
<1>9. ResetInv'
  BY <1>2, <1>3, <1>4, <1>6 DEF ResetInv
<1>10. RunInv'
  <2>1. CASE t = Harness
    <3>1. /\ EventsOf(Own) = calls /\ PatternsOf(Own) = calls
      BY <2>1, <1>6, OwnType, SumsType, EmptyPending DEF RunInv
    <3>2. calls \in Nat /\ calls' = calls + 1 /\ Len(probe'[Harness]) = 2
      BY <2>1, <1>1, <1>4, <1>6 DEF CountsType
    <3> QED
      BY <3>1, <3>2, <1>2, <1>3 DEF RunInv
  <2>2. CASE t # Harness
    BY <2>2, <1>2, <1>3, <1>4, <1>6 DEF RunInv
  <2> QED
    BY <2>1, <2>2
<1> QED
  BY <1>5, <1>7, <1>8, <1>9, <1>10

LEMMA ElementOf ==
  ASSUME NEW s \in Seq(Nat), NEW n \in 1 .. Len(s)
  PROVE  s[n] \in Nat
OBVIOUS

\* What a bump does to the counters and to what is the harness's in them.
LEMMA BumpEffect ==
  ASSUME CountsInv, NEW t \in Threads, Bump(t)
  PROVE  /\ Head(probe[t]) \in Counters
         /\ count' \in [Counters -> Nat] /\ foreign' \in [Counters -> Nat]
         /\ \A c \in Counters : count[c] <= count'[c]
         /\ t # Harness => Own' = Own
         /\ t = Harness =>
              /\ foreign' = foreign /\ pc = "run"
              /\ Own' = [Own EXCEPT ![Head(probe[t])] = Own[Head(probe[t])] + 1]
<1> USE DEF CountsInv
<1>1. PICK c : c = Head(probe[t])
  OBVIOUS
<1>2. c \in Counters
  BY <1>1, PendingFacts DEF Bump, CountsType, Counters
<1>3. PICK on \in GateSeen(t) :
        IF ~ on THEN count' = count /\ foreign' = foreign
        ELSE /\ count' = [count EXCEPT ![c] = count[c] + 1]
             /\ foreign' = IF t = Harness THEN foreign
                           ELSE [foreign EXCEPT ![c] = foreign[c] + 1]
  BY <1>1 DEF Bump
<1>4. t = Harness => pc = "run" /\ on = TRUE
  BY <1>3 DEF Bump, GateInv, GateSeen
<1>5. on \in BOOLEAN
  BY <1>3 DEF GateSeen, GateInv
<1>6. CASE ~ on
  BY <1>1, <1>2, <1>3, <1>4, <1>6 DEF Own, CountsType
<1>7. CASE on /\ t # Harness
  <2>1. /\ count' = [count EXCEPT ![c] = count[c] + 1]
        /\ foreign' = [foreign EXCEPT ![c] = foreign[c] + 1]
    BY <1>3, <1>7
  <2>2. \A k \in Counters : count'[k] - foreign'[k] = count[k] - foreign[k]
    BY <1>2, <2>1 DEF CountsType
  <2>3. Own' = Own
    BY <2>2 DEF Own
  <2>4. /\ count' \in [Counters -> Nat] /\ foreign' \in [Counters -> Nat]
        /\ \A k \in Counters : count[k] <= count'[k]
    BY <1>2, <2>1 DEF CountsType
  <2> QED
    BY <1>1, <1>2, <1>7, <2>3, <2>4
<1>8. CASE on /\ t = Harness
  <2>1. count' = [count EXCEPT ![c] = count[c] + 1] /\ foreign' = foreign
    BY <1>3, <1>8
  <2>2. \A k \in Counters : count'[k] - foreign'[k] =
                              IF k = c THEN Own[k] + 1 ELSE Own[k]
    BY <1>2, <2>1 DEF CountsType, Own
  <2>3. Own' = [Own EXCEPT ![c] = Own[c] + 1]
    BY <2>2 DEF Own
  <2>4. /\ count' \in [Counters -> Nat] /\ foreign' \in [Counters -> Nat]
        /\ \A k \in Counters : count[k] <= count'[k]
    BY <1>2, <2>1 DEF CountsType
  <2> QED
    BY <1>1, <1>2, <1>4, <1>8, <2>1, <2>3, <2>4
<1> QED
  BY <1>5, <1>6, <1>7, <1>8

LEMMA BumpCounts ==
  ASSUME CountsInv, NEW t \in Threads, Bump(t)
  PROVE  CountsInv'
<1> USE DEF CountsInv
<1>1. /\ enabled' = enabled /\ pc' = pc /\ at' = at /\ calls' = calls
      /\ sample' = sample /\ probe[t] # <<>> /\ probe[t] \in Pending
      /\ probe' = [probe EXCEPT ![t] = Tail(probe[t])]
  BY DEF Bump, CountsType
<1>2. CountsType'
  BY <1>1, BumpEffect, PendingFacts DEF CountsType
<1>3. /\ t = Harness => probe'[Harness] = Tail(probe[Harness])
      /\ t # Harness => probe'[Harness] = probe[Harness]
  BY <1>1 DEF CountsType, Threads
<1>4. CASE t # Harness
  <2>1. Own' = Own /\ probe'[Harness] = probe[Harness]
    BY <1>3, <1>4, BumpEffect
  <2>2. GateInv' /\ OwnInv' /\ ResetInv' /\ RunInv'
    BY <1>1, <2>1 DEF GateInv, OwnInv, ResetInv, RunInv
  <2>3. SampleInv'
    <3> SUFFICES ASSUME NEW n \in 1 .. Len(sample)
                 PROVE  sample[n] <= count'[ReadOrder[n]]
      BY <1>1, <2>1 DEF SampleInv
    <3>0. n \in 1 .. 7
      <4>1. at \in 0 .. 7 /\ Len(sample) \in {0, at}
        BY OrderFacts DEF SampleInv, CountsType
      <4> QED
        BY <4>1
    <3>1. PICK c \in Counters : c = ReadOrder[n]
      BY <3>0, OrderFacts
    <3>2. sample[n] <= count[c] /\ count[c] <= count'[c]
      BY <3>1, BumpEffect DEF SampleInv
    <3>3. sample[n] \in Nat /\ count[c] \in Nat /\ count'[c] \in Nat
      BY BumpEffect DEF CountsType
    <3> QED
      BY <3>1, <3>2, <3>3
  <2> QED
    BY <1>2, <2>2, <2>3
<1>5. CASE t = Harness
  <2>1. PICK c \in Counters : c = Head(probe[t])
    BY BumpEffect
  <2>2. Own' = [Own EXCEPT ![c] = Own[c] + 1] /\ pc = "run"
    BY <1>5, <2>1, BumpEffect
  <2>3. GateInv' /\ ResetInv' /\ SampleInv'
    <3>1. Len(sample) = 0
      BY <2>2 DEF SampleInv
    <3> QED
      BY <1>1, <2>2, <3>1 DEF GateInv, ResetInv, SampleInv
  <2>4. OwnInv'
    BY <2>1, <2>2, OwnType DEF OwnInv
  <2>5. EventsOf(Own') \in Int /\ PatternsOf(Own') \in Int
    <3>1. PICK f \in [Counters -> Int] : f = Own
      BY OwnType
    <3>2. PICK g : g = [f EXCEPT ![c] = f[c] + 1]
      OBVIOUS
    <3>3. g \in [Counters -> Int] /\ Own' = g
      BY <2>1, <2>2, <3>1, <3>2
    <3> QED
      BY <3>3, SumsType
  <2>6. ASSUME NEW l \in {0, 1}, l = Len(probe'[Harness]),
               EventsOf(Own') + l = calls, PatternsOf(Own') = calls
        PROVE  RunInv'
    <3>1. PICK x \in Int : x = EventsOf(Own') /\ x + l = calls
      BY <2>6, <2>5
    <3>2. x + (IF l > 0 THEN 1 ELSE 0) = calls
      BY <3>1
    <3>3. PICK y \in Int : y = PatternsOf(Own') /\ y + (IF l > 1 THEN 1 ELSE 0) = calls
      BY <2>6, <2>5
    <3> QED
      BY <1>1, <2>6, <3>1, <3>2, <3>3 DEF RunInv
  <2>7. RunInv'
    <3>1. PICK f \in [Counters -> Int] : f = Own
      BY OwnType
    <3>2. /\ c \in Events =>
               EventsOf(Own') = EventsOf(f) + 1 /\ PatternsOf(Own') = PatternsOf(f)
          /\ c \in Patterns =>
               EventsOf(Own') = EventsOf(f) /\ PatternsOf(Own') = PatternsOf(f) + 1
      BY <2>2, <3>1, SumsBump
    <3>3. EventsOf(f) \in Int /\ PatternsOf(f) \in Int
      BY SumsType
    <3>4. PICK s \in Pending : s = probe[Harness] /\ s # <<>>
      BY <1>1, <1>5
    <3>5. /\ EventsOf(f) + (IF Len(s) > 0 THEN 1 ELSE 0) = calls
          /\ PatternsOf(f) + (IF Len(s) > 1 THEN 1 ELSE 0) = calls
      BY <2>2, <3>1, <3>4 DEF RunInv
    <3>6. CASE Len(s) = 1
      <4>1. c \in Events /\ probe'[Harness] = <<>>
        BY <1>3, <1>5, <2>1, <3>4, <3>6, PendingFacts
      <4>2. EventsOf(Own') = calls /\ PatternsOf(Own') = calls
        BY <3>2, <3>3, <3>5, <3>6, <4>1
      <4> QED
        <5>1. Len(probe'[Harness]) = 0
          BY <4>1, EmptyPending
        <5> QED
          BY <2>6, <2>5, <4>2, <5>1
    <3>7. CASE Len(s) = 2
      <4>1. c \in Patterns /\ Len(probe'[Harness]) = 1
        <5>1. Head(s) \in Patterns /\ Len(Tail(s)) = 1
          BY <3>4, <3>7, PendingFacts
        <5> QED
          BY <1>3, <1>5, <2>1, <3>4, <5>1
      <4>2. EventsOf(Own') + 1 = calls /\ PatternsOf(Own') = calls
        BY <3>2, <3>3, <3>5, <3>7, <4>1
      <4> QED
        <5>1. 1 = Len(probe'[Harness])
          BY <4>1
        <5> QED
          BY <2>6, <4>2, <5>1
    <3> QED
      BY <3>4, <3>6, <3>7, PendingFacts
  <2> QED
    BY <1>2, <2>3, <2>4, <2>7
<1> QED
  BY <1>4, <1>5

LEMMA ResetCounts ==
  ASSUME CountsInv, Reset
  PROVE  CountsInv'
<1> USE DEF CountsInv
<1>1. /\ pc = "reset" /\ pc' = pc /\ at < Len(ResetOrder) /\ at' = at + 1
      /\ enabled' = enabled /\ probe' = probe /\ calls' = calls
      /\ sample' = sample
  BY DEF Reset
<1>2. at \in 0 .. 6 /\ at' \in 0 .. 7
  <2>1. at \in Int /\ at >= 0 /\ at < 7
    BY <1>1, OrderFacts DEF CountsType
  <2> QED
    BY <1>1, <2>1
<1>3. PICK c \in Counters :
        /\ c = ResetOrder[at + 1]
        /\ count' = [count EXCEPT ![c] = 0]
        /\ foreign' = [foreign EXCEPT ![c] = 0]
  <2>1. at + 1 \in 1 .. 7
    BY <1>2
  <2> QED
    BY <2>1, OrderFacts DEF Reset
<1>4. CountsType'
  <2>1. at' \in 0 .. Len(ReadOrder)
    BY <1>2, OrderFacts
  <2> QED
    BY <1>1, <1>3, <2>1 DEF CountsType
<1>5. \A k \in Counters : Own'[k] = IF k = c THEN 0 ELSE Own[k]
  BY <1>3 DEF Own, CountsType
<1>6. GateInv' /\ OwnInv' /\ RunInv'
  <2>1. OwnInv'
    BY <1>5 DEF OwnInv
  <2> QED
    BY <1>1, <2>1 DEF GateInv, RunInv
<1>7. ResetInv'
  <2> SUFFICES ASSUME NEW n \in 1 .. at + 1 PROVE Own'[ResetOrder[n]] = 0
    BY <1>1 DEF ResetInv
  <2>1. n \in 1 .. 7
    BY <1>2
  <2>2. ResetOrder[n] \in Counters
    BY <2>1, OrderFacts
  <2>3. CASE n = at + 1
    BY <1>3, <1>5, <2>3
  <2>4. CASE n # at + 1
    <3>1. n \in 1 .. at
      BY <1>2, <2>4
    <3> QED
      BY <1>1, <1>5, <2>2, <3>1 DEF ResetInv
  <2> QED
    BY <2>3, <2>4
<1>8. SampleInv'
  BY <1>1 DEF SampleInv
<1> QED
  BY <1>4, <1>6, <1>7, <1>8

LEMMA EnableCounts ==
  ASSUME CountsInv, Enable
  PROVE  CountsInv'
<1> USE DEF CountsInv
<1>1. /\ pc = "reset" /\ pc' = "run" /\ at = Len(ResetOrder) /\ at' = at
      /\ enabled' = TRUE /\ probe' = probe /\ calls' = calls
      /\ sample' = sample /\ count' = count /\ foreign' = foreign
  BY DEF Enable
<1>2. Own' = Own
  BY <1>1 DEF Own
<1>3. CountsType'
  <2>1. at' \in 0 .. Len(ReadOrder)
    BY <1>1 DEF CountsType
  <2> QED
    BY <1>1, <2>1 DEF CountsType
<1>4. GateInv' /\ OwnInv' /\ ResetInv' /\ SampleInv'
  BY <1>1, <1>2 DEF GateInv, OwnInv, ResetInv, SampleInv
<1>5. \A c \in Counters : Own[c] = 0
  <2> TAKE c \in Counters
  <2>1. PICK n \in 1 .. at : ResetOrder[n] = c
    BY <1>1, OrderFacts
  <2> QED
    BY <1>1, <2>1 DEF ResetInv
<1>6. EventsOf(Own) = 0 /\ PatternsOf(Own) = 0
  BY <1>5, OwnType, SumsType
<1>7. RunInv'
  <2>1. calls = 0 /\ Len(probe[Harness]) = 0
    BY <1>1, EmptyPending DEF GateInv, ResetInv
  <2> QED
    BY <1>1, <1>2, <1>6, <2>1 DEF RunInv
<1> QED
  BY <1>3, <1>4, <1>7

LEMMA DisableCounts ==
  ASSUME CountsInv, Disable
  PROVE  CountsInv'
<1> USE DEF CountsInv
<1>1. /\ pc = "run" /\ pc' = "read" /\ probe[Harness] = <<>> /\ at' = 0
      /\ enabled' = FALSE /\ probe' = probe /\ calls' = calls
      /\ sample' = sample /\ count' = count /\ foreign' = foreign
  BY DEF Disable
<1>2. Own' = Own
  BY <1>1 DEF Own
<1>3. CountsType'
  <2>1. 0 \in 0 .. Len(ReadOrder)
    BY OrderFacts
  <2> QED
    BY <1>1, <2>1 DEF CountsType
<1>4. GateInv' /\ OwnInv' /\ ResetInv' /\ RunInv'
  BY <1>1, <1>2 DEF GateInv, OwnInv, ResetInv, RunInv
<1>5. SampleInv'
  BY <1>1, <1>2 DEF SampleInv
<1> QED
  BY <1>3, <1>4, <1>5

LEMMA ReadCounts ==
  ASSUME CountsInv, Read
  PROVE  CountsInv'
<1> USE DEF CountsInv
<1>1. /\ pc = "read" /\ pc' = pc /\ at < Len(ReadOrder) /\ at' = at + 1
      /\ enabled' = enabled /\ probe' = probe /\ calls' = calls
      /\ count' = count /\ foreign' = foreign
  BY DEF Read
<1>2. Own' = Own
  BY <1>1 DEF Own
<1>3. at \in 0 .. 6 /\ at' \in 0 .. 7 /\ Len(sample) = at
  <2>1. at \in Int /\ at >= 0 /\ at < 7
    BY <1>1, OrderFacts DEF CountsType
  <2> QED
    BY <1>1, <2>1 DEF SampleInv
<1>4. PICK c \in Counters : c = ReadOrder[at + 1]
  <2>1. at + 1 \in 1 .. 7
    BY <1>3
  <2> QED
    BY <2>1, OrderFacts
<1>5. PICK missed \in 0 .. foreign[c] : sample' = Append(sample, count[c] - missed)
  BY <1>4 DEF Read
<1>6. /\ count[c] \in Nat /\ foreign[c] \in Nat /\ sample \in Seq(Nat)
      /\ Own[c] = count[c] - foreign[c] /\ Own[c] >= 0
  BY DEF CountsType, OwnInv, Own
<1>7. PICK x \in Nat : /\ x = count[c] - missed /\ sample' = Append(sample, x)
                       /\ Own[c] <= x /\ x <= count[c]
  <2>1. PICK n \in Nat, f \in Nat : n = count[c] /\ f = foreign[c] /\ f <= n
    BY <1>6
  <2>2. missed \in 0 .. f
    BY <1>5, <2>1
  <2>3. n - missed \in Nat /\ n - f <= n - missed /\ n - missed <= n
    BY <2>1, <2>2
  <2> QED
    BY <1>5, <1>6, <2>1, <2>3
<1>8. CountsType'
  <2>1. at' \in 0 .. Len(ReadOrder) /\ sample' \in Seq(Nat)
    BY <1>3, <1>6, <1>7, OrderFacts
  <2> QED
    BY <1>1, <2>1 DEF CountsType
<1>9. GateInv' /\ OwnInv' /\ ResetInv' /\ RunInv'
  BY <1>1, <1>2 DEF GateInv, OwnInv, ResetInv, RunInv
<1>10. SampleInv'
  <2>1. Len(sample') = at + 1
    BY <1>3, <1>6, <1>7
  <2>2. ASSUME NEW n \in 1 .. at + 1
        PROVE  Own[ReadOrder[n]] <= sample'[n] /\ sample'[n] <= count[ReadOrder[n]]
    <3>1. CASE n = at + 1
      BY <1>3, <1>4, <1>6, <1>7, <3>1
    <3>2. CASE n # at + 1
      <4>1. n \in 1 .. Len(sample) /\ sample'[n] = sample[n]
        BY <1>3, <1>6, <1>7, <3>2
      <4> QED
        BY <4>1 DEF SampleInv
    <3> QED
      BY <3>1, <3>2
  <2> QED
    BY <1>1, <1>2, <2>1, <2>2 DEF SampleInv
<1> QED
  BY <1>8, <1>9, <1>10

LEMMA NextRunCounts ==
  ASSUME CountsInv, NextRun
  PROVE  CountsInv'
<1> USE DEF CountsInv
<1>1. /\ pc = "read" /\ pc' = "reset" /\ at' = 0 /\ calls' = 0 /\ sample' = <<>>
      /\ enabled' = enabled /\ probe' = probe
      /\ count' = count /\ foreign' = foreign
  BY DEF NextRun
<1>2. Own' = Own
  BY <1>1 DEF Own
<1>3. CountsType'
  <2>1. 0 \in 0 .. Len(ReadOrder) /\ <<>> \in Seq(Nat)
    BY OrderFacts
  <2> QED
    BY <1>1, <2>1 DEF CountsType
<1>4. GateInv' /\ OwnInv' /\ RunInv' /\ SampleInv'
  BY <1>1, <1>2 DEF GateInv, OwnInv, RunInv, SampleInv
<1>5. ResetInv'
  <2>1. 1 .. at' = {}
    BY <1>1
  <2> QED
    BY <1>1, <2>1 DEF ResetInv
<1> QED
  BY <1>3, <1>4, <1>5

LEMMA NextCounts == CountsInv /\ [Next]_vars => CountsInv'
<1> SUFFICES ASSUME CountsInv, [Next]_vars PROVE CountsInv'
  OBVIOUS
<1>1. CASE \E t \in Threads : Probe(t)
  BY <1>1, ProbeCounts
<1>2. CASE \E t \in Threads : Bump(t)
  BY <1>2, BumpCounts
<1>3. CASE Reset
  BY <1>3, ResetCounts
<1>4. CASE Enable
  BY <1>4, EnableCounts
<1>5. CASE Disable
  BY <1>5, DisableCounts
<1>6. CASE Read
  BY <1>6, ReadCounts
<1>7. CASE NextRun
  BY <1>7, NextRunCounts
<1>8. CASE UNCHANGED vars
  <2>1. Own' = Own
    BY <1>8 DEF vars, Own
  <2> QED
    BY <1>8, <2>1 DEF vars, CountsInv, CountsType, GateInv, OwnInv, ResetInv,
                     RunInv, SampleInv
<1> QED
  BY <1>1, <1>2, <1>3, <1>4, <1>5, <1>6, <1>7, <1>8 DEF Next

\* While a run goes on every probe of it is in one event counter and in one
\* pattern counter, but for those under way, and what other threads add is told
\* apart (manager.rs:27-28).
THEOREM CountsInvariance == Spec => []CountsInv
<1>1. Init => CountsInv
  BY InitCounts
<1>2. CountsInv /\ [Next]_vars => CountsInv'
  BY NextCounts
<1> QED
  BY <1>1, <1>2, PTL DEF Spec

\* A sample counts each probe of its run once in the events and once in the
\* patterns, and nothing of the runs before it, however many threads probe
\* meanwhile and however often (manager.rs:75, 27-28).
THEOREM SampleCorrect == Spec => []SampleIsTheRun
<1>1. CountsInv => SampleIsTheRun
  <2> SUFFICES ASSUME CountsInv, pc = "read", at = Len(ReadOrder)
               PROVE  /\ EventsOf(Sampled) \in calls .. calls + EventsOf(foreign)
                      /\ PatternsOf(Sampled) \in calls .. calls + PatternsOf(foreign)
    BY DEF SampleIsTheRun
  <2>1. Len(sample) = 7 /\ sample \in Seq(Nat) /\ calls \in Nat
    BY OrderFacts DEF CountsInv, CountsType, SampleInv
  <2>2. ASSUME NEW c \in Counters
        PROVE  /\ Sampled[c] \in Nat
               /\ Own[c] <= Sampled[c] /\ Sampled[c] <= count[c]
    <3>1. PICK n \in 1 .. 7 : ReadOrder[n] = c
      BY OrderFacts
    <3>2. (CHOOSE m \in DOMAIN ReadOrder : ReadOrder[m] = c) = n
      BY <3>1, OrderFacts
    <3>3. Sampled[c] = sample[n]
      BY <3>2 DEF Sampled
    <3>4. n \in 1 .. Len(sample) /\ sample[n] \in Nat
      <4>1. n \in 1 .. Len(sample)
        BY <2>1
      <4> QED
        BY <2>1, <4>1, ElementOf
    <3> QED
      BY <3>1, <3>3, <3>4 DEF CountsInv, SampleInv
  <2>3. Sampled \in [Counters -> Int]
    <3>1. Sampled = [c \in Counters |-> Sampled[c]]
      BY DEF Sampled
    <3> QED
      BY <2>2, <3>1
  <2>4. PICK f \in [Counters -> Int] :
          /\ f = Sampled
          /\ \A c \in Counters : Own[c] <= f[c] /\ f[c] <= count[c]
    BY <2>2, <2>3
  <2>5. PICK g \in [Counters -> Int], h \in [Counters -> Int] :
          g = Own /\ h = count
    BY OwnType DEF CountsInv, CountsType
  <2>6. EventsOf(h) = EventsOf(g) + EventsOf(foreign)
        /\ PatternsOf(h) = PatternsOf(g) + PatternsOf(foreign)
    <3>1. PICK k \in [Counters -> Int] : k = foreign
      BY DEF CountsInv, CountsType
    <3>2. \A c \in Counters : h[c] = g[c] + k[c]
      BY <2>5, <3>1 DEF Own
    <3>3. /\ EventsOf(h) = EventsOf(g) + EventsOf(k)
          /\ PatternsOf(h) = PatternsOf(g) + PatternsOf(k)
      BY <3>2, SumsAdd
    <3> QED
      BY <3>1, <3>3
  <2>7. EventsOf(g) = calls /\ PatternsOf(g) = calls
    <3>1. Len(probe[Harness]) = 0
      BY EmptyPending DEF CountsInv, GateInv
    <3>2. EventsOf(g) \in Int /\ PatternsOf(g) \in Int
      BY SumsType
    <3> QED
      BY <2>5, <3>1, <3>2 DEF CountsInv, RunInv
  <2>8. /\ EventsOf(g) <= EventsOf(f) /\ PatternsOf(g) <= PatternsOf(f)
        /\ EventsOf(f) <= EventsOf(h) /\ PatternsOf(f) <= PatternsOf(h)
    BY <2>4, <2>5, SumsGrow
  <2>9. EventsOf(f) \in Int /\ PatternsOf(f) \in Int
    BY SumsType
  <2> QED
    BY <2>1, <2>4, <2>6, <2>7, <2>8, <2>9
<1> QED
  BY <1>1, CountsInvariance, PTL
=============================================================================
