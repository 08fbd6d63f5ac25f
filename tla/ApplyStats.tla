----------------------------- MODULE ApplyStats -----------------------------
(***************************************************************************)
(* The process-wide counters of apply-cache probes (src/manager.rs) and    *)
(* the harness that samples them (examples/apply_cache_sweep.rs), while    *)
(* other threads probe the caches of managers of their own.  Each access   *)
(* to a counter is a step; all of them are Relaxed.                        *)
(***************************************************************************)
EXTENDS Integers, Sequences

CONSTANTS
  Others,      \* the threads that are not the harness
  MaxCalls,    \* bound on the probes of a run that is sampled
  MaxRuns,     \* bound on the runs
  MaxForeign   \* bound on the probes of the other threads

ASSUME ApplyStatsAssumption == {MaxCalls, MaxRuns, MaxForeign} \subseteq Nat

Harness == "harness"
Threads == Others \cup {Harness}

Events == {"hits", "coll", "empty"}
Patterns == {"and", "or", "not", "other"}
Counters == Events \cup Patterns

\* A slip: the pattern counters, which came later, are left out.
ResetOrderOld == <<"hits", "coll", "empty">>

\* The counters in the order apply_cache_stats_reset stores them, and the order
\* the two snapshots load them.
ResetOrder == <<"hits", "coll", "empty", "and", "or", "not", "other">>
ReadOrder == <<"hits", "coll", "empty", "and", "or", "not", "other">>

Zero == [c \in Counters |-> 0]

VARIABLES
  enabled,  \* APPLY_ENABLED, as the harness stored it last
  everOn,   \* whether it was ever stored true
  count,    \* the seven counters
  probe,    \* for each thread, the counters its probe has yet to bump
  pc,       \* where the harness is: reset, run or read
  at,       \* how many counters it has reset or read
  calls,    \* the probes of this run
  runs,     \* the runs begun
  begun,    \* the probes the other threads have begun
  sample,   \* the values read, of the counters at the head of ReadOrder
  foreign   \* history: what other threads added to each counter since its reset

vars == <<enabled, everOn, count, probe, pc, at, calls, runs, begun, sample,
          foreign>>

Init ==
  /\ enabled = FALSE
  /\ everOn = FALSE
  /\ count = Zero
  /\ probe = [t \in Threads |-> <<>>]
  /\ pc = "reset"
  /\ at = 0
  /\ calls = 0
  /\ runs = 1
  /\ begun = 0
  /\ sample = <<>>
  /\ foreign = Zero

\* The bucket of a probe of (f, g, h); an operand is F, T or a node.
PatternOf(g, h) ==
  CASE g = "F" /\ h = "T" -> "not"
    [] g = "T"            -> "or"
    [] g # "T" /\ h = "F" -> "and"
    [] OTHER              -> "other"

\* ite_cache_get: a pattern is bumped, and then what the slot held.
Probe(t) ==
  /\ probe[t] = <<>>
  /\ IF t = Harness
     THEN /\ pc = "run"
          /\ calls < MaxCalls
          /\ calls' = calls + 1
          /\ UNCHANGED begun
     ELSE /\ begun < MaxForeign
          /\ begun' = begun + 1
          /\ UNCHANGED calls
  /\ \E g, h \in {"F", "T", "node"}, e \in Events :
       probe' = [probe EXCEPT ![t] = <<PatternOf(g, h), e>>]
  /\ UNCHANGED <<enabled, everOn, count, pc, at, runs, sample, foreign>>

\* What a load of the gate returns: to the harness its own last store, to
\* another thread any store so far.
GateSeen(t) ==
  IF t = Harness THEN {enabled} ELSE IF everOn THEN BOOLEAN ELSE {FALSE}

\* The gate and the fetch_add behind it; another thread may load the gate long
\* before it adds, which the choice of its value covers.
Bump(t) ==
  /\ probe[t] # <<>>
  /\ probe' = [probe EXCEPT ![t] = Tail(@)]
  /\ LET c == Head(probe[t]) IN
     \E on \in GateSeen(t) :
       IF ~ on THEN UNCHANGED <<count, foreign>>
       ELSE /\ count' = [count EXCEPT ![c] = @ + 1]
            /\ foreign' = IF t = Harness THEN foreign
                          ELSE [foreign EXCEPT ![c] = @ + 1]
  /\ UNCHANGED <<enabled, everOn, pc, at, calls, runs, begun, sample>>

\* One store of apply_cache_stats_reset.
Reset ==
  /\ pc = "reset"
  /\ at < Len(ResetOrder)
  /\ LET c == ResetOrder[at + 1] IN
     /\ count' = [count EXCEPT ![c] = 0]
     /\ foreign' = [foreign EXCEPT ![c] = 0]
  /\ at' = at + 1
  /\ UNCHANGED <<enabled, everOn, probe, pc, calls, runs, begun, sample>>

\* apply_cache_stats_enable(true), and the run.
Enable ==
  /\ pc = "reset"
  /\ at = Len(ResetOrder)
  /\ enabled' = TRUE
  /\ everOn' = TRUE
  /\ pc' = "run"
  /\ UNCHANGED <<count, probe, at, calls, runs, begun, sample, foreign>>

\* apply_cache_stats_enable(false), when the run's calls have returned.
Disable ==
  /\ pc = "run"
  /\ probe[Harness] = <<>>
  /\ enabled' = FALSE
  /\ pc' = "read"
  /\ at' = 0
  /\ UNCHANGED <<everOn, count, probe, calls, runs, begun, sample, foreign>>

\* One load of apply_cache_stats or apply_cache_patterns: it may miss what other
\* threads added.
Read ==
  /\ pc = "read"
  /\ at < Len(ReadOrder)
  /\ LET c == ReadOrder[at + 1] IN
     \E missed \in 0 .. foreign[c] : sample' = Append(sample, count[c] - missed)
  /\ at' = at + 1
  /\ UNCHANGED <<enabled, everOn, count, probe, pc, calls, runs, begun, foreign>>

NextRun ==
  /\ pc = "read"
  /\ at = Len(ReadOrder)
  /\ runs < MaxRuns
  /\ pc' = "reset"
  /\ at' = 0
  /\ calls' = 0
  /\ runs' = runs + 1
  /\ sample' = <<>>
  /\ UNCHANGED <<enabled, everOn, count, probe, begun, foreign>>

Next ==
  \/ \E t \in Threads : Probe(t) \/ Bump(t)
  \/ Reset
  \/ Enable
  \/ Disable
  \/ Read
  \/ NextRun

Spec == Init /\ [][Next]_vars
-----------------------------------------------------------------------------
(* Properties. *)

EventsOf(f) == f["hits"] + f["coll"] + f["empty"]
PatternsOf(f) == f["and"] + f["or"] + f["not"] + f["other"]

\* What a complete sample says of the counter c.
Sampled == [c \in Counters |->
              sample[CHOOSE n \in DOMAIN ReadOrder : ReadOrder[n] = c]]

\* A sample counts each probe of its run once in the events and once in the
\* patterns, and besides them nothing but what other threads added since the
\* reset: a run made alone is counted exactly, after any run before it
\* (manager.rs:75, "since the last reset"; 27-28, "exactly one bucket").
SampleIsTheRun ==
  pc = "read" /\ at = Len(ReadOrder) =>
    /\ EventsOf(Sampled) \in calls .. calls + EventsOf(foreign)
    /\ PatternsOf(Sampled) \in calls .. calls + PatternsOf(foreign)
-----------------------------------------------------------------------------
(* The inductive invariant behind it. *)

\* What is left of a probe: all of it, its event, or nothing.
Pending ==
  {<<>>} \cup {<<e>> : e \in Events}
         \cup {<<p, e>> : p \in Patterns, e \in Events}

\* What the harness added to each counter since its reset.
Own == [c \in Counters |-> count[c] - foreign[c]]

CountsType ==
  /\ count \in [Counters -> Nat]
  /\ foreign \in [Counters -> Nat]
  /\ probe \in [Threads -> Pending]
  /\ pc \in {"reset", "run", "read"}
  /\ at \in 0 .. Len(ReadOrder)
  /\ calls \in Nat
  /\ sample \in Seq(Nat)

\* The gate is open while the harness runs, and it probes only then.
GateInv ==
  /\ enabled = (pc = "run")
  /\ pc # "run" => probe[Harness] = <<>>

OwnInv == \A c \in Counters : Own[c] >= 0

\* What it has reset stands at what others added.
ResetInv ==
  pc = "reset" => calls = 0 /\ \A n \in 1 .. at : Own[ResetOrder[n]] = 0

\* Each probe of the run is in one event and one pattern, once it has bumped
\* them.
RunInv ==
  pc # "reset" =>
    LET left == Len(probe[Harness]) IN
    /\ EventsOf(Own) + (IF left > 0 THEN 1 ELSE 0) = calls
    /\ PatternsOf(Own) + (IF left > 1 THEN 1 ELSE 0) = calls

\* What it has read lies between its own additions and what the counter has.
SampleInv ==
  /\ Len(sample) = IF pc = "read" THEN at ELSE 0
  /\ \A n \in 1 .. Len(sample) :
       Own[ReadOrder[n]] <= sample[n] /\ sample[n] <= count[ReadOrder[n]]

CountsInv == CountsType /\ GateInv /\ OwnInv /\ ResetInv /\ RunInv /\ SampleInv
=============================================================================
