----------------------------- MODULE MCExchange -----------------------------
(***************************************************************************)
(* Instances of Exchange for TLC.  The server starts with the variables    *)
(* x0 and x1, the client with nothing.                                     *)
(***************************************************************************)
EXTENDS Exchange

CONSTANT MaxWire  \* bound on the publications

\* Every key hashes to one slot: each put evicts what was put before.
OneSlot(f, g, h) == 0

VarNode == Encode(0, FalseRef, TrueRef, 0)
VarOffset(v) == v * NodeSize(VarNode)
Projections ==
  [o \in {VarOffset(v) : v \in Vars} |->
     [VarNode EXCEPT !.var = o \div NodeSize(VarNode)]]

ServerInit ==
  /\ buf = Projections
  /\ bufLen = VarOffset(MaxVars)
  /\ den = Meanings(Projections)
  /\ unique = [v \in Vars |-> {VarOffset(v)}]
  /\ numVars = MaxVars
  /\ cache = NewManager.cache
  /\ cacheLen = 0
  /\ held = [k \in Handles |-> IF k \in Vars THEN VarOffset(k) ELSE FalseRef]
  /\ pc = "idle"
  /\ call = NoCall
  /\ stack = <<>>
  /\ results = <<>>
  /\ phase = "off"
  /\ base = 0
  /\ keep = <<>>
  /\ nextRoot = 1
  /\ gcStack = <<>>
  /\ oldTail = <<>>
  /\ remap = <<>>
  /\ postOrder = <<>>
  /\ oldDen = <<>>
  /\ wire = <<>>
  /\ baseLen = 0
  /\ emit = NoEmit
  /\ who = "server"
  /\ other = NewManager

\* The server's caller applies NOT, and AND until it has published twice; the
\* client's declares variables and applies NOT.
Compute ==
  /\ phase = "off"
  /\ emit = NoEmit
  /\ \/ IteStep
     \/ /\ who = "server"
        /\ Len(wire) < MaxWire
        /\ Not(0) \/ (Len(wire) < 2 /\ And(0))
     \/ who = "client" /\ (NewVar \/ Not(0))
  /\ UNCHANGED <<gcVars, wire, baseLen, emit, who, other>>

\* LineageNext with these calls, each process resting only while it has
\* published or received what it holds.
SmallNext ==
  \/ Compute
  \/ Collect
  \/ Publish
  \/ bufLen = baseLen /\ Switch
  \/ who = "client" /\ NewProcess
  \/ /\ who = "server"
     /\ Len(wire) < MaxWire
     /\ \E S \in {{0}, Handles} :
          IF wire = <<>> THEN SlabFor(S) ELSE DiffSince(baseLen, S)
  \/ /\ who = "client"
     /\ bufLen = baseLen
     /\ \E a \in Range(wire) : Declared(a) /\ (IngestSlab(a) \/ ApplyDiff(a))
  \/ /\ who = "server"
     /\ Len(wire) = 1
     /\ ExtendSlab(wire[1])

\* The same, but the client builds nodes of its own between receipts.
CarelessNext ==
  \/ SmallNext
  \/ /\ who = "client"
     /\ \E a \in Range(wire) : Declared(a) /\ ApplyDiff(a)

CarelessSpec == ServerInit /\ [][CarelessNext]_exVars
SmallSpec == ServerInit /\ [][SmallNext]_exVars
=============================================================================
