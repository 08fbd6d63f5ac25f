----------------------------- MODULE BoolShare -----------------------------
(***************************************************************************)
(* What two processes promise their callers when they exchange diagrams:   *)
(* each is a Boolean-function service (BoolGc); what one publishes are     *)
(* functions, and whoever receives a publication holds those functions,    *)
(* however often it arrives and whatever arrived before.                   *)
(***************************************************************************)
EXTENDS BoolGc

VARIABLES
  sent,  \* the publications: the function of each handle published
  rest   \* the handles and variables of the process that does not run

shareVars == <<fn, numVars, owed, kept, sent, rest>>

Fresh == [fn |-> [k \in Handles |-> FalseFn], numVars |-> 0]

ShareInit == GcInit /\ sent = {} /\ rest = Fresh

\* No call and no collection is under way.
AtRest == owed = NoneOwed /\ kept = {}

Publish ==
  /\ AtRest
  /\ \E S \in SUBSET Handles : sent' = sent \cup {[k \in S |-> fn[k]]}
  /\ UNCHANGED <<fn, numVars, owed, kept, rest>>

Receive ==
  /\ AtRest
  /\ \E p \in sent :
       fn' = [k \in Handles |-> IF k \in DOMAIN p THEN p[k] ELSE fn[k]]
  /\ UNCHANGED <<numVars, owed, kept, sent, rest>>

\* A process ends and another begins, perhaps with a publication.
Restart ==
  /\ AtRest
  /\ \/ fn' = Fresh.fn
     \/ \E p \in sent :
          fn' = [k \in Handles |-> IF k \in DOMAIN p THEN p[k] ELSE FalseFn]
  /\ numVars' \in 0 .. MaxVars
  /\ UNCHANGED <<owed, kept, sent, rest>>

Switch ==
  /\ AtRest
  /\ rest' = [fn |-> fn, numVars |-> numVars]
  /\ fn' = rest.fn
  /\ numVars' = rest.numVars
  /\ UNCHANGED <<owed, kept, sent>>

ShareNext ==
  \/ GcNext /\ UNCHANGED <<sent, rest>>
  \/ Publish
  \/ Receive
  \/ Restart
  \/ Switch

ShareSteps == [][ShareNext]_shareVars
=============================================================================
