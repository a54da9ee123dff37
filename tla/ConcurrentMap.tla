--------------------------- MODULE ConcurrentMap ---------------------------
(***************************************************************************)
(* A KeyValueMap that is looked at while it changes: find may answer any   *)
(* value that its key had between the call and the answer.  Every history  *)
(* of calls and answers of this map is one of a map whose operations take  *)
(* effect one after the other, each at one moment of its call.             *)
(***************************************************************************)
EXTENDS KeyValueMap

VARIABLE seen    \* the values the key of a thread's find has had so far

concurrentVars == <<map, call, answer, seen>>

Finds(c) == IF c = Absent THEN FALSE ELSE c.op = "find"

ConcurrentInit == MapInit /\ \A t \in Threads : seen[t] = {}

Found(t) ==
  /\ Finds(call[t])
  /\ answer'[t] \in seen[t]
  /\ answer' = [answer EXCEPT ![t] = answer'[t]]
  /\ call' = [call EXCEPT ![t] = Absent]
  /\ UNCHANGED map

ConcurrentNext ==
  /\ \E t \in Threads : Begin(t) \/ Found(t) \/ (~Finds(call[t]) /\ TakeEffect(t))
  /\ seen' = [t \in Threads |->
                IF ~Finds(call'[t]) THEN {}
                ELSE (IF Finds(call[t]) THEN seen[t] ELSE {}) \cup {map'[call'[t].key]}]

ConcurrentSpec == ConcurrentInit /\ [][ConcurrentNext]_concurrentVars
=============================================================================
