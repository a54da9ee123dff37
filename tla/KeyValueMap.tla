---------------------------- MODULE KeyValueMap ----------------------------
(***************************************************************************)
(* What both trees promise their users: a map from keys to values.  A      *)
(* thread calls an operation, the operation takes effect at one moment     *)
(* between its call and its answer, and only find has something to answer. *)
(***************************************************************************)
EXTENDS Integers

CONSTANTS
  Threads,
  Absent      \* the value of a key that the map does not contain

VARIABLES
  map,        \* the value of every key
  call,       \* the operation a thread has called, or Absent
  answer      \* what the last operation of a thread answered

mapVars == <<map, call, answer>>

Insert(m, k, v) == [m EXCEPT ![k] = v]
Update(m, k, v) == [m EXCEPT ![k] = IF @ = Absent THEN @ ELSE @ + v]
Erase(m, k)     == [m EXCEPT ![k] = Absent]

MapInit ==
  /\ \A k \in DOMAIN map : map[k] = Absent
  /\ \A t \in Threads : call[t] = Absent /\ answer[t] = Absent

Begin(t) ==
  /\ call[t] = Absent
  /\ call'[t] # Absent
  /\ call' = [call EXCEPT ![t] = call'[t]]
  /\ UNCHANGED <<map, answer>>

TakeEffect(t) ==
  LET op == call[t].op
      k == call[t].key
      v == call[t].value
  IN
  /\ call[t] # Absent
  /\ call' = [call EXCEPT ![t] = Absent]
  /\ map' = CASE op = "insert" -> Insert(map, k, v)
              [] op = "update" -> Update(map, k, v)
              [] op = "erase"  -> Erase(map, k)
              [] op = "find"   -> map
  /\ answer' = [answer EXCEPT ![t] = IF op = "find" THEN map[k] ELSE Absent]

MapNext == \E t \in Threads : Begin(t) \/ TakeEffect(t)

MapSpec == MapInit /\ [][MapNext]_mapVars
=============================================================================
