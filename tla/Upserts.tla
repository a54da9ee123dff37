------------------------------ MODULE Upserts ------------------------------
(***************************************************************************)
(* The messages of the B-epsilon-tree (src/src/betree/BeNode.h:29-48) and  *)
(* what src/src/betree/BeTree.h does with sets of them.  A buffer is a     *)
(* sorted array with at most one message per key: here a function from the *)
(* keys to their messages.                                                 *)
(***************************************************************************)
EXTENDS Integers, FiniteSets, FiniteSetsExt, Functions

CONSTANT None     \* no value
ASSUME NoneAssumption == None \notin Int

UpsertType == {"insert", "update", "erase"}
Upsert(type, value, timeStamp) ==
  [type |-> type, value |-> value, timeStamp |-> timeStamp]
Messages(Values, Times) == [type : UpsertType, value : Values, timeStamp : Times]

(* What a message makes of the value of its key. *)
Effect(m, v) ==
  CASE m.type = "insert" -> m.value
    [] m.type = "update" -> IF v = None THEN None ELSE v + m.value
    [] m.type = "erase"  -> None

(* One message for two about the same key, the older one first. *)
SquashOrdered(a, b) ==
  CASE b.type # "update" -> b
    [] b.type = "update" /\ a.type # "erase" ->
         Upsert(a.type, a.value + b.value, b.timeStamp)
    [] b.type = "update" /\ a.type = "erase" -> a

(* Mutant: the messages are taken as they come. *)
SquashAsGiven(a, b) == SquashOrdered(a, b)

Squash(a, b) ==
  IF a.timeStamp > b.timeStamp THEN SquashOrdered(b, a) ELSE SquashOrdered(a, b)

(* Two buffers in one, messages about the same key squashed. *)
MergeUpserts(first, second) ==
  [k \in DOMAIN first \cup DOMAIN second |->
     IF k \notin DOMAIN second THEN first[k]
     ELSE IF k \notin DOMAIN first THEN second[k]
     ELSE Squash(first[k], second[k])]

(* The n smallest keys of a set. *)
Smallest(S, n) == {k \in S : Cardinality({j \in S : j <= k}) <= n}

(* findMedianKey: the key in the middle of two sorted arrays taken together,*)
(* the lower one of two.                                                    *)
FindMedianKey(first, second) ==
  LET below(S, k) == Cardinality({j \in S : j <= k})
      middle == (Cardinality(first) + Cardinality(second) + 1) \div 2
  IN Min({k \in first \cup second : below(first, k) + below(second, k) >= middle})

(* The sets of keys that removeMessages may choose from blocks of keys: the *)
(* largest blocks first, until needed keys are removed, and no more than    *)
(* max.  Blocks of the same size come in any order, and of the last one     *)
(* only the smallest keys that fit are taken.                               *)
Removals(blocks, needed, max) ==
  LET before(T, last) == UNION (T \ {last})
      may(T, last) ==
        /\ \A X \in T, Y \in blocks \ T : Cardinality(X) >= Cardinality(Y)
        /\ \A X \in T : Cardinality(X) >= Cardinality(last)
        /\ Cardinality(before(T, last)) < needed
        /\ Cardinality(UNION T) >= needed \/ T = blocks
      taken(T, last) ==
        before(T, last) \cup Smallest(last, max - Cardinality(before(T, last)))
  IN UNION {{taken(T, last) : last \in {X \in T : may(T, X)}} : T \in SUBSET blocks}
=============================================================================
