------------------------------ MODULE MCBeTree ------------------------------
(***************************************************************************)
(* Instances of BeTree for TLC.                                            *)
(***************************************************************************)
EXTENDS BeTree

CONSTANTS t1, t2

Op1(o, k, v) == [op |-> o, key |-> k, value |-> v]
Ops(os, ks, vs) == {Op1(o, k, v) : o \in os, k \in ks, v \in vs}

(* One thread fills the tree, mostly at its left end, and the others go on  *)
(* there.  After 4 calls the root is a full leaf that either thread splits; *)
(* after 8 a leaf below the root is full, and soon the root; after 15 the   *)
(* buffer and the pivots of a child of the root are; after 24 there are two *)
(* levels of inner nodes, and the message about 36 sets off a flush that    *)
(* goes on to several nodes.                                                *)
Inserts(keys) == [i \in DOMAIN keys |-> Op1("insert", keys[i], 1)]
GrowPreload ==
  <<Op1("find", 3, 0)>> \o Inserts(<<3>> \o [i \in 1 .. 18 |-> 3 * (28 - i)])
    \o Inserts(<<54, 20, 30, 7, 41, 5, 36, 8, 25>>)
GrowStarts == {4, 8, 15, 24}
GrowKeys == {5, 7, 8, 20, 25, 41} \cup {3 * i : i \in 1 .. 27}
GrowOperations ==
  [t \in Threads |->
     IF t = t1
     THEN <<Ops({"insert"}, {36}, {2}),
            Ops({"update"}, {3, 36}, {4}) \cup Ops({"erase"}, {36}, {0})>>
     ELSE <<Ops({"insert"}, {5, 41}, {2}), Ops({"find"}, {3, 36}, {0})>>]

(* Two threads insert the same key, and one goes on to insert others. *)
SameKeyStarts == {24}
SameKeyOperations ==
  [t \in Threads |->
     IF t = t1 THEN <<Ops({"insert"}, {36}, {2})>>
     ELSE <<Ops({"insert"}, {36}, {3})>> \o [i \in 1 .. 3 |-> Ops({"insert"}, {5, 41}, {1})]]

(* A key that is not in the tree is updated, and looked for. *)
MissingStarts == {12}
MissingOperations ==
  [t \in Threads |->
     IF t = t1 THEN <<Ops({"update"}, {41}, {4})>> ELSE <<Ops({"find"}, {41}, {0})>>]

(* A pair is inserted once more, when its leaf is full. *)
AgainStarts == {8}
AgainOperations == [t \in Threads |-> IF t = t1 THEN <<Ops({"insert"}, {69, 72, 75}, {1})>> ELSE <<>>]
=============================================================================
