------------------------------ MODULE MCBTree ------------------------------
(***************************************************************************)
(* Instances of BTree for TLC.  The smallest nodes the code accepts have   *)
(* two pairs in a leaf and three pivots in an inner node.                  *)
(***************************************************************************)
EXTENDS BTree

CONSTANTS t1, t2

Op1(o, k, v) == [op |-> o, key |-> k, value |-> v]
Ops(os, ks, vs) == {Op1(o, k, v) : o \in os, k \in ks, v \in vs}

(* A tree of any size up to three levels with full nodes at its right, in   *)
(* which some keys were overwritten.  Both threads update or erase a key,   *)
(* then insert at the ends and into the middle, and look for keys of each   *)
(* other.  When the whole preload is there, 24 is a key of the full leaf    *)
(* <<21, 24>>: the thread that overwrites it goes on in the right half with *)
(* keyIt in the left one, while the other inserts 23 beside it.             *)
GrowKeys == 1 .. 26
GrowPreload == <<3, 6, 9, 6, 12, 15, 18, 21, 24>>
GrowOperations ==
  [t \in Threads |->
     IF t = t1
     THEN <<Ops({"update", "erase"}, {6}, {3}), Ops({"insert"}, {1, 24}, {2}),
            Ops({"find"}, {2}, {0})>>
     ELSE <<Ops({"update", "erase"}, {3}, {3}), Ops({"insert"}, {2, 23}, {2}),
            Ops({"find"}, {1, 24}, {0})>>]

(* Below the root is a full leaf, <<3, 4>>.  A thread overwrites a key of   *)
(* it while another one inserts before it.                                  *)
TwiceKeys == 1 .. 4
TwicePreload == <<1, 3, 4>>
TwiceOperations ==
  [t \in Threads |-> <<Ops({"insert"}, {2, 4}, {2})>>]
=============================================================================
