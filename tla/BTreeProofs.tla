---------------------------- MODULE BTreeProofs ----------------------------
(***************************************************************************)
(* Theorems about the B-tree, for any number of threads and keys and for   *)
(* nodes of any size the code accepts: splits never overflow a node, and a *)
(* root that is a leaf is changed under an exclusive lock only.            *)
(***************************************************************************)
EXTENDS BTreeInv, FiniteSetTheorems, TLAPS

IsArray(a, N) == a \in [1 .. N -> Nat]

(***************************************************************************)
(* The arrays of a node.                                                   *)
(***************************************************************************)

(* lower_bound finds the place of k in an array in order. *)
LEMMA LowerBoundBounds ==
  ASSUME NEW N \in Nat, NEW a, IsArray(a, N), NEW n \in 0 .. N, NEW k \in Nat
  PROVE  LowerBound(a, n, k) \in 1 .. n + 1
<1> DEFINE S == {i \in DOMAIN a : i <= n /\ a[i] < k}
<1>1. S \subseteq 1 .. n
  BY DEF IsArray
<1>2. IsFiniteSet(1 .. n) /\ Cardinality(1 .. n) = n
  BY FS_Interval
<1>3. Cardinality(S) \in Nat /\ Cardinality(S) <= n
  BY <1>1, <1>2, FS_Subset, FS_CardinalityType
<1> QED BY <1>3 DEF LowerBound

LEMMA LowerBoundSorted ==
  ASSUME NEW N \in Nat, NEW a, IsArray(a, N), NEW n \in 0 .. N, NEW k \in Nat,
         Sorted(a, n), NEW i \in 1 .. n
  PROVE  i < LowerBound(a, n, k) <=> a[i] < k
<1> DEFINE S == {j \in DOMAIN a : j <= n /\ a[j] < k}
<1>1. S \subseteq 1 .. n /\ IsFiniteSet(1 .. n)
  BY FS_Interval DEF IsArray
<1>2. IsFiniteSet(S) /\ Cardinality(S) \in Nat
  BY <1>1, FS_Subset, FS_CardinalityType
<1>3. CASE a[i] < k
  <2>1. 1 .. i \subseteq S
    BY <1>3 DEF Sorted, IsArray
  <2>2. Cardinality(1 .. i) = i
    BY FS_Interval
  <2>3. i <= Cardinality(S)
    BY <1>2, <2>1, <2>2, FS_Subset
  <2> QED BY <1>2, <1>3, <2>3 DEF LowerBound
<1>4. CASE ~(a[i] < k)
  <2>1. S \subseteq 1 .. i - 1
    BY <1>4 DEF Sorted, IsArray
  <2>2. IsFiniteSet(1 .. i - 1) /\ Cardinality(1 .. i - 1) = i - 1
    BY FS_Interval
  <2>3. Cardinality(S) <= i - 1
    BY <2>1, <2>2, FS_Subset
  <2> QED BY <1>2, <1>4, <2>3 DEF LowerBound
<1> QED BY <1>3, <1>4

(* There is only one such place. *)
LEMMA LowerBoundUnique ==
  ASSUME NEW N \in Nat, NEW a, IsArray(a, N), NEW n \in 0 .. N, NEW k \in Nat,
         Sorted(a, n), NEW m \in 1 .. n + 1,
         \A i \in 1 .. n : i < m <=> a[i] < k
  PROVE  LowerBound(a, n, k) = m
<1> DEFINE b == LowerBound(a, n, k)
<1>1. b \in 1 .. n + 1
  BY LowerBoundBounds
<1>2. \A i \in 1 .. n : i < b <=> a[i] < k
  BY LowerBoundSorted
<1> HIDE DEF b
<1>3. ~(b < m)
  BY <1>1, <1>2
<1>4. ~(m < b)
  BY <1>1, <1>2
<1> QED BY <1>1, <1>3, <1>4 DEF b

LEMMA InsertAtType ==
  ASSUME NEW N \in Nat, NEW a, IsArray(a, N), NEW n \in 0 .. N - 1,
         NEW i \in 1 .. n + 1, NEW x \in Nat
  PROVE  /\ IsArray(InsertAt(a, n, i, x), N)
         /\ \A j \in 1 .. n + 1 : InsertAt(a, n, i, x)[j] =
              IF j < i THEN a[j] ELSE IF j = i THEN x ELSE a[j - 1]
<1>1. \A j \in 1 .. N : ~(j < i \/ j > n + 1) /\ j # i => j - 1 \in 1 .. N
  OBVIOUS
<1> QED BY <1>1 DEF InsertAt, IsArray

LEMMA InsertAtSorted ==
  ASSUME NEW N \in Nat, NEW a, IsArray(a, N), NEW n \in 0 .. N - 1,
         NEW k \in Nat, Sorted(a, n)
  PROVE  Sorted(InsertAt(a, n, LowerBound(a, n, k), k), n + 1)
<1> DEFINE b == LowerBound(a, n, k)
           c == InsertAt(a, n, b, k)
<1>0. n \in 0 .. N
  OBVIOUS
<1>1. b \in 1 .. n + 1 /\ \A i \in 1 .. n : i < b <=> a[i] < k
  BY <1>0, LowerBoundBounds, LowerBoundSorted
<1>2. \A j \in 1 .. n + 1 : c[j] = IF j < b THEN a[j] ELSE IF j = b THEN k ELSE a[j - 1]
  <2> HIDE DEF b
  <2> QED BY <1>1, InsertAtType
<1>3. \A j \in 1 .. n : a[j] \in Nat
  BY DEF IsArray
<1> HIDE DEF b, c
<1>4. ASSUME NEW i \in 1 .. n + 1, NEW j \in 1 .. n + 1, i <= j
      PROVE  c[i] <= c[j]
  <2>1. CASE i < b /\ j < b
    BY <1>1, <1>2, <1>4, <2>1 DEF Sorted
  <2>2. CASE i < b /\ j = b
    BY <1>1, <1>2, <1>3, <1>4, <2>2
  <2>3. CASE i < b /\ j > b
    BY <1>1, <1>2, <1>4, <2>3 DEF Sorted
  <2>4. CASE i = b /\ j > b
    BY <1>1, <1>2, <1>3, <1>4, <2>4
  <2>5. CASE i > b /\ j > b
    BY <1>1, <1>2, <1>4, <2>5 DEF Sorted
  <2>6. CASE i = b /\ j = b
    BY <1>1, <1>2, <2>6
  <2> QED BY <1>1, <1>4, <2>1, <2>2, <2>3, <2>4, <2>5, <2>6
<1> QED BY <1>4 DEF Sorted, b, c

LEMMA EraseAtType ==
  ASSUME NEW N \in Nat, NEW a, IsArray(a, N), NEW n \in 1 .. N, NEW i \in 1 .. n
  PROVE  /\ IsArray(EraseAt(a, n, i), N)
         /\ Sorted(a, n) => Sorted(EraseAt(a, n, i), n - 1)
<1>1. \A j \in 1 .. N : EraseAt(a, n, i)[j] = IF i <= j /\ j < n THEN a[j + 1] ELSE a[j]
  BY DEF EraseAt, IsArray
<1>2. \A j \in 1 .. N : i <= j /\ j < n => j + 1 \in 1 .. N
  OBVIOUS
<1>3. IsArray(EraseAt(a, n, i), N)
  BY <1>2 DEF EraseAt, IsArray
<1>4. Sorted(a, n) => Sorted(EraseAt(a, n, i), n - 1)
  BY <1>1 DEF Sorted
<1> QED BY <1>3, <1>4

LEMMA TailsType ==
  ASSUME NEW N \in Nat, NEW a, IsArray(a, N), NEW n \in 0 .. N, NEW i \in 0 .. n
  PROVE  /\ IsArray(Tails(a, i, n, Unset), N)
         /\ \A j \in 1 .. n - i : Tails(a, i, n, Unset)[j] = a[i + j]
         /\ Sorted(a, n) => Sorted(Tails(a, i, n, Unset), n - i)
<1>1. \A j \in 1 .. N : i + j <= n => i + j \in 1 .. N
  OBVIOUS
<1>2. IsArray(Tails(a, i, n, Unset), N)
  BY <1>1 DEF Tails, Unset, IsArray
<1>3. \A j \in 1 .. n - i : Tails(a, i, n, Unset)[j] = a[i + j]
  BY DEF Tails, IsArray
<1>4. Sorted(a, n) => Sorted(Tails(a, i, n, Unset), n - i)
  BY <1>3 DEF Sorted
<1> QED BY <1>2, <1>3, <1>4

(***************************************************************************)
(* Splits.                                                                 *)
(***************************************************************************)
LEMMA HalfOf ==
  ASSUME NEW m \in Nat \ {0, 1}
  PROVE  /\ (m - 1) \div 2 + 1 = m - m \div 2 /\ m \div 2 \in 1 .. m - 1
         /\ m % 2 = 1 => (m - 1) \div 2 = m \div 2 /\ m = 2 * (m \div 2) + 1
OBVIOUS

LEMMA LeafHalves ==
  ASSUME NEW n \in LeafType, Sorted(n.keys, n.size), n.size = LeafN
  PROVE  /\ LeftLeaf(n) \in LeafType /\ RightLeaf(n) \in LeafType
         /\ LeftLeaf(n).size = SplitIndex(n) /\ SplitIndex(n) \in 1 .. LeafN - 1
         /\ RightLeaf(n).size = LeafN - SplitIndex(n)
         /\ LeftLeaf(n).keys = n.keys
         /\ Sorted(n.keys, SplitIndex(n))
         /\ Sorted(RightLeaf(n).keys, LeafN - SplitIndex(n))
         /\ \A j \in 1 .. LeafN - SplitIndex(n) : RightLeaf(n).keys[j] = n.keys[SplitIndex(n) + j]
         /\ LeafPivot(n) \in Nat
<1>0. LeafN \in Nat \ {0, 1} /\ IsArray(n.keys, LeafN)
      /\ IsArray(n.values, LeafN)
      /\ n = [leaf |-> TRUE, size |-> LeafN, keys |-> n.keys, values |-> n.values]
  BY SizesAssumption DEF LeafType, IsArray
<1>1. /\ SplitIndex(n) = LeafN - LeafN \div 2 /\ SplitIndex(n) \in 1 .. LeafN - 1
      /\ LeafN \div 2 = LeafN - SplitIndex(n) /\ LeafN \div 2 \in 0 .. LeafN
      /\ SplitIndex(n) \in 0 .. LeafN
  <2>1. SplitIndex(n) = (LeafN - 1) \div 2 + 1
    BY DEF SplitIndex
  <2>2. (LeafN - 1) \div 2 + 1 = LeafN - LeafN \div 2 /\ LeafN \div 2 \in 1 .. LeafN - 1
    BY <1>0, HalfOf
  <2> QED BY <1>0, <2>1, <2>2
<1>2. LeftLeaf(n) \in LeafType /\ LeftLeaf(n).keys = n.keys
      /\ LeftLeaf(n).size = SplitIndex(n)
  <2>1. LeftLeaf(n) = [n EXCEPT !.size = SplitIndex(n)]
    BY <1>1 DEF LeftLeaf
  <2> QED BY <1>1, <2>1 DEF LeafType
<1>3. /\ IsArray(Tails(n.keys, SplitIndex(n), LeafN, Unset), LeafN)
      /\ IsArray(Tails(n.values, SplitIndex(n), LeafN, Unset), LeafN)
      /\ Sorted(Tails(n.keys, SplitIndex(n), LeafN, Unset), LeafN - SplitIndex(n))
      /\ \A j \in 1 .. LeafN - SplitIndex(n) :
           Tails(n.keys, SplitIndex(n), LeafN, Unset)[j] = n.keys[SplitIndex(n) + j]
  <2>1. LeafN \in Nat /\ LeafN \in 0 .. LeafN /\ Sorted(n.keys, LeafN)
    BY <1>0
  <2> QED BY <1>0, <1>1, <2>1, TailsType
<1>4. /\ RightLeaf(n) \in LeafType /\ RightLeaf(n).size = LeafN - SplitIndex(n)
      /\ RightLeaf(n).keys = Tails(n.keys, SplitIndex(n), LeafN, Unset)
  BY <1>0, <1>1, <1>3 DEF RightLeaf, Leaf, LeafType, IsArray
<1>5. LeafPivot(n) \in Nat /\ Sorted(n.keys, SplitIndex(n))
  <2>1. SplitIndex(n) \in 1 .. LeafN /\ \A i \in 1 .. SplitIndex(n) : i \in 1 .. LeafN
    BY <1>0, <1>1
  <2> QED BY <1>0, <2>1 DEF LeafPivot, Sorted, IsArray
<1> QED BY <1>1, <1>2, <1>3, <1>4, <1>5

(* Where a key belongs after the split, in either half. *)
LEMMA PlaceInHalf ==
  ASSUME NEW n \in LeafType, Sorted(n.keys, n.size), n.size = LeafN, NEW k \in Nat
  PROVE  /\ k <= LeafPivot(n) =>
              LowerBound(LeftLeaf(n).keys, LeftLeaf(n).size, k) = LowerBound(n.keys, n.size, k)
         /\ ~(k <= LeafPivot(n)) =>
              LowerBound(RightLeaf(n).keys, RightLeaf(n).size, k) =
                LowerBound(n.keys, n.size, k) - LeftLeaf(n).size
<1> DEFINE s == SplitIndex(n)
           b == LowerBound(n.keys, n.size, k)
<1>0. /\ LeafN \in Nat /\ IsArray(n.keys, LeafN) /\ s \in 1 .. LeafN - 1
      /\ LeafN \in 0 .. LeafN /\ s \in 0 .. LeafN /\ LeafN - s \in 0 .. LeafN
      /\ Sorted(n.keys, LeafN) /\ Sorted(n.keys, s) /\ n.size = LeafN
  <2>1. s \in 1 .. LeafN - 1 /\ Sorted(n.keys, s)
    BY LeafHalves
  <2> QED BY <2>1, SizesAssumption, SMTT(30) DEF LeafType, IsArray
<1>1. b \in 1 .. LeafN + 1 /\ \A i \in 1 .. LeafN : i < b <=> n.keys[i] < k
  BY <1>0, LowerBoundBounds, LowerBoundSorted
<1> HIDE DEF b
<1>2. CASE k <= LeafPivot(n)
  <2>1. k <= n.keys[s]
    BY <1>2 DEF LeafPivot
  <2>2. b \in 1 .. s + 1 /\ \A i \in 1 .. s : i < b <=> n.keys[i] < k
    <3>1. n.keys[s] \in Nat /\ s \in 1 .. LeafN
      BY <1>0 DEF IsArray
    <3>2. ~(s < b)
      BY <1>1, <2>1, <3>1
    <3> HIDE DEF s
    <3> QED BY <1>0, <1>1, <3>2
  <2>3. LowerBound(n.keys, s, k) = b
    BY <1>0, <2>2, LowerBoundUnique, SMTT(30)
  <2> QED BY <1>2, <2>3, LeafHalves DEF b
<1>3. CASE ~(k <= LeafPivot(n))
  <2> DEFINE r == RightLeaf(n).keys
  <2>1. n.keys[s] < k
    BY <1>0, <1>3, SMTT(30) DEF LeafPivot, IsArray
  <2>2. IsArray(r, LeafN) /\ Sorted(r, LeafN - s)
        /\ \A j \in 1 .. LeafN - s : r[j] = n.keys[s + j]
    BY LeafHalves DEF LeafType, IsArray
  <2>3. b - s \in 1 .. LeafN - s + 1
    BY <1>0, <1>1, <2>1
  <2>4. \A j \in 1 .. LeafN - s : j < b - s <=> r[j] < k
    <3> HIDE DEF s, r
    <3> QED BY <1>0, <1>1, <2>2
  <2>5. LowerBound(r, LeafN - s, k) = b - s
    <3> DEFINE m == b - s
               l == LeafN - s
    <3>1. /\ l \in 0 .. LeafN /\ m \in 1 .. l + 1 /\ Sorted(r, l)
          /\ \A j \in 1 .. l : j < m <=> r[j] < k
      BY <1>0, <2>2, <2>3, <2>4
    <3> HIDE DEF m, l, r
    <3>2. LowerBound(r, l, k) = m
      BY <1>0, <2>2, <3>1, LowerBoundUnique, SMTT(30)
    <3> QED BY <3>2 DEF m, l
  <2> QED BY <1>3, <2>5, LeafHalves DEF b
<1> QED BY <1>2, <1>3

LEMMA InnerHalves ==
  ASSUME NEW n \in InnerType, n.size = InnerN, NEW S, ChildrenIn(n, S)
  PROVE  /\ LeftInner(n) \in InnerType /\ LeftInner(n).size < InnerN
         /\ RightInner(n) \in InnerType /\ RightInner(n).size < InnerN
         /\ ChildrenIn(LeftInner(n), S) /\ ChildrenIn(RightInner(n), S)
         /\ InnerPivot(n) \in Nat
<1>0. /\ InnerN \in Nat \ {0, 1} /\ InnerN % 2 = 1
      /\ IsArray(n.pivots, InnerN) /\ IsArray(n.children, InnerN + 1)
      /\ n = [leaf |-> FALSE, size |-> InnerN, pivots |-> n.pivots, children |-> n.children]
  BY SizesAssumption DEF InnerType, IsArray
<1> DEFINE h == InnerN \div 2
<1>1. h \in 1 .. InnerN - 1 /\ InnerN = 2 * h + 1 /\ SplitIndex(n) = h + 1
  BY <1>0, HalfOf DEF SplitIndex
<1>2. /\ LeftInner(n) \in InnerType /\ LeftInner(n).size = h
      /\ LeftInner(n).children = n.children
  <2>1. LeftInner(n) = [n EXCEPT !.size = h]
    <3>1. InnerN - InnerN \div 2 - 1 = h
      BY <1>0, <1>1
    <3> QED BY <3>1 DEF LeftInner
  <2>2. h \in 1 .. InnerN
    BY <1>0, <1>1
  <2> QED BY <2>1, <2>2 DEF InnerType
<1>3. /\ IsArray(Tails(n.pivots, h + 1, InnerN, Unset), InnerN)
      /\ IsArray(Tails(n.children, h + 1, InnerN + 1, Unset), InnerN + 1)
      /\ \A j \in 1 .. h + 1 :
           Tails(n.children, h + 1, InnerN + 1, Unset)[j] = n.children[h + 1 + j]
  <2> HIDE DEF h
  <2>1. /\ InnerN \in Nat /\ InnerN \in 0 .. InnerN /\ h + 1 \in 0 .. InnerN
        /\ InnerN + 1 \in Nat /\ InnerN + 1 \in 0 .. InnerN + 1 /\ h + 1 \in 0 .. InnerN + 1
        /\ InnerN + 1 - (h + 1) = h + 1
    BY <1>0, <1>1
  <2>2. /\ IsArray(Tails(n.pivots, h + 1, InnerN, Unset), InnerN)
    BY <1>0, <2>1, TailsType
  <2>3. /\ IsArray(Tails(n.children, h + 1, InnerN + 1, Unset), InnerN + 1)
        /\ \A j \in 1 .. InnerN + 1 - (h + 1) :
           Tails(n.children, h + 1, InnerN + 1, Unset)[j] = n.children[h + 1 + j]
    BY <1>0, <2>1, TailsType
  <2> QED BY <2>1, <2>2, <2>3
<1>4. /\ RightInner(n) \in InnerType /\ RightInner(n).size = h
      /\ RightInner(n).children = Tails(n.children, h + 1, InnerN + 1, Unset)
  <2>1. RightInner(n) = [leaf |-> FALSE, size |-> h,
                         pivots |-> Tails(n.pivots, h + 1, InnerN, Unset),
                         children |-> Tails(n.children, h + 1, InnerN + 1, Unset)]
    BY <1>0, <1>1 DEF RightInner, Inner
  <2> HIDE DEF h
  <2>2. h \in 1 .. InnerN
    BY <1>0, <1>1
  <2> QED BY <1>3, <2>1, <2>2 DEF InnerType, IsArray
<1> HIDE DEF h
<1>5. ChildrenIn(LeftInner(n), S)
  BY <1>0, <1>1, <1>2 DEF ChildrenIn
<1>6. ChildrenIn(RightInner(n), S)
  <2> SUFFICES ASSUME NEW j \in 1 .. h + 1 PROVE RightInner(n).children[j] \in S
    BY <1>4 DEF ChildrenIn
  <2>1. h + 1 + j \in 1 .. InnerN + 1
    BY <1>1
  <2> QED BY <1>3, <1>4, <2>1 DEF ChildrenIn
<1>7. InnerPivot(n) \in Nat
  <2>1. SplitIndex(n) \in 1 .. InnerN
    BY <1>0, <1>1
  <2> QED BY <1>0, <2>1 DEF InnerPivot, IsArray
<1> QED BY <1>1, <1>2, <1>4, <1>5, <1>6, <1>7

(* The half for the key, its size and its type, for both kinds of nodes. *)
LEMMA Halves ==
  ASSUME NEW S, NEW n, NodeOK(n, S), Full(n)
  PROVE  /\ NodeOK(Left(n), S) /\ NodeOK(Right(n), S) /\ Pivot(n) \in Nat
         /\ Left(n).leaf = n.leaf /\ Right(n).leaf = n.leaf
         /\ Left(n).size < (IF n.leaf THEN LeafN ELSE InnerN)
         /\ Right(n).size < (IF n.leaf THEN LeafN ELSE InnerN)
<1>1. CASE n \in LeafType /\ Sorted(n.keys, n.size)
  <2>1. n.leaf = TRUE /\ n.size = LeafN
    BY <1>1 DEF LeafType, IsArray, Full
  <2>2. LeafN \in Nat /\ SplitIndex(n) \in 1 .. LeafN - 1
    BY <1>1, <2>1, SizesAssumption, LeafHalves
  <2>3. /\ LeftLeaf(n) \in LeafType /\ Sorted(LeftLeaf(n).keys, LeftLeaf(n).size)
        /\ RightLeaf(n) \in LeafType /\ Sorted(RightLeaf(n).keys, RightLeaf(n).size)
        /\ LeftLeaf(n).size < LeafN /\ RightLeaf(n).size < LeafN /\ LeafPivot(n) \in Nat
    BY <1>1, <2>1, <2>2, LeafHalves
  <2>4. LeftLeaf(n).leaf = TRUE /\ RightLeaf(n).leaf = TRUE
    BY <2>3 DEF LeafType, IsArray
  <2> QED BY <2>1, <2>3, <2>4 DEF Left, Right, Pivot, NodeOK
<1>2. CASE n \in InnerType /\ ChildrenIn(n, S)
  <2>1. ~n.leaf /\ n.size = InnerN
    BY <1>2 DEF InnerType, IsArray, Full
  <2> QED BY <1>2, <2>1, InnerHalves DEF Left, Right, Pivot, NodeOK, InnerType, IsArray
<1> QED BY <1>1, <1>2 DEF NodeOK

LEMMA WithPivotOK ==
  ASSUME NEW n \in InnerType, n.size < InnerN, NEW S, ChildrenIn(n, S),
         NEW k \in Nat, NEW pivot \in Nat, NEW page \in S \cap Nat
  PROVE  LET m == WithPivot(n, ChildIndex(n, k), pivot, page) IN
         m \in InnerType /\ ChildrenIn(m, S)
<1> DEFINE i == ChildIndex(n, k)
           m == WithPivot(n, i, pivot, page)
<1>0. /\ InnerN \in Nat /\ n.size \in 1 .. InnerN - 1 /\ n.size \in 0 .. InnerN - 1
      /\ n.size \in 0 .. InnerN
      /\ IsArray(n.pivots, InnerN) /\ IsArray(n.children, InnerN + 1)
  BY SizesAssumption, SMTT(30) DEF InnerType, IsArray
<1>1. i \in 1 .. n.size + 1
  BY <1>0, LowerBoundBounds DEF ChildIndex
<1> HIDE DEF i
<1>2. IsArray(InsertAt(n.pivots, n.size, i, pivot), InnerN)
  BY <1>0, <1>1, InsertAtType
<1> DEFINE c == InsertAt(n.children, n.size + 1, i + 1, page)
<1>3. /\ IsArray(c, InnerN + 1)
      /\ \A j \in 1 .. n.size + 2 : c[j] =
           IF j < i + 1 THEN n.children[j] ELSE IF j = i + 1 THEN page ELSE n.children[j - 1]
  <2> DEFINE z == n.size + 1
             N == InnerN + 1
             l == i + 1
  <2>1. N \in Nat /\ z \in 0 .. N - 1 /\ l \in 1 .. z + 1
    <3>1. n.size + 1 \in 0 .. InnerN + 1 - 1
      BY <1>0
    <3>2. i + 1 \in 1 .. n.size + 1 + 1
      BY <1>0, <1>1
    <3> QED BY <1>0, <3>1, <3>2
  <2>2. IsArray(n.children, N) /\ page \in Nat
    BY <1>0
  <2> HIDE DEF z, N, l
  <2>3. /\ IsArray(InsertAt(n.children, z, l, page), N)
        /\ \A j \in 1 .. z + 1 : InsertAt(n.children, z, l, page)[j] =
              IF j < l THEN n.children[j] ELSE IF j = l THEN page ELSE n.children[j - 1]
    <3> DEFINE a == n.children
    <3>1. IsArray(a, N)
      BY <2>2
    <3> HIDE DEF a
    <3>2. /\ IsArray(InsertAt(a, z, l, page), N)
          /\ \A j \in 1 .. z + 1 : InsertAt(a, z, l, page)[j] =
               IF j < l THEN a[j] ELSE IF j = l THEN page ELSE a[j - 1]
      BY <2>1, <2>2, <3>1, InsertAtType
    <3> QED BY <3>2 DEF a
  <2>4. z + 1 = n.size + 2
    BY <1>0 DEF z
  <2> QED BY <2>3, <2>4 DEF z, N, l
<1> HIDE DEF c
<1>4. m \in InnerType /\ m.size = n.size + 1 /\ m.children = c
  <2>1. m = [leaf |-> FALSE, size |-> n.size + 1,
             pivots |-> InsertAt(n.pivots, n.size, i, pivot), children |-> c]
    BY DEF WithPivot, Inner, c
  <2> HIDE DEF m
  <2>2. n.size + 1 \in 1 .. InnerN
    BY <1>0
  <2> QED BY <1>2, <1>3, <2>1, <2>2 DEF InnerType, IsArray
<1>5. ChildrenIn(m, S)
  <2> SUFFICES ASSUME NEW j \in 1 .. n.size + 2 PROVE c[j] \in S
    BY <1>0, <1>4 DEF ChildrenIn
  <2>0. i \in Nat /\ n.size \in Nat
    BY <1>0, <1>1
  <2>1. CASE j < i + 1
    <3>1. j \in 1 .. n.size + 1
      BY <1>1, <2>0, <2>1
    <3> QED BY <1>3, <2>1, <3>1 DEF ChildrenIn
  <2>2. CASE j = i + 1
    BY <1>3, <2>2
  <2>3. CASE j > i + 1
    <3>1. j - 1 \in 1 .. n.size + 1
      BY <1>1, <2>0, <2>3
    <3>2. ~(j < i + 1) /\ j # i + 1
      BY <2>0, <2>3
    <3> QED BY <1>3, <3>1, <3>2 DEF ChildrenIn
  <2> QED BY <2>0, <2>1, <2>2, <2>3
<1> QED BY <1>4, <1>5 DEF i

LEMMA NewRootOK ==
  ASSUME NEW S, NEW left \in S \cap Nat, NEW right \in S \cap Nat, NEW pivot \in Nat
  PROVE  LET m == NewRoot(pivot, left, right) IN m \in InnerType /\ ChildrenIn(m, S)
BY SizesAssumption DEF NewRoot, Inner, InnerType, IsArray, ChildrenIn, Unset

LEMMA LeafChanges ==
  ASSUME NEW n \in LeafType, Sorted(n.keys, n.size), NEW k \in Nat, NEW v \in Nat
  PROVE  LET b == LowerBound(n.keys, n.size, k) IN
         /\ b \in 1 .. n.size + 1
         /\ b <= n.size => /\ WithValue(n, b, v) \in LeafType
                           /\ WithValue(n, b, v).keys = n.keys /\ WithValue(n, b, v).size = n.size
                           /\ WithoutPair(n, b) \in LeafType
                           /\ Sorted(WithoutPair(n, b).keys, WithoutPair(n, b).size)
         /\ n.size < LeafN => /\ WithPair(n, b, k, v) \in LeafType
                              /\ Sorted(WithPair(n, b, k, v).keys, WithPair(n, b, k, v).size)
<1> DEFINE b == LowerBound(n.keys, n.size, k)
<1>0. /\ LeafN \in Nat /\ n.size \in 0 .. LeafN /\ n.leaf = TRUE
      /\ IsArray(n.keys, LeafN) /\ IsArray(n.values, LeafN)
  BY SizesAssumption DEF LeafType, IsArray
<1>1. b \in 1 .. n.size + 1
  BY <1>0, LowerBoundBounds
<1>2. ASSUME n.size < LeafN
      PROVE  /\ WithPair(n, b, k, v) \in LeafType
             /\ Sorted(WithPair(n, b, k, v).keys, WithPair(n, b, k, v).size)
  <2>0. n.size \in 0 .. LeafN - 1
    BY <1>0, <1>2
  <2>2. Sorted(InsertAt(n.keys, n.size, b, k), n.size + 1)
    BY <1>0, <2>0, InsertAtSorted
  <2> HIDE DEF b
  <2>1. IsArray(InsertAt(n.keys, n.size, b, k), LeafN)
        /\ IsArray(InsertAt(n.values, n.size, b, v), LeafN)
    BY <1>0, <1>1, <2>0, InsertAtType
  <2>3. WithPair(n, b, k, v) =
          [leaf |-> TRUE, size |-> n.size + 1, keys |-> InsertAt(n.keys, n.size, b, k),
           values |-> InsertAt(n.values, n.size, b, v)]
    BY DEF WithPair, Leaf
  <2>4. n.size + 1 \in 0 .. LeafN
    BY <1>0, <2>0
  <2> QED BY <2>1, <2>2, <2>3, <2>4 DEF LeafType, IsArray
<1>3. ASSUME b <= n.size
      PROVE  /\ WithValue(n, b, v) \in LeafType
             /\ WithValue(n, b, v).keys = n.keys /\ WithValue(n, b, v).size = n.size
             /\ WithoutPair(n, b) \in LeafType
             /\ Sorted(WithoutPair(n, b).keys, WithoutPair(n, b).size)
  <2>0. b \in 1 .. n.size /\ n.size \in 1 .. LeafN
    BY <1>0, <1>1, <1>3
  <2> HIDE DEF b
  <2>1. /\ IsArray(EraseAt(n.keys, n.size, b), LeafN)
        /\ IsArray(EraseAt(n.values, n.size, b), LeafN)
        /\ Sorted(EraseAt(n.keys, n.size, b), n.size - 1)
    BY <1>0, <2>0, EraseAtType
  <2>2. WithoutPair(n, b) \in LeafType
        /\ Sorted(WithoutPair(n, b).keys, WithoutPair(n, b).size)
    <3>1. WithoutPair(n, b) =
            [leaf |-> TRUE, size |-> n.size - 1, keys |-> EraseAt(n.keys, n.size, b),
             values |-> EraseAt(n.values, n.size, b)]
      BY DEF WithoutPair, Leaf
    <3>2. n.size - 1 \in 0 .. LeafN
      BY <1>0, <2>0
    <3> QED BY <2>1, <3>1, <3>2 DEF LeafType, IsArray
  <2>3. WithValue(n, b, v) \in LeafType
        /\ WithValue(n, b, v).keys = n.keys /\ WithValue(n, b, v).size = n.size
    BY <1>0, <2>0 DEF WithValue, LeafType, IsArray
  <2> QED BY <2>2, <2>3
<1> QED BY <1>1, <1>2, <1>3

LEMMA RootCreated == ASSUME TreeInv PROVE Root \in Created /\ Created \subseteq Pages
<1> DEFINE c == Cardinality(Created)
<1>1. Created = 1 .. c /\ c \in 1 .. MaxPages
  BY DEF TreeInv, PagesOK
<1> HIDE DEF c
<1> QED BY <1>1, PagesAssumption DEF Root, Pages
(***************************************************************************)
(* What a step of one thread leaves alone.                                 *)
(***************************************************************************)
OthersStay(t) ==
  \A u \in Threads \ {t} :
    /\ access'[u] = access[u] /\ pc'[u] = pc[u] /\ call'[u] = call[u]
    /\ exclusiveMode'[u] = exclusiveMode[u] /\ mode'[u] = mode[u]
    /\ current'[u] = current[u] /\ parent'[u] = parent[u]
    /\ keyIt'[u] = keyIt[u] /\ keyIndex'[u] = keyIndex[u]

(* It creates pages, and changes only those it has locked for it. *)
OthersPages(t) ==
  /\ Created \subseteq Created'
  /\ \A p \in Created : access[t][p] # "write" => node'[p] = node[p]
  /\ leafRoot' => leafRoot

LEMMA OthersKept ==
  ASSUME TreeInv, NEW t \in Threads, OthersStay(t), OthersPages(t),
         NEW u \in Threads \ {t}
  PROVE  ThreadOK(u)'
<1>0. /\ u \in Threads /\ LocalTypes /\ LocksOK /\ ThreadOK(u)
      /\ Created \subseteq Pages
  BY RootCreated DEF TreeInv
<1>1. \A p \in Created : access[u][p] # "none" => node'[p] = node[p]
  BY <1>0 DEF LocksOK, OthersPages
<1>2. StartOK(u)'
  BY <1>0 DEF ThreadOK, StartOK, OthersStay, OthersPages
<1>3. CurrentOK(u)'
  BY <1>0, <1>1 DEF ThreadOK, CurrentOK, OthersStay, OthersPages
<1>4. ParentOK(u)'
  BY <1>0, <1>1 DEF ThreadOK, ParentOK, OthersStay, OthersPages
<1>5. WriteOK(u)'
  <2> SUFFICES ASSUME pc[u] = "write" PROVE WriteOK(u)'
    BY DEF WriteOK, OthersStay
  <2>1. node'[current[u]] = node[current[u]]
    BY <1>0, <1>1 DEF ThreadOK, CurrentOK
  <2> QED BY <1>0, <2>1 DEF ThreadOK, WriteOK, OthersStay
<1> QED BY <1>2, <1>3, <1>4, <1>5 DEF ThreadOK

(* The locks of a thread after Holds. *)
LEMMA HoldsRow ==
  ASSUME LocalTypes, NEW t \in Threads, NEW h, Holds(t, h),
         \A p \in DOMAIN h : h[p] \in {"read", "write"}
  PROVE  /\ access' \in [Threads -> [Pages -> {"none", "read", "write"}]]
         /\ \A u \in Threads \ {t} : access'[u] = access[u]
         /\ \A p \in Pages : access'[t][p] = IF p \in DOMAIN h THEN h[p] ELSE "none"
<1> DEFINE row == [p \in 1 .. MaxPages |-> IF p \in DOMAIN h THEN h[p] ELSE "none"]
<1>1. access' = [access EXCEPT ![t] = row]
  BY DEF Holds
<1>2. row \in [Pages -> {"none", "read", "write"}]
  BY DEF Pages
<1>3. \A p \in Pages : row[p] = IF p \in DOMAIN h THEN h[p] ELSE "none"
  BY DEF Pages
<1> HIDE DEF row
<1> QED BY <1>1, <1>2, <1>3 DEF LocalTypes

LEMMA TakesFrameType ==
  ASSUME TreeInv, NEW t \in Threads, NEW p, TakesFrame(t, p)
  PROVE  taken' \in [Threads -> BOOLEAN]
BY DEF TakesFrame

LEMMA HoldsOne ==
  ASSUME LocalTypes, NEW t \in Threads, NEW q, NEW m \in {"read", "write"},
         Holds(t, Only(q, m))
  PROVE  /\ access' \in [Threads -> [Pages -> {"none", "read", "write"}]]
         /\ \A u \in Threads \ {t} : access'[u] = access[u]
         /\ \A p \in Pages : access'[t][p] = IF p = q THEN m ELSE "none"
<1> DEFINE h == Only(q, m)
<1>1. DOMAIN h = {q} /\ h[q] = m
  BY DEF Only
<1> HIDE DEF h
<1>2. Holds(t, h)
  BY DEF h
<1> QED BY <1>1, <1>2, HoldsRow

LEMMA HoldsNothing ==
  ASSUME LocalTypes, NEW t \in Threads, Holds(t, Nothing)
  PROVE  /\ access' \in [Threads -> [Pages -> {"none", "read", "write"}]]
         /\ \A u \in Threads \ {t} : access'[u] = access[u]
         /\ \A p \in Pages : access'[t][p] = "none"
<1>1. DOMAIN Nothing = {}
  BY DEF Nothing
<1> QED BY <1>1, HoldsRow

(* Page locks stay exclusive when a thread keeps some, takes some that are  *)
(* free, and gets those of the pages it creates.                            *)
LEMMA LocksStep ==
  ASSUME TreeInv, NEW t \in Threads, Created \subseteq Created',
         \A u \in Threads \ {t} : access'[u] = access[u],
         \A p \in Pages : access'[t][p] # "none" =>
           /\ p \in Created'
           /\ \/ p \notin Created
              \/ access[t][p] \in {"write", access'[t][p]}
              \/ CanPin(t, p, access'[t][p] = "write")
  PROVE  LocksOK'
<1>1. LocksOK
  BY DEF TreeInv
<1>2. ASSUME NEW v \in Threads, NEW p \in Pages, access'[v][p] # "none"
      PROVE  p \in Created'
  BY <1>1, <1>2 DEF LocksOK
<1>3. ASSUME NEW p \in Pages, access'[t][p] # "none", NEW u \in Threads \ {t}
      PROVE  /\ access[u][p] # "write"
             /\ access'[t][p] = "write" => access[u][p] = "none"
  BY <1>1, <1>3 DEF LocksOK, CanPin
<1>4. ASSUME NEW v \in Threads, NEW p \in Pages, access'[v][p] = "write",
             NEW u \in Threads \ {v}
      PROVE  access'[u][p] = "none"
  <2>1. CASE v = t
    BY <1>3, <1>4, <2>1
  <2>2. CASE v # t /\ u = t
    BY <1>3, <1>4, <2>2
  <2>3. CASE v # t /\ u # t
    BY <1>1, <1>4, <2>3 DEF LocksOK
  <2> QED BY <2>1, <2>2, <2>3
<1> QED BY <1>2, <1>4 DEF LocksOK, Pages

(* The parts of a step put together. *)
LEMMA TreeStep ==
  ASSUME TreeInv, NEW t \in Threads, OthersStay(t), OthersPages(t),
         LocalTypes', LocksOK', PagesOK', HeaderOK', ThreadOK(t)'
  PROVE  TreeInv'
<1>1. \A u \in Threads : ThreadOK(u)'
  BY OthersKept
<1> QED BY <1>1 DEF TreeInv

(* A thread inside an operation finds the tree open. *)
LEMMA OpenInCall ==
  ASSUME TreeInv, NEW t \in Threads, pc[t] # "client"
  PROVE  Open
BY DEF TreeInv, HeaderOK, At

LEMMA HeaderStep ==
  ASSUME TreeInv, Open, UNCHANGED header, node'[Root].leaf = node[Root].leaf
  PROVE  HeaderOK'
BY DEF TreeInv, HeaderOK, Open, header

(* Steps that change no node. *)
LEMMA QuietStep ==
  ASSUME TreeInv, NEW t \in Threads, UNCHANGED tree, Open, OthersStay(t),
         LocalTypes', ThreadOK(t)',
         \A p \in Pages : access'[t][p] # "none" =>
           p \in Created /\ (\/ access[t][p] \in {"write", access'[t][p]}
                             \/ CanPin(t, p, access'[t][p] = "write"))
  PROVE  TreeInv'
<1>1. /\ node' = node /\ UNCHANGED header /\ leafRoot' = leafRoot
      /\ headerFile' = headerFile /\ Created' = Created
  BY DEF tree, header, Created
<1>2. OthersPages(t)
  BY <1>1 DEF OthersPages
<1>3. LocksOK'
  BY <1>1, LocksStep DEF OthersStay
<1>4. PagesOK' /\ HeaderOK'
  <2>1. PagesOK'
    BY <1>1 DEF TreeInv, PagesOK
  <2>2. HeaderOK'
    BY <1>1, HeaderStep
  <2> QED BY <2>1, <2>2
<1> QED BY <1>2, <1>3, <1>4, TreeStep

(* A thread that answers has nothing left. *)
LEMMA AnswerStep ==
  ASSUME TreeInv, NEW t \in Threads, NEW r, Answer(t, r), Created \subseteq Created'
  PROVE  /\ OthersStay(t) /\ LocalTypes' /\ LocksOK' /\ ThreadOK(t)'
         /\ \A p \in Pages : access'[t][p] = "none"
<1>0. LocalTypes
  BY DEF TreeInv
<1>1. /\ access' \in [Threads -> [Pages -> {"none", "read", "write"}]]
      /\ \A u \in Threads \ {t} : access'[u] = access[u]
      /\ \A p \in Pages : access'[t][p] = "none"
  BY <1>0, HoldsNothing DEF Answer
<1>2. LocalTypes' /\ OthersStay(t)
  BY <1>0, <1>1 DEF Answer, LocalTypes, OthersStay, Go
<1>3. LocksOK'
  BY <1>1, LocksStep
<1>4. pc'[t] = "client" /\ ~exclusiveMode'[t] /\ parent'[t] = None
  BY <1>0 DEF Answer, Go, LocalTypes
<1>5. ThreadOK(t)'
  BY <1>1, <1>4 DEF ThreadOK, StartOK, CurrentOK, ParentOK, WriteOK, Outside
<1> QED BY <1>1, <1>2, <1>3, <1>5

(* The child a search goes on to. *)
LEMMA ChildInTree ==
  ASSUME TreeInv, NEW q \in Created, ~node[q].leaf, NEW k \in Nat
  PROVE  ChildOf(node[q], k) \in Created \ {Root}
<1> DEFINE n == node[q]
           a == n.pivots
           i == LowerBound(a, n.size, k)
<1>1. n \in InnerType /\ ChildrenIn(n, Created \ {Root})
  BY DEF TreeInv, PagesOK, NodeOK, LeafType
<1> HIDE DEF n
<1>2. InnerN \in Nat /\ n.size \in 0 .. InnerN /\ IsArray(a, InnerN)
  BY <1>1, SizesAssumption DEF InnerType, IsArray
<1>3. i = ChildIndex(n, k) /\ ChildOf(n, k) = n.children[i]
  BY DEF ChildOf, ChildIndex
<1> HIDE DEF a
<1>4. LowerBound(a, n.size, k) \in 1 .. n.size + 1
  BY <1>2, LowerBoundBounds
<1> HIDE DEF i
<1>5. ChildOf(n, k) \in Created \ {Root}
  BY <1>1, <1>3, <1>4 DEF ChildrenIn, i
<1> QED BY <1>5 DEF n


(***************************************************************************)
(* The steps that change no node.                                          *)
(***************************************************************************)
LEMMA HoldsTwo ==
  ASSUME LocalTypes, NEW t \in Threads, NEW q, NEW r,
         Holds(t, [p \in {q, r} |-> "write"])
  PROVE  /\ access' \in [Threads -> [Pages -> {"none", "read", "write"}]]
         /\ \A u \in Threads \ {t} : access'[u] = access[u]
         /\ \A p \in Pages : access'[t][p] = IF p \in {q, r} THEN "write" ELSE "none"
<1> DEFINE h == [p \in {q, r} |-> "write"]
<1>1. DOMAIN h = {q, r} /\ \A p \in {q, r} : h[p] = "write"
  OBVIOUS
<1> HIDE DEF h
<1>2. Holds(t, h)
  BY DEF h
<1>3. \A p \in DOMAIN h : h[p] \in {"read", "write"}
  BY <1>1
<1> QED BY <1>1, <1>2, <1>3, HoldsRow

(* What a thread inside an operation finds. *)
LEMMA InCall ==
  ASSUME TreeInv, NEW t \in Threads, pc[t] # "client"
  PROVE  /\ Open /\ LocalTypes /\ StartOK(t) /\ CurrentOK(t) /\ ParentOK(t) /\ WriteOK(t)
         /\ LocksOK /\ PagesOK /\ HeaderOK /\ Root \in Created /\ Created \subseteq Pages
         /\ Pages \subseteq Nat /\ None \notin Pages
         /\ call[t] \in CallType /\ Key(t) \in Nat /\ call[t].value \in Nat
<1>1. Pages \subseteq Nat /\ None \notin Pages
  BY PagesAssumption, ThreadsAssumption DEF Pages
<1>2. call[t] \in CallType
  BY DEF TreeInv, ThreadOK, StartOK
<1>3. Key(t) \in Nat /\ call[t].value \in Nat
  BY <1>2, KeysAssumption DEF CallType, Key
<1> QED BY <1>1, <1>2, <1>3, OpenInCall, RootCreated DEF TreeInv, ThreadOK

LEMMA BeginStep ==
  ASSUME TreeInv, NEW t \in Threads, NEW c \in CallType, Begin(t, c), loaded' \in Nat
  PROVE  TreeInv'
<1>0. LocalTypes /\ Open /\ ThreadOK(t) /\ pc[t] = "client"
  BY DEF TreeInv, Begin, At
<1>1. /\ UNCHANGED tree /\ UNCHANGED access /\ Created' = Created
  BY DEF Begin, tree, Created
<1>2. OthersStay(t)
  BY <1>0, <1>1 DEF OthersStay, Begin, Go, LocalTypes, search
<1>3. LocalTypes'
  BY <1>0, <1>1 DEF LocalTypes, Begin, Go, search
<1>4. /\ call'[t] = c /\ mode'[t] = FALSE /\ exclusiveMode'[t] = FALSE
      /\ pc'[t] = IF c.op = "insert" THEN "header" ELSE "root"
      /\ parent'[t] = parent[t]
  BY <1>0 DEF LocalTypes, Begin, Go, ThreadOK, StartOK
<1>5. \A p \in Pages : access'[t][p] = "none"
  BY <1>0, <1>1 DEF ThreadOK, StartOK, Outside
<1>6. parent[t] = None
  BY <1>0 DEF ThreadOK, ParentOK
<1>7. ThreadOK(t)'
  BY <1>4, <1>5, <1>6 DEF ThreadOK, StartOK, CurrentOK, ParentOK, WriteOK
<1> QED BY <1>0, <1>1, <1>2, <1>3, <1>5, <1>7, QuietStep

LEMMA CallStep ==
  ASSUME TreeInv, NEW t \in Threads, NEW n \in DOMAIN Operations[t],
         NEW c \in Operations[t][n], Call(t, c)
  PROVE  TreeInv'
BY OperationsAssumption, BeginStep DEF Call, TreeInv, LocalTypes

LEMMA LoadStep ==
  ASSUME TreeInv, NEW t \in Threads, Load(t)
  PROVE  TreeInv'
<1> DEFINE c == [op |-> "insert", key |-> Preload[loaded + 1], value |-> 1]
<1>1. loaded \in Nat /\ loaded' = loaded + 1 /\ loaded < Len(Preload) /\ Begin(t, c)
  BY DEF Load, TreeInv, LocalTypes
<1>2. Preload[loaded + 1] \in Keys
  BY <1>1, KeysAssumption
<1>3. c \in CallType
  BY <1>2 DEF CallType
<1> QED BY <1>1, <1>3, BeginStep

LEMMA ReadHeaderStep ==
  ASSUME TreeInv, NEW t \in Threads, ReadHeader(t)
  PROVE  TreeInv'
<1>0. pc[t] = "header"
  BY DEF ReadHeader, At
<1> USE <1>0, InCall
<1>1. /\ UNCHANGED tree /\ UNCHANGED access /\ Created' = Created /\ UNCHANGED client
  BY DEF ReadHeader, tree, Created
<1>2. OthersStay(t)
  BY <1>1 DEF OthersStay, ReadHeader, Go, LocalTypes, search, client
<1>3. LocalTypes'
  BY <1>1 DEF LocalTypes, ReadHeader, Go, search, client, HeaderOK, ModeOfRoot
<1>4. /\ call'[t] = call[t] /\ mode'[t] = leafRoot /\ exclusiveMode'[t] = FALSE
      /\ pc'[t] = "root" /\ parent'[t] = parent[t] /\ leafRoot' = leafRoot
  BY <1>1 DEF LocalTypes, ReadHeader, Go, StartOK, client, ModeOfRoot, tree, header
<1>5. \A p \in Pages : access'[t][p] = "none"
  BY <1>1 DEF StartOK, Outside
<1>6. ThreadOK(t)'
  BY <1>4, <1>5 DEF ThreadOK, StartOK, CurrentOK, ParentOK, WriteOK
<1> QED BY <1>1, <1>2, <1>3, <1>5, <1>6, QuietStep

LEMMA PinRootStep ==
  ASSUME TreeInv, NEW t \in Threads, PinRoot(t)
  PROVE  TreeInv'
<1>0. pc[t] = "root"
  BY DEF PinRoot, At
<1> USE <1>0, InCall
<1> DEFINE m == Mode(mode[t])
<1>1. /\ UNCHANGED tree /\ node' = node /\ Created' = Created /\ UNCHANGED client
      /\ leafRoot' = leafRoot
  BY DEF PinRoot, tree, Created, header
<1>2. m \in {"read", "write"} /\ (m = "write" <=> mode[t]) /\ Holds(t, Only(Root, m))
  BY DEF Mode, PinRoot, LocalTypes
<1> HIDE DEF m
<1>3. /\ access' \in [Threads -> [Pages -> {"none", "read", "write"}]]
      /\ \A u \in Threads \ {t} : access'[u] = access[u]
      /\ \A p \in Pages : access'[t][p] = IF p = Root THEN m ELSE "none"
  BY <1>2, HoldsOne
<1>4. OthersStay(t)
  BY <1>1, <1>3 DEF OthersStay, PinRoot, Go, LocalTypes, client
<1>frames. taken' \in [Threads -> BOOLEAN]
  BY TakesFrameType DEF PinRoot
<1>5. LocalTypes'
  BY <1>1, <1>3, <1>frames DEF LocalTypes, PinRoot, Go, client
<1>6. /\ call'[t] = call[t] /\ mode'[t] = mode[t] /\ exclusiveMode'[t] = exclusiveMode[t]
      /\ parent'[t] = None /\ current'[t] = Root
      /\ pc'[t] = IF node[Root].leaf THEN "leaf"
                  ELSE IF exclusiveMode[t] THEN "inner" ELSE "descend"
  BY <1>1 DEF LocalTypes, PinRoot, Go, ParentOK, client
<1>7. CurrentOK(t)'
  BY <1>1, <1>2, <1>3, <1>6 DEF CurrentOK, StartOK, HeaderOK
<1>8. ThreadOK(t)'
  BY <1>1, <1>6, <1>7 DEF ThreadOK, StartOK, ParentOK, WriteOK, Outside
<1>9. CanPin(t, Root, m = "write")
  BY <1>2 DEF PinRoot, CanPin
<1> QED BY <1>1, <1>3, <1>4, <1>5, <1>8, <1>9, QuietStep

LEMMA RepinRootStep ==
  ASSUME TreeInv, NEW t \in Threads, RepinRoot(t)
  PROVE  TreeInv'
<1>0. pc[t] = "leaf" /\ call[t].op \in {"update", "erase"}
  BY DEF RepinRoot, At, Op
<1> USE <1>0, InCall
<1>1. /\ UNCHANGED tree /\ node' = node /\ Created' = Created /\ UNCHANGED client
      /\ leafRoot' = leafRoot
  BY DEF RepinRoot, tree, Created, header
<1>3. /\ access' \in [Threads -> [Pages -> {"none", "read", "write"}]]
      /\ \A u \in Threads \ {t} : access'[u] = access[u]
      /\ \A p \in Pages : access'[t][p] = "none"
  BY HoldsNothing DEF RepinRoot, HeldByRepin
<1>4. OthersStay(t)
  BY <1>1, <1>3 DEF OthersStay, RepinRoot, Go, LocalTypes, search, client
<1>5. LocalTypes'
  BY <1>1, <1>3 DEF LocalTypes, RepinRoot, Go, search, client
<1>6. /\ call'[t] = call[t] /\ mode'[t] = TRUE /\ exclusiveMode'[t] = FALSE
      /\ parent'[t] = None /\ pc'[t] = "root"
  BY <1>1 DEF LocalTypes, RepinRoot, Go, ParentOK, StartOK, client
<1>7. ThreadOK(t)'
  BY <1>3, <1>6 DEF ThreadOK, StartOK, CurrentOK, ParentOK, WriteOK
<1> QED BY <1>1, <1>3, <1>4, <1>5, <1>7, QuietStep

LEMMA PassesStep ==
  ASSUME TreeInv, NEW t \in Threads, Passes(t)
  PROVE  TreeInv'
<1>0. pc[t] = "inner" /\ exclusiveMode[t]
  BY InCall DEF Passes, At, CurrentOK
<1> USE <1>0, InCall
<1>1. /\ UNCHANGED tree /\ node' = node /\ Created' = Created /\ UNCHANGED client
  BY DEF Passes, tree, Created
<1>2. /\ current[t] \in Created /\ ~node[current[t]].leaf
      /\ access[t][current[t]] = "write" /\ node[current[t]].size < InnerN
  <2>1. /\ current[t] \in Created /\ ~node[current[t]].leaf
        /\ access[t][current[t]] = "write" /\ node[current[t]].size # InnerN
    BY DEF CurrentOK, Passes, HasRoom, Full, Here
  <2>2. node[current[t]] \in InnerType
    BY <2>1 DEF PagesOK, NodeOK, LeafType
  <2>3. node[current[t]].size \in 1 .. InnerN
    BY <2>2 DEF InnerType
  <2> QED BY <2>1, <2>3, SizesAssumption
<1>3. /\ access' \in [Threads -> [Pages -> {"none", "read", "write"}]]
      /\ \A u \in Threads \ {t} : access'[u] = access[u]
      /\ \A p \in Pages : access'[t][p] = IF p = current[t] THEN "write" ELSE "none"
  BY HoldsOne DEF Passes
<1>4. OthersStay(t)
  BY <1>1, <1>3 DEF OthersStay, Passes, Go, LocalTypes, search, client
<1>5. LocalTypes'
  BY <1>1, <1>3 DEF LocalTypes, Passes, Go, search, client
<1>6. /\ call'[t] = call[t] /\ mode'[t] = mode[t] /\ exclusiveMode'[t]
      /\ parent'[t] = None /\ pc'[t] = "descend" /\ current'[t] = current[t]
  BY <1>1 DEF LocalTypes, Passes, Go, client
<1>7. ThreadOK(t)'
  BY <1>1, <1>2, <1>3, <1>6 DEF ThreadOK, StartOK, CurrentOK, ParentOK, WriteOK, Outside
<1> QED BY <1>1, <1>2, <1>3, <1>4, <1>5, <1>7, QuietStep

LEMMA RetryExclusiveStep ==
  ASSUME TreeInv, NEW t \in Threads, RetryExclusive(t)
  PROVE  TreeInv'
<1>0. pc[t] = "leaf" /\ call[t].op = "insert" /\ ~exclusiveMode[t]
  BY DEF RetryExclusive, AtLeaf, At, Op
<1> USE <1>0, InCall
<1>1. /\ UNCHANGED tree /\ node' = node /\ Created' = Created /\ UNCHANGED client
      /\ leafRoot' = leafRoot
  BY DEF RetryExclusive, tree, Created, header
<1>3. /\ access' \in [Threads -> [Pages -> {"none", "read", "write"}]]
      /\ \A u \in Threads \ {t} : access'[u] = access[u]
      /\ \A p \in Pages : access'[t][p] = "none"
  BY HoldsNothing DEF RetryExclusive
<1>4. OthersStay(t)
  BY <1>1, <1>3 DEF OthersStay, RetryExclusive, Go, LocalTypes, search, client
<1>5. LocalTypes'
  BY <1>1, <1>3 DEF LocalTypes, RetryExclusive, Go, search, client
<1>6. /\ call'[t] = call[t] /\ mode'[t] = TRUE /\ exclusiveMode'[t]
      /\ parent'[t] = None /\ pc'[t] = "root"
  BY <1>1 DEF LocalTypes, RetryExclusive, Go, ParentOK, client
<1>7. ThreadOK(t)'
  BY <1>3, <1>6 DEF ThreadOK, StartOK, CurrentOK, ParentOK, WriteOK
<1> QED BY <1>1, <1>3, <1>4, <1>5, <1>7, QuietStep

LEMMA KeepLeafStep ==
  ASSUME TreeInv, NEW t \in Threads, KeepLeaf(t)
  PROVE  TreeInv'
<1>0. pc[t] = "leaf" /\ call[t].op = "insert"
  BY DEF KeepLeaf, AtLeaf, At, Op
<1> USE <1>0, InCall
<1> DEFINE q == current[t]
           n == node[q]
           b == LowerBound(n.keys, n.size, Key(t))
<1>1. /\ UNCHANGED tree /\ node' = node /\ Created' = Created /\ UNCHANGED client
  BY DEF KeepLeaf, tree, Created
<1>2. /\ q \in Created /\ n.leaf /\ access[t][q] = "write"
      /\ n.size = LeafN => HasKey(n, Key(t))
  <2>1. q \in Created /\ n.leaf /\ access[t][q] = "write"
    BY DEF CurrentOK
  <2> QED BY <2>1 DEF KeepLeaf, Full, Here
<1>3. b \in 1 .. LeafN + 1
  <2>1. n \in LeafType
    BY <1>2 DEF PagesOK, NodeOK, InnerType
  <2> HIDE DEF n
  <2>2. n.size \in 0 .. LeafN /\ IsArray(n.keys, LeafN) /\ LeafN \in Nat
    BY <2>1, SizesAssumption DEF LeafType, IsArray
  <2>3. b \in 1 .. n.size + 1
    BY <2>2, LowerBoundBounds
  <2> HIDE DEF b
  <2> QED BY <2>2, <2>3
<1>4. /\ keyIt' = [keyIt EXCEPT ![t] = <<q, b>>]
      /\ keyIndex' = [keyIndex EXCEPT ![t] = b]
  BY DEF KeepLeaf, Searched, IndexOfKey, Here
<1> HIDE DEF b, n, q
<1>5. /\ access' \in [Threads -> [Pages -> {"none", "read", "write"}]]
      /\ \A u \in Threads \ {t} : access'[u] = access[u]
      /\ \A p \in Pages : access'[t][p] = IF p = q THEN "write" ELSE "none"
  <2>1. Holds(t, Only(q, "write"))
    BY <1>2 DEF KeepLeaf, q
  <2> QED BY <2>1, HoldsOne
<1>6. OthersStay(t)
  BY <1>1, <1>4, <1>5 DEF OthersStay, KeepLeaf, Go, LocalTypes, client
<1>7. LocalTypes'
  BY <1>1, <1>3, <1>4, <1>5 DEF LocalTypes, KeepLeaf, Go, client
<1>8. /\ call'[t] = call[t] /\ mode'[t] = mode[t] /\ exclusiveMode'[t] = exclusiveMode[t]
      /\ parent'[t] = None /\ pc'[t] = "write" /\ current'[t] = q
      /\ keyIt'[t] = <<q, b>> /\ keyIndex'[t] = b
  BY <1>1, <1>4 DEF LocalTypes, KeepLeaf, Go, client, q
<1>9. StartOK(t)' /\ CurrentOK(t)' /\ ParentOK(t)'
  BY <1>1, <1>2, <1>5, <1>8 DEF StartOK, CurrentOK, ParentOK, Outside, n
<1>10. WriteOK(t)'
  BY <1>1, <1>2, <1>8 DEF WriteOK, b, n, Key
<1> QED BY <1>1, <1>2, <1>5, <1>6, <1>7, <1>9, <1>10, QuietStep DEF ThreadOK

LEMMA FindLeafStep ==
  ASSUME TreeInv, NEW t \in Threads, FindLeaf(t)
  PROVE  TreeInv'
<1>0. pc[t] = "leaf" /\ UNCHANGED tree /\ Created' = Created
  BY DEF FindLeaf, At, tree, Created
<1>1. Answer(t, ValueIn(Here(t), Key(t))) /\ Created \subseteq Created'
  BY <1>0 DEF FindLeaf
<1>2. /\ OthersStay(t) /\ LocalTypes' /\ ThreadOK(t)'
      /\ \A p \in Pages : access'[t][p] = "none"
  BY <1>1, AnswerStep
<1> QED BY <1>0, <1>2, InCall, QuietStep

LEMMA PinChildStep ==
  ASSUME TreeInv, NEW t \in Threads, PinChild(t)
  PROVE  TreeInv'
<1>0. pc[t] = "descend"
  BY DEF PinChild, At
<1> USE <1>0, InCall
<1> DEFINE q == current[t]
           r == ChildOf(node[q], Key(t))
           x == ChildMode(t, r)
<1>1. /\ UNCHANGED tree /\ node' = node /\ Created' = Created /\ UNCHANGED client
  BY DEF PinChild, tree, Created
<1>2. /\ q \in Created /\ ~node[q].leaf /\ parent[t] = None
      /\ exclusiveMode[t] => access[t][q] = "write" /\ node[q].size < InnerN
  BY DEF CurrentOK, ParentOK
<1>3. r \in Created \ {Root}
  BY <1>2, ChildInTree
<1>4. /\ x \in BOOLEAN /\ (exclusiveMode[t] => x)
      /\ node[r].leaf /\ call[t].op # "find" => x
  <2>1. node[r].leaf \in BOOLEAN
    BY <1>3 DEF PagesOK, NodeOK, LeafType, InnerType
  <2> HIDE DEF r
  <2> QED BY <2>1 DEF ChildMode, LocalTypes, Op
<1>5. /\ CanPin(t, r, x)
      /\ current' = [current EXCEPT ![t] = r]
      /\ Go(t, IF node[r].leaf THEN "leaf"
               ELSE IF exclusiveMode[t] THEN "inner" ELSE "descend")
      /\ exclusiveMode[t] => /\ Holds(t, [p \in {q, r} |-> "write"])
                             /\ parent' = [parent EXCEPT ![t] = q]
      /\ ~exclusiveMode[t] => Holds(t, Only(r, Mode(x))) /\ parent' = parent
      /\ exclusiveMode' = exclusiveMode /\ mode' = mode
      /\ keyIt' = keyIt /\ keyIndex' = keyIndex
      /\ TakesFrame(t, r)
  BY DEF PinChild, Here
<1> HIDE DEF x, r
<1>6. /\ access' \in [Threads -> [Pages -> {"none", "read", "write"}]]
      /\ \A u \in Threads \ {t} : access'[u] = access[u]
      /\ access'[t][r] = Mode(x)
      /\ \A p \in Pages \ {r} :
           access'[t][p] = IF exclusiveMode[t] /\ p = q THEN "write" ELSE "none"
  <2>1. r \in Pages
    BY <1>3
  <2>2. CASE exclusiveMode[t]
    BY <1>4, <1>5, <2>1, <2>2, HoldsTwo, SMTT(30) DEF Mode
  <2>3. CASE ~exclusiveMode[t]
    <3>1. Mode(x) \in {"read", "write"} /\ Holds(t, Only(r, Mode(x)))
      BY <1>5, <2>3 DEF Mode
    <3> QED BY <2>1, <2>3, <3>1, HoldsOne
  <2> QED BY <2>2, <2>3
<1>7. OthersStay(t)
  BY <1>1, <1>5, <1>6 DEF OthersStay, Go, LocalTypes, client
<1>frames. taken' \in [Threads -> BOOLEAN]
  BY <1>5, TakesFrameType
<1>8. LocalTypes'
  BY <1>1, <1>2, <1>3, <1>5, <1>6, <1>frames DEF LocalTypes, Go, client
<1>9. /\ call'[t] = call[t] /\ mode'[t] = mode[t] /\ exclusiveMode'[t] = exclusiveMode[t]
      /\ parent'[t] = (IF exclusiveMode[t] THEN q ELSE None) /\ current'[t] = r
      /\ pc'[t] = IF node[r].leaf THEN "leaf"
                  ELSE IF exclusiveMode[t] THEN "inner" ELSE "descend"
  BY <1>1, <1>2, <1>5 DEF LocalTypes, Go, client
<1>10. StartOK(t)'
  BY <1>1, <1>9 DEF StartOK, Outside
<1>11. CurrentOK(t)'
  <2>1. Mode(x) # "none" /\ (x => Mode(x) = "write") /\ q # None
    BY <1>2 DEF Mode
  <2> HIDE DEF q
  <2> QED BY <1>1, <1>3, <1>4, <1>6, <1>9, <2>1 DEF CurrentOK
<1>12. ParentOK(t)'
  <2>1. CASE exclusiveMode[t]
    <3>1. access'[t][q] = "write"
      BY <1>2, <1>4, <1>6, <2>1 DEF Mode
    <3> QED BY <1>1, <1>2, <1>3, <1>9, <2>1, <3>1 DEF ParentOK
  <2>2. CASE ~exclusiveMode[t]
    BY <1>9, <2>2 DEF ParentOK
  <2> QED BY <2>1, <2>2
<1>13. ThreadOK(t)'
  BY <1>9, <1>10, <1>11, <1>12 DEF ThreadOK, WriteOK
<1>14. CanPin(t, r, Mode(x) = "write")
  BY <1>4, <1>5 DEF CanPin, Mode
<1>15. ASSUME NEW p \in Pages, access'[t][p] # "none"
       PROVE  p \in Created /\ (\/ access[t][p] \in {"write", access'[t][p]}
                                \/ CanPin(t, p, access'[t][p] = "write"))
  BY <1>2, <1>3, <1>6, <1>14, <1>15
<1> QED BY <1>1, <1>7, <1>8, <1>13, <1>15, QuietStep

(***************************************************************************)
(* The steps that change the leaf a thread has locked.                     *)
(***************************************************************************)
LEMMA ChangeLeaf ==
  ASSUME TreeInv, NEW t \in Threads, pc[t] \in {"leaf", "write"},
         access[t][current[t]] = "write", NEW n \in LeafType, Sorted(n.keys, n.size),
         Created' = Created,
         \A p \in Created : node'[p] = IF p = current[t] THEN n ELSE node[p],
         UNCHANGED header, NEW r, Answer(t, r)
  PROVE  TreeInv'
<1> DEFINE q == current[t]
<1>1. /\ q \in Created /\ node[q].leaf /\ Open /\ PagesOK /\ HeaderOK
      /\ Root \in Created
  BY InCall DEF CurrentOK
<1>2. Created' = Created /\ \A p \in Created : node'[p] = IF p = q THEN n ELSE node[p]
  OBVIOUS
<1>3. OthersStay(t) /\ LocalTypes' /\ LocksOK' /\ ThreadOK(t)'
  BY <1>2, AnswerStep
<1>4. OthersPages(t)
  BY <1>2 DEF OthersPages, header
<1>5. PagesOK'
  BY <1>1, <1>2 DEF PagesOK, NodeOK
<1>6. HeaderOK'
  <2>1. n.leaf = TRUE
    BY DEF LeafType
  <2>2. node[q].leaf = TRUE
    <3>1. node[q] \in LeafType \cup InnerType
      BY <1>1 DEF PagesOK, NodeOK
    <3> QED BY <1>1, <3>1 DEF LeafType, InnerType
  <2>3. node'[Root].leaf = node[Root].leaf
    BY <1>1, <1>2, <2>1, <2>2
  <2> QED BY <1>1, <2>3, HeaderStep
<1> QED BY <1>3, <1>4, <1>5, <1>6, TreeStep

(* The leaf a thread looks at. *)
LEMMA AtLeafFacts ==
  ASSUME TreeInv, NEW t \in Threads, pc[t] \in {"leaf", "write"}
  PROVE  LET n == node[current[t]] IN
         /\ current[t] \in Created /\ n \in LeafType /\ Sorted(n.keys, n.size)
         /\ n.size \in 0 .. LeafN /\ LeafN \in Nat
         /\ IsArray(n.keys, LeafN) /\ IsArray(n.values, LeafN) /\ Key(t) \in Nat
         /\ call[t].value \in Nat /\ DOMAIN n.keys = 1 .. LeafN
<1> DEFINE n == node[current[t]]
<1>1. current[t] \in Created /\ n.leaf /\ Key(t) \in Nat /\ call[t].value \in Nat
      /\ PagesOK
  BY InCall DEF CurrentOK
<1>2. n \in LeafType /\ Sorted(n.keys, n.size)
  BY <1>1 DEF PagesOK, NodeOK, InnerType
<1> HIDE DEF n
<1>3. n.size \in 0 .. LeafN /\ LeafN \in Nat
      /\ IsArray(n.keys, LeafN) /\ IsArray(n.values, LeafN) /\ DOMAIN n.keys = 1 .. LeafN
  BY <1>2, SizesAssumption DEF LeafType, IsArray
<1> QED BY <1>1, <1>2, <1>3 DEF n

LEMMA OverwriteStep ==
  ASSUME TreeInv, NEW t \in Threads, Overwrite(t)
  PROVE  TreeInv'
<1>0. pc[t] = "write"
  BY DEF Overwrite, At
<1> DEFINE q == current[t]
           n == node[q]
           b == LowerBound(n.keys, n.size, Key(t))
<1>1. /\ access[t][q] = "write" /\ keyIndex[t] = b
  BY <1>0, InCall DEF CurrentOK, WriteOK, Key
<1>2. n \in LeafType /\ Sorted(n.keys, n.size) /\ Key(t) \in Nat /\ call[t].value \in Nat
  BY <1>0, AtLeafFacts
<1>3. b <= n.size
  BY <1>1 DEF Overwrite, Here
<1>4. node' = [node EXCEPT ![q] = WithValue(n, b, call[t].value)]
  BY <1>1 DEF Overwrite
<1>5. UNCHANGED header /\ Answer(t, None)
  BY DEF Overwrite
<1> DEFINE m == WithValue(n, b, call[t].value)
<1>6. m \in LeafType /\ m.keys = n.keys /\ m.size = n.size
  BY <1>2, <1>3, LeafChanges
<1> HIDE DEF m
<1>7. /\ Sorted(m.keys, m.size) /\ Created' = Created
      /\ \A p \in Created : node'[p] = IF p = current[t] THEN m ELSE node[p]
  BY <1>2, <1>4, <1>6 DEF m, Created
<1> QED BY <1>0, <1>1, <1>5, <1>6, <1>7, ChangeLeaf

LEMMA AddStep ==
  ASSUME TreeInv, NEW t \in Threads, Add(t)
  PROVE  TreeInv'
<1>0. pc[t] = "write" /\ KeyIsNew(t)
  BY DEF Add, At
<1> DEFINE q == current[t]
           n == node[q]
           b == LowerBound(n.keys, n.size, Key(t))
<1>1. /\ access[t][q] = "write" /\ keyIndex[t] = b
      /\ n.size = LeafN => HasKey(n, Key(t)) /\ keyIt[t] = <<q, b>>
  BY <1>0, InCall DEF CurrentOK, WriteOK, Key
<1>2. /\ n \in LeafType /\ Sorted(n.keys, n.size) /\ Key(t) \in Nat /\ call[t].value \in Nat
      /\ n.size \in 0 .. LeafN /\ LeafN \in Nat /\ DOMAIN n.keys = 1 .. LeafN
      /\ n.leaf = TRUE
  BY <1>0, AtLeafFacts DEF LeafType
<1>3. n.size < LeafN
  <2>1. SUFFICES ASSUME n.size = LeafN PROVE FALSE
    BY <1>2
  <2>2. b \in DOMAIN n.keys /\ b <= n.size /\ n.keys[b] = Key(t)
    BY <1>1, <2>1 DEF HasKey, Contains
  <2>3. keyIt[t][1] = q /\ keyIt[t][2] = b
    BY <1>1, <2>1
  <2>4. FirstArray(n) = n.keys
    BY <1>2 DEF FirstArray
  <2> HIDE DEF b
  <2>5. KeysAtIt(t) = {Key(t)}
    BY <1>1, <2>2, <2>3, <2>4 DEF KeysAtIt, FrameTaken
  <2>6. ~(b > n.size)
    BY <1>2, <2>2
  <2> QED BY <1>0, <1>1, <2>5, <2>6 DEF KeyIsNew, Here, b
<1>4. node' = [node EXCEPT ![q] = WithPair(n, b, Key(t), call[t].value)]
  BY <1>1 DEF Add
<1>5. UNCHANGED header /\ Answer(t, None)
  BY DEF Add
<1> DEFINE m == WithPair(n, b, Key(t), call[t].value)
<1>6. m \in LeafType /\ Sorted(m.keys, m.size)
  BY <1>2, <1>3, LeafChanges
<1> HIDE DEF m
<1>7. /\ Created' = Created
      /\ \A p \in Created : node'[p] = IF p = current[t] THEN m ELSE node[p]
  BY <1>4 DEF m, Created
<1> QED BY <1>0, <1>1, <1>5, <1>6, <1>7, ChangeLeaf

LEMMA UpdateLeafStep ==
  ASSUME TreeInv, NEW t \in Threads, UpdateLeaf(t)
  PROVE  TreeInv'
<1>0. pc[t] = "leaf" /\ call[t].op = "update" /\ (current[t] = Root => mode[t])
  BY DEF UpdateLeaf, AtUnique, At, InRoot, Op
<1> DEFINE q == current[t]
           n == node[q]
           b == LowerBound(n.keys, n.size, Key(t))
<1>1. access[t][q] = "write"
  BY <1>0, InCall DEF CurrentOK
<1>2. /\ n \in LeafType /\ Sorted(n.keys, n.size) /\ Key(t) \in Nat /\ call[t].value \in Nat
      /\ n.size \in 0 .. LeafN /\ LeafN \in Nat /\ q \in Created
      /\ IsArray(n.values, LeafN) /\ DOMAIN n.keys = 1 .. LeafN
  BY <1>0, AtLeafFacts
<1>3. UNCHANGED header /\ Answer(t, None)
  BY DEF UpdateLeaf
<1>4. CASE HasKey(n, Key(t))
  <2> DEFINE v == n.values[b] + call[t].value
             m == WithValue(n, b, v)
  <2>1. b \in DOMAIN n.keys /\ b <= n.size
    BY <1>4 DEF HasKey, Contains
  <2> HIDE DEF b
  <2>2. v \in Nat
    <3>1. n.values[b] \in Nat
      BY <1>2, <2>1 DEF IsArray
    <3> QED BY <1>2, <3>1
  <2>3. node' = [node EXCEPT ![q] = m]
    BY <1>4 DEF UpdateLeaf, Here, IndexOfKey, b
  <2> HIDE DEF v
  <2>4. m \in LeafType /\ m.keys = n.keys /\ m.size = n.size
    BY <1>2, <2>1, <2>2, LeafChanges, ZenonT(30) DEF b
  <2> HIDE DEF m
  <2>5. /\ Sorted(m.keys, m.size) /\ Created' = Created
        /\ \A p \in Created : node'[p] = IF p = current[t] THEN m ELSE node[p]
    BY <1>2, <2>3, <2>4 DEF Created
  <2> QED BY <1>0, <1>1, <1>3, <2>4, <2>5, ChangeLeaf
<1>5. CASE ~HasKey(n, Key(t))
  <2>1. Created' = Created /\ node' = node
    BY <1>5 DEF UpdateLeaf, Here, Created
  <2> QED BY <1>0, <1>1, <1>2, <1>3, <2>1, ChangeLeaf
<1> QED BY <1>4, <1>5

LEMMA EraseLeafStep ==
  ASSUME TreeInv, NEW t \in Threads, EraseLeaf(t)
  PROVE  TreeInv'
<1>0. pc[t] = "leaf" /\ call[t].op = "erase" /\ (current[t] = Root => mode[t])
  BY DEF EraseLeaf, AtUnique, At, InRoot, Op
<1> DEFINE q == current[t]
           n == node[q]
           b == LowerBound(n.keys, n.size, Key(t))
<1>1. access[t][q] = "write"
  BY <1>0, InCall DEF CurrentOK
<1>2. /\ n \in LeafType /\ Sorted(n.keys, n.size) /\ Key(t) \in Nat /\ 0 \in Nat
      /\ q \in Created
  BY <1>0, AtLeafFacts
<1>3. UNCHANGED header /\ Answer(t, None)
  BY DEF EraseLeaf
<1>4. CASE HasKey(n, Key(t))
  <2> DEFINE m == WithoutPair(n, b)
  <2>1. b <= n.size
    BY <1>4 DEF HasKey, Contains
  <2>3. node' = [node EXCEPT ![q] = m]
    BY <1>4 DEF EraseLeaf, Here, IndexOfKey
  <2>4. m \in LeafType /\ Sorted(m.keys, m.size)
    BY <1>2, <2>1, LeafChanges
  <2> HIDE DEF m
  <2>5. /\ Created' = Created
        /\ \A p \in Created : node'[p] = IF p = current[t] THEN m ELSE node[p]
    BY <2>3 DEF Created
  <2> QED BY <1>0, <1>1, <1>3, <2>4, <2>5, ChangeLeaf
<1>5. CASE ~HasKey(n, Key(t))
  <2>1. Created' = Created /\ node' = node
    BY <1>5 DEF EraseLeaf, Here, Created
  <2> QED BY <1>0, <1>1, <1>2, <1>3, <2>1, ChangeLeaf
<1> QED BY <1>4, <1>5

(***************************************************************************)
(* The steps that split a node.                                            *)
(***************************************************************************)
LEMMA MorePages ==
  ASSUME NEW S, NEW T, S \subseteq T, NEW n, NodeOK(n, S)
  PROVE  NodeOK(n, T)
BY DEF NodeOK, ChildrenIn

LEMMA FreshPage ==
  ASSUME TreeInv
  PROVE  /\ Created = 1 .. Fresh - 1 /\ Fresh \in Nat \ {0, 1}
         /\ Fresh \notin Created /\ Fresh + 1 \notin Created
<1> DEFINE c == Cardinality(Created)
<1>1. Created = 1 .. c /\ c \in 1 .. MaxPages /\ Fresh = c + 1
  BY DEF TreeInv, PagesOK, Fresh
<1> HIDE DEF c
<1> QED BY <1>1, PagesAssumption

LEMMA IntervalPages ==
  ASSUME NEW f \in 1 .. MaxPages, Created' = 1 .. f,
         \A p \in Created' : NodeOK(node'[p], Created' \ {Root})
  PROVE  PagesOK'
<1> DEFINE S == Created'
<1>1. f \in Nat \ {0}
  BY PagesAssumption
<1>2. Cardinality(1 .. f) = f
  BY <1>1, FS_Interval
<1>3. S = 1 .. Cardinality(S) /\ Cardinality(S) \in 1 .. MaxPages
  BY <1>2
<1> QED BY <1>3 DEF PagesOK

(* What a split leaves: the half for the key is locked and not full. *)
SplitDone(t) ==
  /\ Created \subseteq Created' /\ PagesOK'
  /\ \A p \in Created : access[t][p] # "write" => node'[p] = node[p]
  /\ current'[t] \in Created'
  /\ current'[t] \in Created => access[t][current'[t]] = "write"
  /\ current' = [current EXCEPT ![t] = current'[t]]
  /\ parent' = [parent EXCEPT ![t] = None]
  /\ node'[current'[t]] = IF Key(t) <= Pivot(Here(t)) THEN Left(Here(t)) ELSE Right(Here(t))
  /\ Holds(t, Only(current'[t], "write"))
  /\ TakesFrame(t, Fresh)

LEMMA SplitRootDone ==
  ASSUME TreeInv, NEW t \in Threads, pc[t] \in {"inner", "leaf"}, current[t] = Root,
         access[t][Root] = "write", Full(node[Root]), SplitRoot(t)
  PROVE  SplitDone(t) /\ ~node'[Root].leaf
<1> DEFINE n == node[Root]
           F == Fresh
           S == Created'
<1>1. /\ Created = 1 .. F - 1 /\ F \in Nat \ {0, 1}
      /\ F \notin Created /\ F + 1 \notin Created /\ Root = 1 /\ Root \in Created
  BY FreshPage, RootCreated DEF Root
<1>2. /\ F + 1 <= MaxPages
      /\ node' = [p \in Created \cup {F, F + 1} |->
                IF p = Root THEN NewRoot(Pivot(n), F + 1, F)
                ELSE IF p = F THEN Right(n)
                ELSE IF p = F + 1 THEN Left(n)
                ELSE node[p]]
      /\ current' = [current EXCEPT ![t] = Half(Key(t), Pivot(n), F + 1, F)]
      /\ Holds(t, Only(current'[t], "write")) /\ TakesFrame(t, F)
      /\ parent' = parent
  BY DEF SplitRoot, Here
<1>3. /\ LocalTypes /\ ParentOK(t)
      /\ \A p \in Created : NodeOK(node[p], Created \ {Root})
  BY InCall DEF PagesOK
<1>4. NodeOK(n, Created \ {Root})
  BY <1>1, <1>3
<1> HIDE DEF F, n
<1>5. S = Created \cup {F, F + 1} /\ S = 1 .. F + 1
  BY <1>1, <1>2 DEF Created
<1>6. /\ node'[Root] = NewRoot(Pivot(n), F + 1, F)
      /\ node'[F] = Right(n) /\ node'[F + 1] = Left(n)
      /\ \A p \in Created \ {Root} : node'[p] = node[p]
  BY <1>1, <1>2
<1> HIDE DEF S
<1>7. Created \ {Root} \subseteq S \ {Root}
  BY <1>5
<1>8. /\ NodeOK(Left(n), S \ {Root}) /\ NodeOK(Right(n), S \ {Root}) /\ Pivot(n) \in Nat
  BY <1>4, <1>7, Halves, MorePages DEF n
<1>9. node'[Root] \in InnerType /\ ChildrenIn(node'[Root], S \ {Root})
  <2> DEFINE T == S \ {Root}
             l == F + 1
  <2>1. F \in T \cap Nat /\ l \in T \cap Nat
    BY <1>1, <1>5
  <2>2. node'[Root] = NewRoot(Pivot(n), l, F)
    BY <1>6
  <2> HIDE DEF T, l
  <2>3. node'[Root] \in InnerType /\ ChildrenIn(node'[Root], T)
    BY <1>8, <2>1, <2>2, NewRootOK
  <2> QED BY <2>3 DEF T
<1>10. \A p \in S : NodeOK(node'[p], S \ {Root})
  <2>1. \A p \in Created \ {Root} : NodeOK(node'[p], S \ {Root})
    BY <1>3, <1>6, <1>7, MorePages
  <2> QED BY <1>5, <1>6, <1>8, <1>9, <2>1 DEF NodeOK
<1>11. PagesOK'
  <2> DEFINE f == F + 1
  <2>1. S = 1 .. f /\ f \in 1 .. MaxPages
    BY <1>1, <1>2, <1>5, PagesAssumption
  <2> QED BY <1>10, <2>1, IntervalPages DEF S
<1>12. current'[t] = (IF Key(t) <= Pivot(n) THEN F + 1 ELSE F)
  BY <1>2, <1>3 DEF Half, LocalTypes
<1>13. parent[t] = None
  BY <1>3 DEF ParentOK
<1>14. /\ parent' = [parent EXCEPT ![t] = None]
       /\ current' = [current EXCEPT ![t] = current'[t]]
  BY <1>2, <1>3, <1>13 DEF LocalTypes
<1>15. TakesFrame(t, Fresh)
  BY <1>2 DEF F
<1>16. SplitDone(t)
  BY <1>1, <1>2, <1>5, <1>6, <1>11, <1>12, <1>14, <1>15 DEF SplitDone, S, n, Here
<1> QED BY <1>9, <1>16 DEF InnerType

LEMMA SplitChildDone ==
  ASSUME TreeInv, NEW t \in Threads, pc[t] \in {"inner", "leaf"}, parent[t] # None,
         Full(node[current[t]]), SplitChild(t)
  PROVE  SplitDone(t) /\ node'[Root].leaf = node[Root].leaf
<1> DEFINE q == current[t]
           n == node[q]
           m == node[parent[t]]
           i == ChildIndex(m, Key(t))
           F == Fresh
           S == Created'
<1>1. /\ Created = 1 .. F - 1 /\ F \in Nat \ {0, 1}
      /\ F \notin Created /\ Root = 1 /\ Root \in Created
  BY FreshPage, RootCreated DEF Root
<1>2. /\ F <= MaxPages
      /\ node' = [p \in Created \cup {F} |->
                IF p = q THEN Left(n)
                ELSE IF p = F THEN Right(n)
                ELSE IF p = parent[t] THEN WithPivot(node[p], i, Pivot(n), F)
                ELSE node[p]]
      /\ current' = [current EXCEPT ![t] = Half(Key(t), Pivot(n), q, F)]
      /\ Holds(t, Only(current'[t], "write")) /\ TakesFrame(t, F)
      /\ parent' = [parent EXCEPT ![t] = None]
  BY DEF SplitChild, Here
<1>3. /\ LocalTypes /\ Key(t) \in Nat
      /\ \A p \in Created : NodeOK(node[p], Created \ {Root})
      /\ q \in Created /\ access[t][q] = "write" /\ q # Root
      /\ parent[t] \in Created /\ access[t][parent[t]] = "write"
      /\ ~m.leaf /\ m.size < InnerN
  BY InCall DEF PagesOK, ParentOK, CurrentOK
<1>4. /\ m \in InnerType /\ ChildrenIn(m, Created \ {Root}) /\ q # parent[t]
  <2>1. m \in InnerType /\ ChildrenIn(m, Created \ {Root})
    BY <1>3 DEF NodeOK, LeafType
  <2>2. m.size \in 1 .. InnerN /\ InnerN \in Nat
    BY <2>1, SizesAssumption DEF InnerType
  <2>3. ~Full(m)
    BY <1>3, <2>2 DEF Full
  <2> QED BY <2>1, <2>3
<1> HIDE DEF F, n, q, m
<1>5. S = Created \cup {F} /\ S = 1 .. F
  BY <1>1, <1>2 DEF Created
<1>6. /\ node'[q] = Left(n) /\ node'[F] = Right(n)
      /\ node'[parent[t]] = WithPivot(m, i, Pivot(n), F)
      /\ \A p \in Created \ {q, parent[t]} : node'[p] = node[p]
  BY <1>1, <1>2, <1>3, <1>4 DEF m
<1> HIDE DEF S
<1>7. Created \ {Root} \subseteq S \ {Root}
  BY <1>5
<1>8. /\ NodeOK(Left(n), S \ {Root}) /\ NodeOK(Right(n), S \ {Root}) /\ Pivot(n) \in Nat
      /\ Left(n).leaf = n.leaf
  <2>1. NodeOK(n, Created \ {Root}) /\ Full(n)
    BY <1>3 DEF n, q
  <2> QED BY <1>7, <2>1, Halves, MorePages
<1>9. node'[parent[t]] \in InnerType /\ ChildrenIn(node'[parent[t]], S \ {Root})
  <2>1. F \in (S \ {Root}) \cap Nat /\ ChildrenIn(m, S \ {Root})
    BY <1>1, <1>4, <1>5 DEF ChildrenIn
  <2> QED BY <1>3, <1>4, <1>6, <1>8, <2>1, WithPivotOK
<1>10. \A p \in S : NodeOK(node'[p], S \ {Root})
  <2>1. \A p \in Created \ {q, parent[t]} : NodeOK(node'[p], S \ {Root})
    BY <1>3, <1>6, <1>7, MorePages
  <2> QED BY <1>5, <1>6, <1>8, <1>9, <2>1 DEF NodeOK
<1>11. PagesOK'
  <2>1. F \in 1 .. MaxPages
    BY <1>1, <1>2, PagesAssumption
  <2> QED BY <1>5, <1>10, <2>1, IntervalPages DEF S
<1>12. current'[t] = (IF Key(t) <= Pivot(n) THEN q ELSE F)
  BY <1>2, <1>3 DEF Half, LocalTypes
<1>13. current' = [current EXCEPT ![t] = current'[t]]
  BY <1>2, <1>3 DEF LocalTypes
<1>14. TakesFrame(t, Fresh)
  BY <1>2 DEF F
<1>15. SplitDone(t)
  BY <1>1, <1>2, <1>3, <1>5, <1>6, <1>11, <1>12, <1>13, <1>14 DEF SplitDone, S, n, q, Here
<1>16. node'[Root].leaf = node[Root].leaf
  <2>1. CASE Root = parent[t]
    BY <1>3, <1>4, <1>9, <2>1 DEF InnerType, m
  <2>2. CASE Root # parent[t]
    BY <1>1, <1>3, <1>6, <2>2
  <2> QED BY <2>1, <2>2
<1> QED BY <1>15, <1>16

LEMMA SplitLocks ==
  ASSUME TreeInv, NEW t \in Threads, SplitDone(t)
  PROVE  /\ access' \in [Threads -> [Pages -> {"none", "read", "write"}]]
         /\ \A u \in Threads \ {t} : access'[u] = access[u]
         /\ \A p \in Pages : access'[t][p] = IF p = current'[t] THEN "write" ELSE "none"
         /\ LocksOK'
<1>1. /\ access' \in [Threads -> [Pages -> {"none", "read", "write"}]]
      /\ \A u \in Threads \ {t} : access'[u] = access[u]
      /\ \A p \in Pages : access'[t][p] = IF p = current'[t] THEN "write" ELSE "none"
  <2>1. LocalTypes /\ Holds(t, Only(current'[t], "write"))
    BY DEF TreeInv, SplitDone
  <2> DEFINE c == current'[t]
  <2> HIDE DEF c
  <2>2. Holds(t, Only(c, "write"))
    BY <2>1 DEF c
  <2>3. /\ access' \in [Threads -> [Pages -> {"none", "read", "write"}]]
        /\ \A u \in Threads \ {t} : access'[u] = access[u]
        /\ \A p \in Pages : access'[t][p] = IF p = c THEN "write" ELSE "none"
    BY <2>1, <2>2, HoldsOne
  <2> QED BY <2>3 DEF c
<1>2. LocksOK'
  <2>1. ASSUME NEW p \in Pages, access'[t][p] # "none"
        PROVE  /\ p \in Created'
               /\ \/ p \notin Created
                  \/ access[t][p] \in {"write", access'[t][p]}
    BY <1>1, <2>1 DEF SplitDone
  <2> QED BY <1>1, <2>1, LocksStep DEF SplitDone
<1> QED BY <1>1, <1>2

LEMMA CreatedPages == ASSUME PagesOK' PROVE Created' \subseteq Pages
<1> DEFINE S == Created'
           c == Cardinality(S)
<1>1. S = 1 .. c /\ c \in 1 .. MaxPages
  BY DEF PagesOK
<1> HIDE DEF c
<1> QED BY <1>1, PagesAssumption DEF Pages

LEMMA SplitInnerStep ==
  ASSUME TreeInv, NEW t \in Threads, SplitInner(t)
  PROVE  TreeInv'
<1>0. pc[t] = "inner"
  BY DEF SplitInner, At
<1> USE <1>0, InCall
<1> DEFINE n == node[current[t]]
<1>1. /\ exclusiveMode[t] /\ current[t] \in Created /\ access[t][current[t]] = "write"
      /\ ~n.leaf /\ Full(n) /\ NodeOK(n, Created \ {Root})
      /\ parent[t] = None => current[t] = Root
  BY DEF CurrentOK, SplitInner, HasRoom, Here, PagesOK
<1>2. SplitDone(t) /\ node'[Root].leaf = node[Root].leaf
  <2>1. CASE parent[t] = None
    <3>1. SplitRoot(t) /\ current[t] = Root
      BY <1>1, <2>1 DEF SplitInner
    <3>2. SplitDone(t) /\ ~node'[Root].leaf
      BY <1>1, <3>1, SplitRootDone
    <3>3. node'[Root].leaf \in BOOLEAN /\ node[Root].leaf \in BOOLEAN
      <4>1. NodeOK(node[Root], Created \ {Root})
        BY <1>1, <3>1
      <4>2. NodeOK(node'[Root], Created' \ {Root})
        BY <3>2 DEF SplitDone, PagesOK
      <4> QED BY <4>1, <4>2 DEF NodeOK, LeafType, InnerType
    <3> QED BY <1>1, <3>1, <3>2, <3>3
  <2>2. CASE parent[t] # None
    <3>1. SplitChild(t)
      BY <2>2 DEF SplitInner
    <3> QED BY <1>1, <2>2, <3>1, SplitChildDone
  <2> QED BY <2>1, <2>2
<1>3. /\ call' = call /\ mode' = mode /\ exclusiveMode' = exclusiveMode
      /\ keyIt' = keyIt /\ keyIndex' = keyIndex /\ loaded' = loaded
      /\ pc' = [pc EXCEPT ![t] = "descend"]
      /\ UNCHANGED header /\ leafRoot' = leafRoot
  BY DEF SplitInner, Go, client, header
<1>4. /\ access' \in [Threads -> [Pages -> {"none", "read", "write"}]]
      /\ \A u \in Threads \ {t} : access'[u] = access[u]
      /\ \A p \in Pages : access'[t][p] = IF p = current'[t] THEN "write" ELSE "none"
      /\ LocksOK'
  BY <1>2, SplitLocks
<1>5. OthersStay(t)
  BY <1>2, <1>3, <1>4 DEF OthersStay, SplitDone, LocalTypes
<1>6. OthersPages(t)
  BY <1>2, <1>3 DEF OthersPages, SplitDone
<1>frames. taken' \in [Threads -> BOOLEAN]
  BY <1>2, TakesFrameType DEF SplitDone
<1>7. LocalTypes'
  BY <1>2, <1>3, <1>4, <1>frames DEF LocalTypes, SplitDone
<1>8. /\ node'[current'[t]].leaf = FALSE /\ node'[current'[t]].size < InnerN
  <2>1. /\ Left(n).leaf = n.leaf /\ Right(n).leaf = n.leaf
        /\ Left(n).size < InnerN /\ Right(n).size < InnerN
    BY <1>1, Halves
  <2>2. n.leaf = FALSE
    BY <1>1 DEF NodeOK, LeafType, InnerType
  <2>3. node'[current'[t]] \in {Left(n), Right(n)}
    BY <1>2 DEF SplitDone, Here
  <2> HIDE DEF n
  <2> QED BY <2>1, <2>2, <2>3
<1>9. ThreadOK(t)'
  <2>1. current'[t] \in Created' /\ current'[t] \in Pages /\ parent'[t] = None
    <3>1. Created' \subseteq Pages
      BY <1>2, CreatedPages DEF SplitDone
    <3> QED BY <1>2, <3>1 DEF SplitDone, LocalTypes
  <2>2. call'[t] = call[t] /\ mode'[t] = mode[t] /\ exclusiveMode'[t] /\ pc'[t] = "descend"
    BY <1>1, <1>3 DEF LocalTypes
  <2> QED BY <1>4, <1>8, <2>1, <2>2
      DEF ThreadOK, StartOK, CurrentOK, ParentOK, WriteOK, Outside
<1> QED BY <1>2, <1>3, <1>4, <1>5, <1>6, <1>7, <1>9, TreeStep, HeaderStep DEF SplitDone

LEMMA SplitLeafStep ==
  ASSUME TreeInv, NEW t \in Threads, SplitLeaf(t)
  PROVE  TreeInv'
<1>0. pc[t] = "leaf" /\ call[t].op = "insert"
  BY DEF SplitLeaf, AtLeaf, At, Op
<1> USE <1>0, InCall
<1> DEFINE q == current[t]
           n == node[q]
           b == LowerBound(n.keys, n.size, Key(t))
           j == IF Key(t) <= Pivot(n) THEN b ELSE b - LeftLeaf(n).size
           c == current'[t]
           m == node'[c]
<1>1. /\ q \in Created /\ n \in LeafType /\ Sorted(n.keys, n.size) /\ Full(n)
      /\ n.leaf = TRUE /\ n.size = LeafN /\ LeafN \in Nat
      /\ NodeOK(n, Created \ {Root}) /\ Key(t) \in Nat
  <2>1. /\ q \in Created /\ n \in LeafType /\ Sorted(n.keys, n.size) /\ LeafN \in Nat
    BY AtLeafFacts
  <2>2. Full(n)
    BY DEF SplitLeaf, Here
  <2>3. n.leaf = TRUE
    BY <2>1 DEF LeafType
  <2> QED BY <2>1, <2>2, <2>3 DEF Full, PagesOK
<1>2. /\ SplitDone(t) /\ HeaderOK' /\ (leafRoot' => leafRoot)
  <2>1. CASE q = Root
    <3>1. /\ SplitRoot(t) /\ leafRoot' = FALSE /\ headerFile' = headerFile
      BY <2>1 DEF SplitLeaf, InRoot
    <3>2. access[t][Root] = "write"
      BY <2>1 DEF CurrentOK
    <3>3. SplitDone(t) /\ ~node'[Root].leaf
      BY <1>1, <2>1, <3>1, <3>2, SplitRootDone
    <3>4. HeaderOK'
      BY <3>1, <3>3 DEF HeaderOK, Open
    <3> QED BY <3>1, <3>3, <3>4
  <2>2. CASE q # Root
    <3>1. /\ SplitChild(t) /\ UNCHANGED header /\ exclusiveMode[t]
      BY <2>2 DEF SplitLeaf, InRoot
    <3>2. parent[t] # None
      BY <2>2, <3>1 DEF CurrentOK
    <3>3. SplitDone(t) /\ node'[Root].leaf = node[Root].leaf
      BY <1>1, <3>1, <3>2, SplitChildDone
    <3> QED BY <3>1, <3>3, HeaderStep DEF header
  <2> QED BY <2>1, <2>2
<1>3. /\ call' = call /\ mode' = mode /\ exclusiveMode' = exclusiveMode /\ loaded' = loaded
      /\ pc' = [pc EXCEPT ![t] = "write"]
  BY DEF SplitLeaf, Go, client
<1>4. /\ \E x : keyIt' = [keyIt EXCEPT ![t] = x]
      /\ keyIndex' = [keyIndex EXCEPT ![t] = j]
  BY DEF SplitLeaf, Searched, IndexOfKey, Here
<1>5. /\ access' \in [Threads -> [Pages -> {"none", "read", "write"}]]
      /\ \A u \in Threads \ {t} : access'[u] = access[u]
      /\ \A p \in Pages : access'[t][p] = IF p = c THEN "write" ELSE "none"
      /\ LocksOK'
  BY <1>2, SplitLocks
<1>6. /\ m \in LeafType /\ m.leaf /\ m.size < LeafN /\ m.size \in 0 .. LeafN
      /\ LowerBound(m.keys, m.size, Key(t)) = j /\ j \in 1 .. LeafN + 1
  <2>1. /\ Left(n) = LeftLeaf(n) /\ Right(n) = RightLeaf(n) /\ Pivot(n) = LeafPivot(n)
    BY <1>1 DEF Left, Right, Pivot
  <2>2. /\ LeftLeaf(n) \in LeafType /\ RightLeaf(n) \in LeafType
        /\ LeftLeaf(n).size < LeafN /\ RightLeaf(n).size < LeafN
    BY <1>1, <2>1, LeafHalves, Halves
  <2>3. m = IF Key(t) <= LeafPivot(n) THEN LeftLeaf(n) ELSE RightLeaf(n)
    BY <1>2, <2>1 DEF SplitDone, Here
  <2>4. m \in LeafType /\ m.size < LeafN
    BY <2>2, <2>3
  <2>5. LowerBound(m.keys, m.size, Key(t)) = j
    BY <1>1, <2>1, <2>3, PlaceInHalf
  <2> HIDE DEF m, j
  <2>6. m.size \in 0 .. LeafN /\ m.leaf /\ IsArray(m.keys, LeafN)
    BY <2>4 DEF LeafType, IsArray
  <2>7. LowerBound(m.keys, m.size, Key(t)) \in 1 .. m.size + 1
    BY <1>1, <2>6, LowerBoundBounds
  <2> QED BY <1>1, <2>4, <2>5, <2>6, <2>7
<1> HIDE DEF j, n
<1>7. OthersStay(t)
  BY <1>2, <1>3, <1>4, <1>5 DEF OthersStay, SplitDone, LocalTypes
<1>8. OthersPages(t)
  BY <1>2, <1>3 DEF OthersPages, SplitDone
<1>frames. taken' \in [Threads -> BOOLEAN]
  BY <1>2, TakesFrameType DEF SplitDone
<1>9. LocalTypes'
  BY <1>2, <1>3, <1>4, <1>5, <1>6, <1>frames DEF LocalTypes, SplitDone
<1>10. ThreadOK(t)'
  <2>1. c \in Created' /\ c \in Pages /\ parent'[t] = None
    <3>1. Created' \subseteq Pages
      BY <1>2, CreatedPages DEF SplitDone
    <3> QED BY <1>2, <3>1 DEF SplitDone, LocalTypes
  <2>2. /\ call'[t] = call[t] /\ mode'[t] = mode[t] /\ pc'[t] = "write" /\ keyIndex'[t] = j
        /\ exclusiveMode'[t] = exclusiveMode[t]
    BY <1>3, <1>4 DEF LocalTypes
  <2>3. StartOK(t)' /\ CurrentOK(t)' /\ ParentOK(t)'
    BY <1>5, <1>6, <2>1, <2>2 DEF StartOK, CurrentOK, ParentOK, Outside
  <2>4. WriteOK(t)'
    BY <1>1, <1>6, <2>2 DEF WriteOK, Key
  <2> QED BY <2>3, <2>4 DEF ThreadOK
<1> QED BY <1>2, <1>5, <1>7, <1>8, <1>9, <1>10, TreeStep DEF SplitDone

(***************************************************************************)
(* flush, and the constructor over the same directory.                     *)
(***************************************************************************)
LEMMA RestStep ==
  ASSUME TreeInv, UNCHANGED <<node, access, client, locals>>, HeaderOK',
         leafRoot' = leafRoot
  PROVE  TreeInv'
<1>1. /\ node' = node /\ Created' = Created /\ access' = access /\ call' = call
      /\ pc' = pc /\ exclusiveMode' = exclusiveMode /\ mode' = mode /\ current' = current
      /\ parent' = parent /\ keyIt' = keyIt /\ keyIndex' = keyIndex /\ loaded' = loaded
      /\ taken' = taken
  BY DEF client, locals, search, Created
<1>2. LocalTypes' /\ LocksOK' /\ PagesOK'
  BY <1>1 DEF TreeInv, LocalTypes, LocksOK, PagesOK
<1>3. ASSUME NEW u \in Threads PROVE ThreadOK(u)'
  <2>1. ThreadOK(u)
    BY DEF TreeInv
  <2> QED BY <1>1, <2>1 DEF ThreadOK, StartOK, CurrentOK, ParentOK, WriteOK
<1> QED BY <1>2, <1>3 DEF TreeInv

LEMMA CloseStep == ASSUME TreeInv, Close PROVE TreeInv'
<1>1. HeaderOK'
  BY DEF Close, TreeInv, HeaderOK, Open, At, locals
<1> QED BY <1>1, RestStep DEF Close

LEMMA ReopenStep == ASSUME TreeInv, Reopen PROVE TreeInv'
<1>1. leafRoot' = leafRoot /\ HeaderOK'
  BY DEF Reopen, TreeInv, HeaderOK, Open, At, locals
<1> QED BY <1>1, RestStep DEF Reopen

LEMMA IdleStep == ASSUME TreeInv, UNCHANGED vars PROVE TreeInv'
<1>1. /\ UNCHANGED <<node, access, client, locals>> /\ leafRoot' = leafRoot
      /\ headerFile' = headerFile
  BY DEF vars, tree, header
<1>2. HeaderOK'
  BY <1>1 DEF TreeInv, HeaderOK, Open, At, locals
<1> QED BY <1>1, <1>2, RestStep

(***************************************************************************)
(* The invariant.                                                          *)
(***************************************************************************)
LEMMA TreeInit == Init => TreeInv
<1> SUFFICES ASSUME Init PROVE TreeInv
  OBVIOUS
<1>1. MaxPages \in Nat \ {0} /\ LeafN \in Nat
  BY PagesAssumption, SizesAssumption
<1>2. Created = {1} /\ node[1] = EmptyLeaf /\ leafRoot = TRUE /\ headerFile = None
  BY DEF Init, Created, Root
<1>3. Cardinality({1}) = 1 /\ 1 .. 1 = {1}
  BY FS_Singleton
<1>4. EmptyLeaf \in LeafType /\ EmptyLeaf.leaf = TRUE /\ EmptyLeaf.size = 0
  BY <1>1 DEF EmptyLeaf, Leaf, LeafType, Unset
<1>5. Sorted(EmptyLeaf.keys, EmptyLeaf.size)
  BY <1>4 DEF Sorted
<1>6. LocalTypes
  BY <1>1 DEF Init, LocalTypes, Pages
<1>7. LocksOK
  BY <1>1 DEF Init, LocksOK, Pages
<1>8. PagesOK
  <2>1. Cardinality(Created) = 1 /\ 1 \in 1 .. MaxPages
    BY <1>1, <1>2, <1>3
  <2>2. NodeOK(EmptyLeaf, Created \ {Root})
    BY <1>4, <1>5 DEF NodeOK
  <2> QED BY <1>2, <1>3, <2>1, <2>2 DEF PagesOK
<1>9. HeaderOK
  BY <1>2, <1>4 DEF HeaderOK, Open, Root
<1>10. ASSUME NEW t \in Threads PROVE ThreadOK(t)
  <2>1. /\ pc[t] = "client" /\ exclusiveMode[t] = FALSE /\ parent[t] = None
        /\ \A p \in Pages : access[t][p] = "none"
    BY DEF Init, Pages
  <2> QED BY <2>1 DEF ThreadOK, StartOK, CurrentOK, ParentOK, WriteOK, Outside
<1> QED BY <1>6, <1>7, <1>8, <1>9, <1>10 DEF TreeInv

(* Every step preserves the invariant, and so it always holds. *)
THEOREM TreeInvariant == Spec => []TreeInv
<1>1. TreeInv /\ [Next]_vars => TreeInv'
  <2> SUFFICES ASSUME TreeInv, [Next]_vars PROVE TreeInv'
    OBVIOUS
  <2>1. CASE UNCHANGED vars
    BY <2>1, IdleStep
  <2>2. CASE Close
    BY <2>2, CloseStep
  <2>3. CASE Reopen
    BY <2>3, ReopenStep
  <2>4. ASSUME NEW t \in Threads, Steps(t) PROVE TreeInv'
    <3>1. CASE ReadHeader(t)
      BY <3>1, ReadHeaderStep
    <3>2. CASE PinRoot(t)
      BY <3>2, PinRootStep
    <3>3. CASE RepinRoot(t)
      BY <3>3, RepinRootStep
    <3>4. CASE PinChild(t)
      BY <3>4, PinChildStep
    <3>5. CASE Passes(t)
      BY <3>5, PassesStep
    <3>6. CASE SplitInner(t)
      BY <3>6, SplitInnerStep
    <3>7. CASE RetryExclusive(t)
      BY <3>7, RetryExclusiveStep
    <3>8. CASE KeepLeaf(t)
      BY <3>8, KeepLeafStep
    <3>9. CASE SplitLeaf(t)
      BY <3>9, SplitLeafStep
    <3>10. CASE Overwrite(t)
      BY <3>10, OverwriteStep
    <3>11. CASE Add(t)
      BY <3>11, AddStep
    <3>12. CASE UpdateLeaf(t)
      BY <3>12, UpdateLeafStep
    <3>13. CASE EraseLeaf(t)
      BY <3>13, EraseLeafStep
    <3>14. CASE FindLeaf(t)
      BY <3>14, FindLeafStep
    <3> QED BY <2>4, <3>1, <3>2, <3>3, <3>4, <3>5, <3>6, <3>7, <3>8, <3>9, <3>10,
               <3>11, <3>12, <3>13, <3>14 DEF Steps
  <2>5. ASSUME NEW t \in Threads, Load(t) PROVE TreeInv'
    BY <2>5, LoadStep
  <2>6. ASSUME NEW t \in Threads, NEW n \in DOMAIN Operations[t],
               NEW c \in Operations[t][n], Call(t, c)
        PROVE  TreeInv'
    BY <2>6, CallStep
  <2> QED BY <2>1, <2>2, <2>3, <2>4, <2>5, <2>6 DEF Next
<1> QED BY <1>1, TreeInit, PTL DEF Spec

(* Types of the variables: nodes stay within their arrays, and what a       *)
(* thread looks at is a page that exists.                                   *)
THEOREM TypeCorrect == Spec => []TypeOK
<1>1. TreeInv => TypeOK
  <2> SUFFICES ASSUME TreeInv PROVE TypeOK
    OBVIOUS
  <2>1. Created = 1 .. Cardinality(Created) /\ Created \subseteq Pages
    BY RootCreated DEF TreeInv, PagesOK
  <2>2. \A p \in Created : node[p] \in LeafType \cup InnerType
    BY DEF TreeInv, PagesOK, NodeOK
  <2> QED BY <2>1, <2>2 DEF TypeOK, TreeInv, LocalTypes, HeaderOK
<1> QED BY <1>1, TreeInvariant, PTL

(* A thread in exclusive mode that goes on to a child has a node with room  *)
(* for the pivot of that child: splitting never overflows the parent.       *)
THEOREM PivotsHaveRoom == Spec => []RoomForPivot
<1>1. TreeInv => RoomForPivot
  BY DEF TreeInv, ThreadOK, CurrentOK, RoomForPivot, Here
<1> QED BY <1>1, TreeInvariant, PTL

(* A root that is a leaf is only changed under an exclusive lock, although  *)
(* the mode was chosen from a header read without one.                      *)
THEOREM RootLeafLocked == Spec => []RootLeafExclusive
<1>1. TreeInv => RootLeafExclusive
  <2> SUFFICES ASSUME TreeInv, NEW t \in Threads, AtLeaf(t), InRoot(t)
               PROVE  access[t][Root] = "write" /\ leafRoot
    BY DEF RootLeafExclusive
  <2>1. pc[t] = "leaf" /\ call[t].op = "insert" /\ current[t] = Root
    BY DEF AtLeaf, At, Op, InRoot
  <2>2. access[t][Root] = "write" /\ node[Root].leaf
    BY <2>1, InCall DEF CurrentOK
  <2> QED BY <2>2 DEF TreeInv, HeaderOK
<1> QED BY <1>1, TreeInvariant, PTL
=============================================================================
