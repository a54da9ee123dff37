-------------------------- MODULE BTreeSearchProofs --------------------------
(***************************************************************************)
(* Theorems about the contents of the B-tree: the pages form a search tree *)
(* while threads split, insert and erase at once, and no leaf contains a   *)
(* key twice.  The invariant is SearchInv of BTreeInv.  Every page has a   *)
(* home, the keys a search for which comes to it; a split divides the home *)
(* of a page between its halves, so the proof never follows a path through *)
(* the tree, and a step is checked at the pages it changes.  From it the   *)
(* last part shows that the tree implements the map of KeyValueMap.        *)
(***************************************************************************)
EXTENDS BTreeProofs, WellFoundedInduction

(***************************************************************************)
(* Nodes in order.                                                         *)
(***************************************************************************)
LEMMA StrictSorted ==
  ASSUME NEW N \in Nat, NEW a, IsArray(a, N), NEW n \in 0 .. N, Strict(a, n)
  PROVE  Sorted(a, n) /\ Increasing(a, n)
<1>1. \A i \in 1 .. n : a[i] \in Nat
  BY DEF IsArray
<1>2. \A i, j \in 1 .. n : i <= j => a[i] <= a[j]
  BY <1>1 DEF Strict
<1>3. \A i \in 1 .. n - 1 : a[i] < a[i + 1]
  BY DEF Strict
<1> QED BY <1>2, <1>3 DEF Sorted, Increasing

(* The child a key belongs to, by the pivots around it. *)
LEMMA IndexOfChild ==
  ASSUME NEW n \in InnerType, Strict(n.pivots, n.size), NEW k \in Nat
  PROVE  /\ ChildIndex(n, k) \in 1 .. n.size + 1
         /\ \A j \in 1 .. n.size : j < ChildIndex(n, k) <=> n.pivots[j] < k
<1> DEFINE a == n.pivots
<1>1. InnerN \in Nat /\ IsArray(a, InnerN) /\ n.size \in 0 .. InnerN
  BY SizesAssumption DEF InnerType, IsArray
<1>2. ChildIndex(n, k) = LowerBound(a, n.size, k) /\ Strict(a, n.size)
  BY DEF ChildIndex
<1> HIDE DEF a
<1>3. Sorted(a, n.size)
  BY <1>1, <1>2, StrictSorted
<1>4. /\ LowerBound(a, n.size, k) \in 1 .. n.size + 1
      /\ \A j \in 1 .. n.size : j < LowerBound(a, n.size, k) <=> a[j] < k
  BY <1>1, <1>3, LowerBoundBounds, LowerBoundSorted
<1> QED BY <1>2, <1>4 DEF a

(* The index is known by the pivots on both sides of it. *)
LEMMA IndexIs ==
  ASSUME NEW n \in InnerType, Strict(n.pivots, n.size), NEW k \in Nat,
         NEW m \in 1 .. n.size + 1, \A j \in 1 .. n.size : j < m <=> n.pivots[j] < k
  PROVE  ChildIndex(n, k) = m
<1> DEFINE b == ChildIndex(n, k)
<1>1. b \in 1 .. n.size + 1 /\ \A j \in 1 .. n.size : j < b <=> n.pivots[j] < k
  BY IndexOfChild
<1>2. n.size \in Nat
  BY SizesAssumption DEF InnerType
<1> HIDE DEF b
<1>3. ~(b < m)
  BY <1>1, <1>2
<1>4. ~(m < b)
  BY <1>1, <1>2
<1> QED BY <1>1, <1>2, <1>3, <1>4 DEF b

(* The arrays of the halves of an inner node. *)
LEMMA InnerHalfArrays ==
  ASSUME NEW n \in InnerType, n.size = InnerN
  PROVE  LET s == SplitIndex(n) IN
         /\ s \in 2 .. InnerN - 1 /\ InnerN = 2 * s - 1
         /\ LeftInner(n).size = s - 1 /\ LeftInner(n).pivots = n.pivots
         /\ LeftInner(n).children = n.children /\ LeftInner(n).leaf = FALSE
         /\ RightInner(n).size = s - 1 /\ RightInner(n).leaf = FALSE
         /\ \A j \in 1 .. s - 1 : RightInner(n).pivots[j] = n.pivots[s + j]
         /\ \A j \in 1 .. s : RightInner(n).children[j] = n.children[s + j]
         /\ InnerPivot(n) = n.pivots[s]
<1> DEFINE h == InnerN \div 2
           s == SplitIndex(n)
<1>0. /\ InnerN \in Nat \ {0, 1} /\ InnerN % 2 = 1
      /\ IsArray(n.pivots, InnerN) /\ IsArray(n.children, InnerN + 1)
      /\ n = [leaf |-> FALSE, size |-> InnerN, pivots |-> n.pivots, children |-> n.children]
  BY SizesAssumption DEF InnerType, IsArray
<1>1. h \in 1 .. InnerN - 1 /\ InnerN = 2 * h + 1 /\ s = h + 1
  BY <1>0, HalfOf DEF SplitIndex
<1>2. /\ LeftInner(n).size = h /\ LeftInner(n).pivots = n.pivots
      /\ LeftInner(n).children = n.children /\ LeftInner(n).leaf = FALSE
  <2>1. InnerN - InnerN \div 2 - 1 = h
    BY <1>0, <1>1
  <2> QED BY <1>0, <2>1 DEF LeftInner
<1>3. /\ RightInner(n).size = h /\ RightInner(n).leaf = FALSE
      /\ RightInner(n).pivots = Tails(n.pivots, s, InnerN, Unset)
      /\ RightInner(n).children = Tails(n.children, s, InnerN + 1, Unset)
  BY DEF RightInner, Inner
<1> HIDE DEF h, s
<1>4. \A j \in 1 .. s - 1 : Tails(n.pivots, s, InnerN, Unset)[j] = n.pivots[s + j]
  <2>1. InnerN \in 0 .. InnerN /\ s \in 0 .. InnerN /\ InnerN - s = s - 1
    BY <1>0, <1>1
  <2> QED BY <1>0, <2>1, TailsType
<1>5. \A j \in 1 .. s : Tails(n.children, s, InnerN + 1, Unset)[j] = n.children[s + j]
  <2> DEFINE N == InnerN + 1
  <2>1. N \in Nat /\ N \in 0 .. N /\ s \in 0 .. N /\ N - s = s /\ IsArray(n.children, N)
    BY <1>0, <1>1
  <2> HIDE DEF N
  <2>2. \A j \in 1 .. N - s : Tails(n.children, s, N, Unset)[j] = n.children[s + j]
    BY <2>1, TailsType
  <2> QED BY <2>1, <2>2 DEF N
<1>6. s \in 2 .. InnerN - 1 /\ InnerN = 2 * s - 1 /\ h = s - 1
  BY <1>0, <1>1
<1>7. InnerPivot(n) = n.pivots[s]
  BY DEF InnerPivot, s
<1> QED BY <1>2, <1>3, <1>4, <1>5, <1>6, <1>7 DEF s

(* The two parts of a home that is split at a pivot. *)
Below(own, pivot) == {k \in own : k <= pivot}
Beyond(own, pivot) == {k \in own : ~(k <= pivot)}

(* The halves of a leaf are in order, each in its part of the home. *)
LEMMA LeafHalvesOrdered ==
  ASSUME NEW n \in LeafType, n.size = LeafN, NEW own \in SUBSET Nat, NEW home,
         NodeOrdered(n, own, home)
  PROVE  /\ NodeOrdered(LeftLeaf(n), Below(own, LeafPivot(n)), home)
         /\ NodeOrdered(RightLeaf(n), Beyond(own, LeafPivot(n)), home)
         /\ LeafPivot(n) \in own /\ Beyond(own, LeafPivot(n)) # {}
<1> DEFINE s == SplitIndex(n)
           pivot == LeafPivot(n)
<1>0. /\ LeafN \in Nat \ {0, 1} /\ IsArray(n.keys, LeafN) /\ n.leaf = TRUE
      /\ \A i \in 1 .. LeafN : n.keys[i] \in Nat
  BY SizesAssumption DEF LeafType, IsArray
<1>1. Strict(n.keys, LeafN) /\ \A i \in 1 .. LeafN : n.keys[i] \in own
  BY <1>0 DEF NodeOrdered
<1>2. Sorted(n.keys, LeafN)
  <2>1. LeafN \in 0 .. LeafN
    BY <1>0
  <2> QED BY <1>0, <1>1, <2>1, StrictSorted
<1>3. /\ LeftLeaf(n).size = s /\ s \in 1 .. LeafN - 1 /\ LeftLeaf(n).keys = n.keys
      /\ RightLeaf(n).size = LeafN - s
      /\ \A j \in 1 .. LeafN - s : RightLeaf(n).keys[j] = n.keys[s + j]
      /\ LeftLeaf(n).leaf /\ RightLeaf(n).leaf
  <2>1. LeftLeaf(n) \in LeafType /\ RightLeaf(n) \in LeafType
    BY <1>2, LeafHalves
  <2> QED BY <1>2, <2>1, LeafHalves DEF LeafType
<1>4. pivot = n.keys[s]
  BY DEF LeafPivot
<1> HIDE DEF s, pivot
<1>5. NodeOrdered(LeftLeaf(n), Below(own, pivot), home)
  <2>1. \A i \in 1 .. s : i \in 1 .. LeafN /\ s \in 1 .. LeafN
    BY <1>0, <1>3
  <2>2. Strict(n.keys, s)
    BY <1>1, <2>1 DEF Strict
  <2>3. \A i \in 1 .. s : n.keys[i] \in own /\ n.keys[i] <= pivot
    BY <1>1, <1>2, <1>4, <2>1 DEF Sorted
  <2> QED BY <1>3, <2>2, <2>3 DEF NodeOrdered, Below
<1>6. ASSUME NEW j \in 1 .. LeafN - s
      PROVE  s + j \in 1 .. LeafN /\ s \in 1 .. LeafN /\ s < s + j
  BY <1>0, <1>3
<1>7. NodeOrdered(RightLeaf(n), Beyond(own, pivot), home)
  <2>1. \A i, j \in 1 .. LeafN - s : i < j => n.keys[s + i] < n.keys[s + j]
    <3>1. \A i, j \in 1 .. LeafN - s : i < j => s + i < s + j
      BY <1>3
    <3> QED BY <1>1, <1>6, <3>1 DEF Strict
  <2>2. \A j \in 1 .. LeafN - s : n.keys[s + j] \in own /\ ~(n.keys[s + j] <= pivot)
    BY <1>0, <1>1, <1>4, <1>6 DEF Strict
  <2>3. Strict(RightLeaf(n).keys, LeafN - s)
    BY <1>3, <2>1 DEF Strict
  <2> QED BY <1>3, <2>2, <2>3 DEF NodeOrdered, Beyond
<1>8. pivot \in own /\ Beyond(own, pivot) # {}
  <2>1. 1 \in 1 .. LeafN - s /\ s \in 1 .. LeafN
    BY <1>0, <1>3
  <2>2. n.keys[s + 1] \in own /\ ~(n.keys[s + 1] <= pivot)
    BY <1>0, <1>1, <1>4, <1>6, <2>1 DEF Strict
  <2> QED BY <1>1, <1>4, <2>1, <2>2 DEF Beyond
<1> QED BY <1>5, <1>7, <1>8 DEF pivot

(* So are the halves of an inner node, and every key keeps its child. *)
LEMMA InnerHalvesOrdered ==
  ASSUME NEW n \in InnerType, n.size = InnerN, NEW own \in SUBSET Nat, NEW home,
         NodeOrdered(n, own, home)
  PROVE  /\ NodeOrdered(LeftInner(n), Below(own, InnerPivot(n)), home)
         /\ NodeOrdered(RightInner(n), Beyond(own, InnerPivot(n)), home)
         /\ InnerPivot(n) \in own /\ Beyond(own, InnerPivot(n)) # {}
<1> DEFINE s == SplitIndex(n)
           pivot == InnerPivot(n)
           l == LeftInner(n)
           r == RightInner(n)
<1>0. InnerN \in Nat /\ n.leaf = FALSE /\ \A i \in 1 .. InnerN : n.pivots[i] \in Nat
  BY SizesAssumption DEF InnerType
<1>1. /\ Strict(n.pivots, InnerN) /\ \A i \in 1 .. InnerN : n.pivots[i] \in own
      /\ \A i \in 1 .. InnerN + 1 : home[n.children[i]] = {k \in own : ChildIndex(n, k) = i}
  BY <1>0 DEF NodeOrdered
<1>2. /\ s \in 2 .. InnerN - 1 /\ InnerN = 2 * s - 1
      /\ l.size = s - 1 /\ l.pivots = n.pivots /\ l.children = n.children /\ l.leaf = FALSE
      /\ r.size = s - 1 /\ r.leaf = FALSE
      /\ \A j \in 1 .. s - 1 : r.pivots[j] = n.pivots[s + j]
      /\ \A j \in 1 .. s : r.children[j] = n.children[s + j]
      /\ pivot = n.pivots[s]
  BY InnerHalfArrays
<1>3. l \in InnerType /\ r \in InnerType
  <2>1. ChildrenIn(n, Nat)
    BY <1>0 DEF ChildrenIn, InnerType
  <2> QED BY <2>1, InnerHalves
<1> HIDE DEF s, pivot, l, r
<1>4. /\ \A i \in 1 .. s - 1 : i \in 1 .. InnerN /\ s + i \in 1 .. InnerN /\ i < s /\ s < s + i
      /\ \A i \in 1 .. s : i \in 1 .. InnerN + 1 /\ s + i \in 1 .. InnerN + 1
      /\ s \in 1 .. InnerN
  BY <1>0, <1>2
<1>5. Strict(l.pivots, l.size) /\ \A i \in 1 .. s - 1 : l.pivots[i] \in Below(own, pivot)
  <2>1. Strict(l.pivots, l.size)
    BY <1>1, <1>2, <1>4 DEF Strict
  <2>2. \A i \in 1 .. s - 1 : n.pivots[i] \in own /\ n.pivots[i] <= pivot
    BY <1>0, <1>1, <1>2, <1>4 DEF Strict
  <2> QED BY <1>2, <2>1, <2>2 DEF Below
<1>6. Strict(r.pivots, r.size)
  <2>1. \A i, j \in 1 .. s - 1 : i < j => s + i < s + j
    BY <1>2
  <2> QED BY <1>1, <1>2, <1>4, <2>1 DEF Strict
<1>7. \A i \in 1 .. s - 1 : r.pivots[i] \in Beyond(own, pivot)
  BY <1>0, <1>1, <1>2, <1>4 DEF Strict, Beyond
<1>8. ASSUME NEW k \in own
      PROVE  /\ k <= pivot <=> ChildIndex(n, k) <= s
             /\ k <= pivot => ChildIndex(l, k) = ChildIndex(n, k)
             /\ ~(k <= pivot) => ChildIndex(r, k) = ChildIndex(n, k) - s
             /\ ChildIndex(n, k) \in 1 .. InnerN + 1
  <2> DEFINE b == ChildIndex(n, k)
  <2>1. b \in 1 .. InnerN + 1 /\ \A j \in 1 .. InnerN : j < b <=> n.pivots[j] < k
    BY <1>1, IndexOfChild
  <2> HIDE DEF b
  <2>2. k <= pivot <=> b <= s
    BY <1>0, <1>2, <1>4, <2>1
  <2>3. ASSUME k <= pivot PROVE ChildIndex(l, k) = b
    <3>1. b \in 1 .. l.size + 1
      BY <1>2, <2>1, <2>2, <2>3
    <3>2. \A j \in 1 .. l.size : j < b <=> l.pivots[j] < k
      BY <1>2, <1>4, <2>1
    <3> QED BY <1>3, <1>5, <3>1, <3>2, IndexIs
  <2>4. ASSUME ~(k <= pivot) PROVE ChildIndex(r, k) = b - s
    <3> DEFINE m == b - s
    <3>1. m \in 1 .. r.size + 1
      BY <1>2, <2>1, <2>2, <2>4
    <3>2. \A j \in 1 .. r.size : j < m <=> r.pivots[j] < k
      <4> SUFFICES ASSUME NEW j \in 1 .. s - 1 PROVE j < m <=> r.pivots[j] < k
        BY <1>2
      <4>1. r.pivots[j] = n.pivots[s + j] /\ (s + j < b <=> n.pivots[s + j] < k)
        BY <1>2, <1>4, <2>1
      <4> QED BY <1>2, <2>1, <4>1
    <3> HIDE DEF m
    <3>3. ChildIndex(r, k) = m
      BY <1>3, <1>6, <3>1, <3>2, IndexIs
    <3> QED BY <3>3 DEF m
  <2> QED BY <2>1, <2>2, <2>3, <2>4 DEF b
<1>9. ASSUME NEW i \in 1 .. s
      PROVE  home[l.children[i]] = {k \in Below(own, pivot) : ChildIndex(l, k) = i}
  <2>1. home[l.children[i]] = {k \in own : ChildIndex(n, k) = i} /\ i <= s
    BY <1>1, <1>2, <1>4
  <2> QED BY <1>8, <2>1 DEF Below
<1>10. ASSUME NEW i \in 1 .. s
       PROVE  home[r.children[i]] = {k \in Beyond(own, pivot) : ChildIndex(r, k) = i}
  <2>1. home[r.children[i]] = {k \in own : ChildIndex(n, k) = s + i}
    BY <1>1, <1>2, <1>4
  <2>2. \A k \in own : ChildIndex(n, k) = s + i <=> ~(k <= pivot) /\ ChildIndex(r, k) = i
    <3> SUFFICES ASSUME NEW k \in own
                 PROVE  ChildIndex(n, k) = s + i <=> ~(k <= pivot) /\ ChildIndex(r, k) = i
      OBVIOUS
    <3> DEFINE b == ChildIndex(n, k)
    <3>1. /\ k <= pivot <=> b <= s
          /\ ~(k <= pivot) => ChildIndex(r, k) = b - s
          /\ b \in Nat /\ s \in Nat
      BY <1>2, <1>8
    <3> HIDE DEF b
    <3>2. b = s + i <=> ~(k <= pivot) /\ ChildIndex(r, k) = i
      BY <3>1
    <3> QED BY <3>2 DEF b
  <2> QED BY <2>1, <2>2 DEF Beyond
<1>11. NodeOrdered(l, Below(own, pivot), home)
  BY <1>2, <1>5, <1>9 DEF NodeOrdered
<1>12. NodeOrdered(r, Beyond(own, pivot), home)
  BY <1>2, <1>6, <1>7, <1>10 DEF NodeOrdered
<1>13. pivot \in own /\ Beyond(own, pivot) # {}
  <2>1. 1 \in 1 .. s - 1
    BY <1>2
  <2> QED BY <1>1, <1>2, <1>4, <1>7, <2>1 DEF Beyond
<1> QED BY <1>11, <1>12, <1>13 DEF l, r, pivot

(* Both kinds of nodes, and the pivot between their halves. *)
LEMMA HalvesOrdered ==
  ASSUME NEW S, NEW n, NodeOK(n, S), Full(n), NEW own \in SUBSET Nat, NEW home,
         NodeOrdered(n, own, home)
  PROVE  /\ NodeOrdered(Left(n), Below(own, Pivot(n)), home)
         /\ NodeOrdered(Right(n), Beyond(own, Pivot(n)), home)
         /\ Pivot(n) \in own /\ Beyond(own, Pivot(n)) # {}
<1>1. CASE n \in LeafType
  <2>1. n.leaf = TRUE /\ n.size = LeafN
    BY <1>1 DEF LeafType, Full
  <2> QED BY <1>1, <2>1, LeafHalvesOrdered DEF Left, Right, Pivot
<1>2. CASE n \in InnerType
  <2>1. n.leaf = FALSE /\ n.size = InnerN
    BY <1>2 DEF InnerType, Full
  <2> QED BY <1>2, <2>1, InnerHalvesOrdered DEF Left, Right, Pivot
<1> QED BY <1>1, <1>2 DEF NodeOK

(* The children of the halves are those of the node. *)
LEMMA HalvesChildren ==
  ASSUME NEW n \in InnerType, n.size = InnerN
  PROVE  /\ \A i \in 1 .. LeftInner(n).size + 1 :
              i \in 1 .. InnerN + 1 /\ LeftInner(n).children[i] = n.children[i]
         /\ \A i \in 1 .. RightInner(n).size + 1 :
              /\ SplitIndex(n) + i \in 1 .. InnerN + 1
              /\ RightInner(n).children[i] = n.children[SplitIndex(n) + i]
         /\ \A i \in 1 .. InnerN + 1 :
              \/ i \in 1 .. LeftInner(n).size + 1
              \/ i - SplitIndex(n) \in 1 .. RightInner(n).size + 1
         /\ LeftInner(n).leaf = FALSE /\ RightInner(n).leaf = FALSE
         /\ LeftInner(n).size + 1 = SplitIndex(n) /\ SplitIndex(n) \in Nat
<1> DEFINE s == SplitIndex(n)
           l == LeftInner(n)
           r == RightInner(n)
<1>1. /\ s \in 2 .. InnerN - 1 /\ InnerN = 2 * s - 1
      /\ l.size = s - 1 /\ l.children = n.children /\ l.leaf = FALSE
      /\ r.size = s - 1 /\ r.leaf = FALSE
      /\ \A j \in 1 .. s : r.children[j] = n.children[s + j]
  BY InnerHalfArrays
<1>2. InnerN \in Nat
  BY SizesAssumption
<1> HIDE DEF s, l, r
<1>3. \A i \in 1 .. l.size + 1 : i \in 1 .. InnerN + 1 /\ l.children[i] = n.children[i]
  BY <1>1, <1>2
<1>4. \A i \in 1 .. r.size + 1 : s + i \in 1 .. InnerN + 1 /\ r.children[i] = n.children[s + i]
  BY <1>1, <1>2
<1>5. \A i \in 1 .. InnerN + 1 : i \in 1 .. l.size + 1 \/ i - s \in 1 .. r.size + 1
  BY <1>1, <1>2
<1>6. l.size + 1 = s /\ s \in Nat
  BY <1>1, <1>2
<1> QED BY <1>1, <1>3, <1>4, <1>5, <1>6 DEF s, l, r

(* The halves are at the level of the node. *)
LEMMA HalvesLevel ==
  ASSUME NEW S, NEW n, NodeOK(n, S), Full(n), NEW h, NEW height, NodeLevel(n, h, height)
  PROVE  NodeLevel(Left(n), h, height) /\ NodeLevel(Right(n), h, height)
<1>1. CASE n \in LeafType
  <2>1. n.leaf = TRUE /\ Left(n).leaf = n.leaf /\ Right(n).leaf = n.leaf
    BY <1>1, Halves DEF LeafType
  <2> QED BY <2>1 DEF NodeLevel
<1>2. CASE n \in InnerType
  <2>1. n.leaf = FALSE /\ n.size = InnerN /\ Left(n) = LeftInner(n) /\ Right(n) = RightInner(n)
    BY <1>2 DEF InnerType, Full, Left, Right
  <2> DEFINE l == LeftInner(n)
             r == RightInner(n)
             s == SplitIndex(n)
  <2>2. /\ \A i \in 1 .. l.size + 1 : i \in 1 .. InnerN + 1 /\ l.children[i] = n.children[i]
        /\ \A i \in 1 .. r.size + 1 :
             s + i \in 1 .. InnerN + 1 /\ r.children[i] = n.children[s + i]
        /\ l.leaf = FALSE /\ r.leaf = FALSE
    BY <1>2, <2>1, HalvesChildren
  <2> HIDE DEF l, r, s
  <2>3. \A i \in 1 .. InnerN + 1 : height[n.children[i]] + 1 = h
    BY <2>1 DEF NodeLevel
  <2>4. NodeLevel(l, h, height)
    BY <2>2, <2>3 DEF NodeLevel
  <2>5. NodeLevel(r, h, height)
    BY <2>2, <2>3 DEF NodeLevel
  <2> QED BY <2>1, <2>4, <2>5 DEF l, r
<1> QED BY <1>1, <1>2 DEF NodeOK

(* The arrays of a parent that gets a pivot and a page behind it. *)
Inserted(m, n, i, pivot, page) ==
  /\ m.leaf = FALSE /\ m.size = n.size + 1
  /\ \A j \in 1 .. n.size + 1 : m.pivots[j] =
       IF j < i THEN n.pivots[j] ELSE IF j = i THEN pivot ELSE n.pivots[j - 1]
  /\ \A j \in 1 .. n.size + 2 : m.children[j] =
       IF j < i + 1 THEN n.children[j] ELSE IF j = i + 1 THEN page ELSE n.children[j - 1]

LEMMA WithPivotArrays ==
  ASSUME NEW n \in InnerType, n.size < InnerN, NEW i \in 1 .. n.size + 1,
         NEW pivot \in Nat, NEW page \in Nat
  PROVE  Inserted(WithPivot(n, i, pivot, page), n, i, pivot, page)
<1> DEFINE a == n.pivots
           c == n.children
           z == n.size + 1
           N == InnerN + 1
           l == i + 1
<1>1. /\ InnerN \in Nat /\ n.size \in 0 .. InnerN - 1 /\ IsArray(a, InnerN) /\ IsArray(c, N)
      /\ N \in Nat /\ z \in 0 .. N - 1 /\ l \in 1 .. z + 1 /\ z + 1 = n.size + 2
  <2>1. InnerN \in Nat /\ n.size \in 1 .. InnerN /\ IsArray(a, InnerN) /\ IsArray(c, N)
    BY SizesAssumption DEF InnerType, IsArray
  <2> HIDE DEF a, c
  <2> QED BY <2>1
<1>2. \A j \in 1 .. n.size + 1 : InsertAt(a, n.size, i, pivot)[j] =
        IF j < i THEN a[j] ELSE IF j = i THEN pivot ELSE a[j - 1]
  <2> DEFINE y == n.size
  <2>1. InnerN \in Nat /\ y \in 0 .. InnerN - 1 /\ IsArray(a, InnerN) /\ i \in 1 .. y + 1
    BY <1>1
  <2> HIDE DEF a, y
  <2>2. \A j \in 1 .. y + 1 : InsertAt(a, y, i, pivot)[j] =
          IF j < i THEN a[j] ELSE IF j = i THEN pivot ELSE a[j - 1]
    BY <2>1, InsertAtType
  <2> QED BY <2>2 DEF y
<1>3. \A j \in 1 .. z + 1 : InsertAt(c, z, l, page)[j] =
        IF j < l THEN c[j] ELSE IF j = l THEN page ELSE c[j - 1]
  <2>1. N \in Nat /\ z \in 0 .. N - 1 /\ IsArray(c, N) /\ l \in 1 .. z + 1
    BY <1>1
  <2> HIDE DEF c, z, N, l
  <2> QED BY <2>1, InsertAtType
<1>4. WithPivot(n, i, pivot, page) =
        [leaf |-> FALSE, size |-> n.size + 1, pivots |-> InsertAt(a, n.size, i, pivot),
         children |-> InsertAt(c, z, l, page)]
  BY DEF WithPivot, Inner
<1>5. \A j \in 1 .. n.size + 2 : InsertAt(c, z, l, page)[j] =
        IF j < l THEN c[j] ELSE IF j = l THEN page ELSE c[j - 1]
  BY <1>1, <1>3
<1> HIDE DEF a, c, z
<1> QED BY <1>2, <1>4, <1>5 DEF a, c, Inserted

(* It stays in order if the pivot belongs to the child that was split, and  *)
(* so does a greater key; every key keeps its child, but for those of that  *)
(* child above the pivot.                                                   *)
Belongs(n, k, i) == ChildIndex(n, k) = i

(* The child of a key in the parent, by its child before. *)
LEMMA IndexWithPivot ==
  ASSUME NEW n \in InnerType, n.size < InnerN, Strict(n.pivots, n.size),
         NEW pivot \in Nat, NEW page \in Nat, NEW above \in Nat, pivot < above,
         NEW i, Belongs(n, pivot, i), Belongs(n, above, i),
         NEW m \in InnerType, m = WithPivot(n, i, pivot, page)
  PROVE  /\ Strict(m.pivots, m.size)
         /\ \A k \in Nat : ChildIndex(m, k) =
              IF ChildIndex(n, k) < i \/ (ChildIndex(n, k) = i /\ k <= pivot)
              THEN ChildIndex(n, k) ELSE ChildIndex(n, k) + 1
<1> DEFINE z == n.size
           a == n.pivots
           c == m.pivots
<1>1. InnerN \in Nat /\ z \in 1 .. InnerN /\ \A j \in 1 .. z : a[j] \in Nat
  <2>1. InnerN \in Nat /\ z \in 1 .. InnerN /\ IsArray(a, InnerN)
    BY SizesAssumption DEF InnerType, IsArray
  <2> HIDE DEF z, a
  <2> QED BY <2>1 DEF IsArray
<1>2. /\ i \in 1 .. z + 1
      /\ \A j \in 1 .. z : j < i <=> a[j] < pivot
      /\ \A j \in 1 .. z : j < i <=> a[j] < above
  BY IndexOfChild DEF Belongs
<1>3. /\ m.size = z + 1
      /\ \A j \in 1 .. z + 1 : c[j] = IF j < i THEN a[j] ELSE IF j = i THEN pivot ELSE a[j - 1]
  <2>1. i \in 1 .. n.size + 1
    BY <1>2
  <2>2. /\ m.size = n.size + 1
        /\ \A j \in 1 .. n.size + 1 : m.pivots[j] =
             IF j < i THEN n.pivots[j] ELSE IF j = i THEN pivot ELSE n.pivots[j - 1]
    <3>1. Inserted(m, n, i, pivot, page)
      BY <2>1, WithPivotArrays
    <3> QED BY <3>1 DEF Inserted
  <2> QED BY <2>2
<1>4. \A j, l \in 1 .. z : j < l => a[j] < a[l]
  BY DEF Strict
<1> HIDE DEF z, a, c
<1>5. ASSUME NEW j \in 1 .. z + 1, NEW l \in 1 .. z + 1, j < l
      PROVE  c[j] < c[l]
  <2>1. CASE l < i
    BY <1>1, <1>2, <1>3, <1>4, <1>5, <2>1
  <2>2. CASE l = i
    BY <1>1, <1>2, <1>3, <1>5, <2>2
  <2>3. CASE l > i
    <3>1. l - 1 \in 1 .. z /\ c[l] = a[l - 1] /\ ~(l - 1 < i)
      BY <1>1, <1>2, <1>3, <2>3
    <3>2. CASE j < i
      <4>1. j \in 1 .. z /\ c[j] = a[j] /\ j < l - 1
        BY <1>1, <1>2, <1>3, <2>3, <3>2
      <4> QED BY <1>4, <3>1, <4>1
    <3>3. CASE j = i
      <4>1. c[j] = pivot /\ ~(a[l - 1] < above) /\ a[l - 1] \in Nat
        BY <1>1, <1>2, <1>3, <3>1, <3>3
      <4> QED BY <3>1, <4>1
    <3>4. CASE j > i
      <4>1. j - 1 \in 1 .. z /\ c[j] = a[j - 1] /\ j - 1 < l - 1
        BY <1>1, <1>2, <1>3, <1>5, <3>4
      <4> QED BY <1>4, <3>1, <4>1
    <3> QED BY <1>2, <3>2, <3>3, <3>4
  <2> QED BY <1>2, <2>1, <2>2, <2>3
<1>6. Strict(m.pivots, m.size)
  BY <1>3, <1>5 DEF Strict, c
<1>7. ASSUME NEW k \in Nat
      PROVE  ChildIndex(m, k) =
               IF ChildIndex(n, k) < i \/ (ChildIndex(n, k) = i /\ k <= pivot)
               THEN ChildIndex(n, k) ELSE ChildIndex(n, k) + 1
  <2> DEFINE b == ChildIndex(n, k)
             d == IF b < i \/ (b = i /\ k <= pivot) THEN b ELSE b + 1
  <2>1. b \in 1 .. z + 1 /\ \A j \in 1 .. z : j < b <=> a[j] < k
    BY IndexOfChild DEF z, a
  <2> HIDE DEF b
  <2>2. d \in 1 .. z + 2
    BY <1>1, <1>2, <2>1
  <2>3. ASSUME NEW j \in 1 .. z + 1
        PROVE  j < d <=> c[j] < k
    <3>1. CASE j < i
      <4>1. j \in 1 .. z /\ c[j] = a[j] /\ (j < b <=> a[j] < k)
        BY <1>1, <1>2, <1>3, <2>1, <3>1
      <4>2. j < d <=> j < b
        BY <1>2, <2>1, <3>1
      <4> QED BY <4>1, <4>2
    <3>2. CASE j = i
      <4>1. c[j] = pivot
        BY <1>3, <3>2
      <4>2. CASE b < i
        <5>1. b \in 1 .. z /\ a[b] < pivot /\ ~(a[b] < k) /\ a[b] \in Nat
          BY <1>1, <1>2, <2>1, <4>2
        <5> QED BY <1>2, <2>1, <3>2, <4>1, <4>2, <5>1
      <4>3. CASE b = i
        BY <1>2, <2>1, <3>2, <4>1, <4>3
      <4>4. CASE b > i
        <5>1. i \in 1 .. z /\ a[i] < k /\ ~(a[i] < above) /\ a[i] \in Nat
          BY <1>1, <1>2, <2>1, <4>4
        <5> QED BY <1>2, <2>1, <3>2, <4>1, <4>4, <5>1
      <4> QED BY <1>2, <2>1, <4>2, <4>3, <4>4
    <3>3. CASE j > i
      <4>1. j - 1 \in 1 .. z /\ c[j] = a[j - 1] /\ (j - 1 < b <=> a[j - 1] < k)
        BY <1>1, <1>2, <1>3, <2>1, <3>3
      <4>2. j < d <=> j - 1 < b
        BY <1>2, <2>1, <3>3
      <4> QED BY <4>1, <4>2
    <3> QED BY <1>2, <3>1, <3>2, <3>3
  <2> HIDE DEF d
  <2>4. ChildIndex(m, k) = d
    <3>1. d \in 1 .. m.size + 1
      BY <1>1, <1>3, <2>2
    <3>2. \A j \in 1 .. m.size : j < d <=> m.pivots[j] < k
      BY <1>3, <2>3 DEF c
    <3> QED BY <1>6, <3>1, <3>2, IndexIs
  <2> QED BY <2>4 DEF d, b
<1> QED BY <1>6, <1>7

(* A child in page c is split, and its right half is in page right now. *)
SplitHome(home, new, c, left, right, pivot) ==
  new[left] = Below(home[c], pivot) /\ new[right] = Beyond(home[c], pivot)

LEMMA WithPivotOrdered ==
  ASSUME NEW n \in InnerType, n.size < InnerN, NEW own \in SUBSET Nat, NEW home,
         NodeOrdered(n, own, home), NEW i \in 1 .. n.size + 1, NEW c, n.children[i] = c,
         NEW pivot \in home[c], Beyond(home[c], pivot) # {}, NEW page \in Nat,
         NEW new, SplitHome(home, new, c, c, page, pivot),
         \A j \in 1 .. n.size + 1 : j # i => new[n.children[j]] = home[n.children[j]]
  PROVE  NodeOrdered(WithPivot(n, i, pivot, page), own, new)
<1> DEFINE m == WithPivot(n, i, pivot, page)
           z == n.size
<1>1. /\ InnerN \in Nat /\ z \in 1 .. InnerN /\ n.leaf = FALSE
  BY SizesAssumption DEF InnerType
<1>2. /\ Strict(n.pivots, z) /\ \A j \in 1 .. z : n.pivots[j] \in own
      /\ \A j \in 1 .. z + 1 : home[n.children[j]] = {k \in own : ChildIndex(n, k) = j}
  BY <1>1 DEF NodeOrdered
<1>3. PICK above \in home[c] : ~(above <= pivot)
  BY DEF Beyond
<1>4. /\ pivot \in own /\ above \in own /\ pivot \in Nat /\ above \in Nat /\ pivot < above
      /\ Belongs(n, pivot, i) /\ Belongs(n, above, i)
  <2>1. home[c] = {k \in own : ChildIndex(n, k) = i}
    BY <1>2
  <2>2. pivot \in own /\ above \in own /\ Belongs(n, pivot, i) /\ Belongs(n, above, i)
    BY <2>1 DEF Belongs
  <2> QED BY <1>3, <2>2
<1>5. m \in InnerType
  <2>1. ChildrenIn(n, Nat)
    <3>1. \A j \in 1 .. z + 1 : j \in 1 .. InnerN + 1
      BY <1>1
    <3> QED BY <3>1 DEF ChildrenIn, InnerType
  <2>2. WithPivot(n, ChildIndex(n, pivot), pivot, page) \in InnerType
    BY <1>4, <2>1, WithPivotOK
  <2> QED BY <1>4, <2>2 DEF Belongs
<1>6. Inserted(m, n, i, pivot, page)
  BY <1>4, WithPivotArrays
<1> HIDE DEF m
<1>7. /\ Strict(m.pivots, m.size)
      /\ \A k \in Nat : ChildIndex(m, k) =
           IF ChildIndex(n, k) < i \/ (ChildIndex(n, k) = i /\ k <= pivot)
           THEN ChildIndex(n, k) ELSE ChildIndex(n, k) + 1
  BY <1>2, <1>4, <1>5, IndexWithPivot DEF m
<1>8. \A j \in 1 .. z + 1 : m.pivots[j] \in own
  <2>1. \A j \in 1 .. z + 1 : j > i => j - 1 \in 1 .. z
    BY <1>1
  <2>2. \A j \in 1 .. z + 1 : j < i => j \in 1 .. z
    BY <1>1
  <2>3. \A j \in 1 .. z + 1 : j < i \/ j = i \/ j > i
    BY <1>1
  <2> QED BY <1>2, <1>4, <1>6, <2>1, <2>2, <2>3 DEF Inserted
<1>9. \A k \in own : ChildIndex(n, k) \in 1 .. z + 1
  BY <1>2, IndexOfChild
<1>10. ASSUME NEW j \in 1 .. z + 2
       PROVE  new[m.children[j]] = {k \in own : ChildIndex(m, k) = j}
  <2>0. i \in 1 .. z + 1
    OBVIOUS
  <2>1. CASE j < i
    <3>1. j \in 1 .. z + 1 /\ m.children[j] = n.children[j]
      BY <1>1, <1>6, <2>0, <2>1 DEF Inserted
    <3>2. new[m.children[j]] = {k \in own : ChildIndex(n, k) = j}
      BY <1>2, <2>1, <3>1
    <3>3. \A k \in own : ChildIndex(m, k) = j <=> ChildIndex(n, k) = j
      BY <1>7, <1>9, <2>0, <2>1
    <3> QED BY <3>2, <3>3
  <2>2. CASE j = i
    <3>1. m.children[j] = c
      BY <1>1, <1>6, <2>0, <2>2 DEF Inserted
    <3>2. new[c] = {k \in own : ChildIndex(n, k) = i /\ k <= pivot}
      BY <1>2 DEF SplitHome, Below
    <3>3. \A k \in own : ChildIndex(m, k) = i <=> ChildIndex(n, k) = i /\ k <= pivot
      BY <1>7, <1>9, <2>0
    <3> QED BY <2>2, <3>1, <3>2, <3>3
  <2>3. CASE j = i + 1
    <3>1. m.children[j] = page
      BY <1>1, <1>6, <2>0, <2>3 DEF Inserted
    <3>2. new[page] = {k \in own : ChildIndex(n, k) = i /\ ~(k <= pivot)}
      BY <1>2 DEF SplitHome, Beyond
    <3>3. \A k \in own : ChildIndex(m, k) = i + 1 <=> ChildIndex(n, k) = i /\ ~(k <= pivot)
      BY <1>7, <1>9, <2>0
    <3> QED BY <2>3, <3>1, <3>2, <3>3
  <2>4. CASE j > i + 1
    <3>1. j - 1 \in 1 .. z + 1 /\ m.children[j] = n.children[j - 1] /\ j - 1 # i
      BY <1>1, <1>6, <2>0, <2>4 DEF Inserted
    <3>2. new[m.children[j]] = {k \in own : ChildIndex(n, k) = j - 1}
      BY <1>2, <3>1
    <3>3. \A k \in own : ChildIndex(m, k) = j <=> ChildIndex(n, k) = j - 1
      BY <1>7, <1>9, <2>0, <2>4
    <3> QED BY <3>2, <3>3
  <2> QED BY <2>0, <2>1, <2>2, <2>3, <2>4
<1>11. m.leaf = FALSE /\ m.size = z + 1 /\ m.size + 1 = z + 2
  BY <1>1, <1>6 DEF Inserted
<1> HIDE DEF z
<1> QED BY <1>7, <1>8, <1>10, <1>11 DEF NodeOrdered, m

(* The parent stays at its level. *)
LEMMA WithPivotLevel ==
  ASSUME NEW n \in InnerType, n.size < InnerN, NEW h, NEW height,
         NodeLevel(n, h, height), NEW i \in 1 .. n.size + 1,
         NEW pivot \in Nat, NEW page \in Nat, NEW new, new[page] = height[n.children[i]],
         \A j \in 1 .. n.size + 1 : new[n.children[j]] = height[n.children[j]]
  PROVE  NodeLevel(WithPivot(n, i, pivot, page), h, new)
<1> DEFINE m == WithPivot(n, i, pivot, page)
           z == n.size
<1>1. /\ InnerN \in Nat /\ z \in 1 .. InnerN /\ n.leaf = FALSE /\ i \in 1 .. z + 1
  BY SizesAssumption DEF InnerType
<1>2. \A j \in 1 .. z + 1 : new[n.children[j]] + 1 = h
  BY <1>1 DEF NodeLevel
<1>3. Inserted(m, n, i, pivot, page)
  BY <1>1, WithPivotArrays
<1>4. new[page] + 1 = h
  BY <1>1 DEF NodeLevel
<1> HIDE DEF m
<1>5. ASSUME NEW j \in 1 .. z + 2 PROVE new[m.children[j]] + 1 = h
  <2>1. CASE j < i + 1
    <3>1. j \in 1 .. z + 1
      BY <1>1, <2>1
    <3> QED BY <1>2, <1>3, <2>1, <3>1 DEF Inserted
  <2>2. CASE j = i + 1
    BY <1>3, <1>4, <2>2 DEF Inserted
  <2>3. CASE j > i + 1
    <3>1. j - 1 \in 1 .. z + 1 /\ ~(j < i + 1) /\ j # i + 1
      BY <1>1, <2>3
    <3> QED BY <1>2, <1>3, <3>1 DEF Inserted
  <2> QED BY <1>1, <2>1, <2>2, <2>3
<1>6. m.leaf = FALSE /\ m.size + 1 = z + 2
  BY <1>1, <1>3 DEF Inserted
<1> HIDE DEF z
<1> QED BY <1>5, <1>6 DEF NodeLevel, m

(* The new root above the halves of the old one. *)
LEMMA NewRootPlaces ==
  ASSUME NEW pivot \in Nat, NEW left \in Nat, NEW right \in Nat, NEW new,
         new[left] = Below(Nat, pivot), new[right] = Beyond(Nat, pivot)
  PROVE  NodeOrdered(NewRoot(pivot, left, right), Nat, new)
<1> DEFINE m == NewRoot(pivot, left, right)
<1>1. m \in InnerType
  BY NewRootOK
<1>2. /\ m.leaf = FALSE /\ m.size = 1 /\ m.pivots[1] = pivot
      /\ \A i \in 1 .. 2 : m.children[i] = IF i = 1 THEN left ELSE right
  <2>1. InnerN \in Nat /\ 1 \in 1 .. InnerN /\ 1 \in 1 .. InnerN + 1 /\ 2 \in 1 .. InnerN + 1
    BY SizesAssumption
  <2> QED BY <2>1 DEF NewRoot, Inner
<1> HIDE DEF m
<1>3. Strict(m.pivots, 1)
  BY DEF Strict
<1>4. ASSUME NEW k \in Nat
      PROVE  ChildIndex(m, k) = IF k <= pivot THEN 1 ELSE 2
  <2> DEFINE d == IF k <= pivot THEN 1 ELSE 2
  <2>1. d \in 1 .. m.size + 1 /\ \A j \in 1 .. m.size : j < d <=> m.pivots[j] < k
    BY <1>2
  <2> HIDE DEF d
  <2>2. ChildIndex(m, k) = d
    BY <1>1, <1>2, <1>3, <2>1, IndexIs
  <2> QED BY <2>2 DEF d
<1>5. new[left] = {k \in Nat : ChildIndex(m, k) = 1}
  BY <1>4 DEF Below
<1>6. new[right] = {k \in Nat : ChildIndex(m, k) = 2}
  BY <1>4 DEF Beyond
<1>7. \A i \in 1 .. 2 : new[m.children[i]] = {k \in Nat : ChildIndex(m, k) = i}
  <2>1. \A i \in 1 .. 2 : i = 1 \/ i = 2
    OBVIOUS
  <2> QED BY <1>2, <1>5, <1>6, <2>1
<1>8. NodeOrdered(m, Nat, new)
  <2>1. \A i \in 1 .. 1 : m.pivots[i] \in Nat
    BY <1>2
  <2> QED BY <1>2, <1>3, <1>7, <2>1 DEF NodeOrdered
<1> QED BY <1>8 DEF m

(* A node stays in order, and at its level, if the homes, or the levels, of *)
(* its children stay.                                                       *)
SameKids(n, f, g) ==
  ~n.leaf => \A i \in 1 .. n.size + 1 : f[n.children[i]] = g[n.children[i]]

LEMMA OrderedElsewhere ==
  ASSUME NEW n, NEW own, NEW home, NodeOrdered(n, own, home), NEW new,
         SameKids(n, new, home)
  PROVE  NodeOrdered(n, own, new)
BY DEF NodeOrdered, SameKids

LEMMA LevelElsewhere ==
  ASSUME NEW n, NEW h, NEW height, NodeLevel(n, h, height), NEW new,
         SameKids(n, new, height)
  PROVE  NodeLevel(n, h, new)
BY DEF NodeLevel, SameKids

(* The children of the halves of a node are those of the node. *)
LEMMA HalvesKids ==
  ASSUME NEW S, NEW n, NodeOK(n, S), Full(n), NEW i \in Places, NEW c
  PROVE  /\ ChildAt(Left(n), i, c) => i <= SplitIndex(n) /\ ChildAt(n, i, c)
         /\ ChildAt(Right(n), i, c) => i + SplitIndex(n) \in Places /\ ChildAt(n, i + SplitIndex(n), c)
         /\ ChildAt(n, i, c) => \/ ChildAt(Left(n), i, c)
                                \/ /\ i - SplitIndex(n) \in Places
                                   /\ ChildAt(Right(n), i - SplitIndex(n), c)
         /\ SplitIndex(n) \in Nat
<1>0. InnerN \in Nat /\ LeafN \in Nat
  BY SizesAssumption
<1>1. CASE n \in LeafType
  <2>1. n.leaf = TRUE /\ Left(n).leaf = n.leaf /\ Right(n).leaf = n.leaf
    BY <1>1, Halves DEF LeafType
  <2>2. SplitIndex(n) \in Nat
    <3>1. LeafN \in Nat \ {0, 1} /\ n.size = LeafN
      BY <2>1, SizesAssumption DEF Full
    <3>2. (LeafN - 1) \div 2 + 1 = LeafN - LeafN \div 2 /\ LeafN \div 2 \in 1 .. LeafN - 1
      BY <3>1, HalfOf
    <3> QED BY <3>1, <3>2 DEF SplitIndex
  <2> QED BY <2>1, <2>2 DEF ChildAt
<1>2. CASE n \in InnerType
  <2> DEFINE l == LeftInner(n)
             r == RightInner(n)
             s == SplitIndex(n)
  <2>1. n.leaf = FALSE /\ n.size = InnerN /\ Left(n) = l /\ Right(n) = r
    BY <1>2 DEF InnerType, Full, Left, Right
  <2>2. /\ \A j \in 1 .. l.size + 1 : j \in 1 .. InnerN + 1 /\ l.children[j] = n.children[j]
        /\ \A j \in 1 .. r.size + 1 :
             s + j \in 1 .. InnerN + 1 /\ r.children[j] = n.children[s + j]
        /\ \A j \in 1 .. InnerN + 1 : j \in 1 .. l.size + 1 \/ j - s \in 1 .. r.size + 1
        /\ l.leaf = FALSE /\ r.leaf = FALSE /\ l.size + 1 = s /\ s \in Nat
    BY <1>2, <2>1, HalvesChildren
  <2>3. r.size + 1 = s /\ InnerN = 2 * s - 1
    BY <1>2, <2>1, <2>2, InnerHalfArrays
  <2> HIDE DEF l, r, s
  <2>4. ChildAt(l, i, c) => i <= s /\ ChildAt(n, i, c)
    BY <2>1, <2>2 DEF ChildAt
  <2>5. ASSUME ChildAt(r, i, c) PROVE i + s \in Places /\ ChildAt(n, i + s, c)
    <3>1. i \in 1 .. r.size + 1 /\ r.children[i] = c
      BY <2>5 DEF ChildAt
    <3>2. s + i \in 1 .. InnerN + 1 /\ n.children[s + i] = c /\ s + i = i + s
      BY <2>2, <3>1
    <3> QED BY <2>1, <3>2 DEF ChildAt, Places
  <2>6. ASSUME ChildAt(n, i, c)
        PROVE  ChildAt(l, i, c) \/ (i - s \in Places /\ ChildAt(r, i - s, c))
    <3>1. CASE i \in 1 .. l.size + 1
      BY <2>2, <2>6, <3>1 DEF ChildAt
    <3>2. CASE i - s \in 1 .. r.size + 1
      <4>1. r.children[i - s] = n.children[s + (i - s)] /\ s + (i - s) = i
        BY <2>2, <3>2 DEF Places
      <4>2. i - s \in Places
        BY <1>0, <2>2, <2>3, <3>2 DEF Places
      <4> QED BY <2>2, <2>6, <3>2, <4>1, <4>2 DEF ChildAt
    <3> QED BY <2>2, <3>1, <3>2 DEF Places
  <2> QED BY <2>1, <2>2, <2>4, <2>5, <2>6 DEF l, r, s
<1> QED BY <1>1, <1>2 DEF NodeOK

(* Those of a parent move behind the new page. *)
LEMMA WithPivotKids ==
  ASSUME NEW n \in InnerType, n.size < InnerN, NEW i \in 1 .. n.size + 1,
         NEW pivot \in Nat, NEW page \in Nat, NEW j \in Places, NEW c
  PROVE  LET m == WithPivot(n, i, pivot, page) IN
         /\ ChildAt(m, j, c) => \/ j <= i /\ ChildAt(n, j, c)
                                \/ j = i + 1 /\ c = page
                                \/ j > i + 1 /\ j - 1 \in Places /\ ChildAt(n, j - 1, c)
         /\ ChildAt(m, i + 1, page) /\ i + 1 \in Places
         /\ ChildAt(n, j, c) => \/ ChildAt(m, j, c)
                                \/ j + 1 \in Places /\ ChildAt(m, j + 1, c)
<1> DEFINE m == WithPivot(n, i, pivot, page)
           z == n.size
<1>1. /\ InnerN \in Nat /\ z \in 1 .. InnerN - 1 /\ n.leaf = FALSE /\ i \in 1 .. z + 1
  <2>1. InnerN \in Nat /\ z \in 1 .. InnerN /\ z < InnerN /\ n.leaf = FALSE
    BY SizesAssumption DEF InnerType
  <2> HIDE DEF z
  <2> QED BY <2>1 DEF z
<1>2. Inserted(m, n, i, pivot, page)
  BY <1>1, WithPivotArrays
<1> HIDE DEF m
<1>3. /\ m.leaf = FALSE /\ m.size + 1 = z + 2
      /\ \A l \in 1 .. z + 2 : m.children[l] =
           IF l < i + 1 THEN n.children[l] ELSE IF l = i + 1 THEN page ELSE n.children[l - 1]
  BY <1>1, <1>2 DEF Inserted
<1>4. ASSUME ChildAt(m, j, c)
      PROVE  \/ j <= i /\ ChildAt(n, j, c)
             \/ j = i + 1 /\ c = page
             \/ j > i + 1 /\ j - 1 \in Places /\ ChildAt(n, j - 1, c)
  <2>1. j \in 1 .. z + 2 /\ m.children[j] = c
    BY <1>3, <1>4 DEF ChildAt
  <2>2. CASE j < i + 1
    <3>1. j \in 1 .. z + 1 /\ j <= i /\ n.children[j] = c
      BY <1>1, <1>3, <2>1, <2>2
    <3> QED BY <1>1, <3>1 DEF ChildAt
  <2>3. CASE j = i + 1
    BY <1>3, <2>1, <2>3
  <2>4. CASE j > i + 1
    <3>1. j - 1 \in 1 .. z + 1 /\ ~(j < i + 1) /\ j # i + 1 /\ j - 1 \in 1 .. InnerN + 1
      BY <1>1, <2>1, <2>4
    <3>2. n.children[j - 1] = c
      BY <1>3, <2>1, <3>1
    <3> QED BY <1>1, <2>4, <3>1, <3>2 DEF ChildAt, Places
  <2> QED BY <1>1, <2>1, <2>2, <2>3, <2>4
<1>5. ChildAt(m, i + 1, page) /\ i + 1 \in Places
  <2>1. i + 1 \in 1 .. z + 2 /\ i + 1 \in 1 .. InnerN + 1
    BY <1>1
  <2> QED BY <1>3, <2>1 DEF ChildAt, Places
<1>6. ASSUME ChildAt(n, j, c)
      PROVE  ChildAt(m, j, c) \/ (j + 1 \in Places /\ ChildAt(m, j + 1, c))
  <2>1. j \in 1 .. z + 1 /\ n.children[j] = c
    BY <1>6 DEF ChildAt
  <2>2. CASE j < i + 1
    <3>1. j \in 1 .. z + 2
      BY <1>1, <2>1
    <3> QED BY <1>3, <2>1, <2>2, <3>1 DEF ChildAt
  <2>3. CASE ~(j < i + 1)
    <3>1. /\ j + 1 \in 1 .. z + 2 /\ j + 1 \in 1 .. InnerN + 1 /\ j + 1 - 1 = j
          /\ ~(j + 1 < i + 1) /\ j + 1 # i + 1
      BY <1>1, <2>1, <2>3
    <3>2. m.children[j + 1] = c
      BY <1>3, <2>1, <3>1
    <3> QED BY <1>3, <3>1, <3>2 DEF ChildAt, Places
  <2> QED BY <2>2, <2>3
<1> QED BY <1>4, <1>5, <1>6 DEF m

(* The children of a node are pages that exist, and not the root. *)
LEMMA ChildCreated ==
  ASSUME TreeInv, NEW p \in Created, NEW i, NEW c, ChildAt(node[p], i, c)
  PROVE  c \in Created \ {Root} /\ node[p] \in InnerType
<1>1. NodeOK(node[p], Created \ {Root})
  BY DEF TreeInv, PagesOK
<1>2. node[p] \in InnerType /\ ChildrenIn(node[p], Created \ {Root})
  BY <1>1 DEF NodeOK, LeafType, ChildAt
<1> QED BY <1>2 DEF ChildAt, ChildrenIn

(* The pages after a split of the root, and after one of another node. *)
RootSplit(n, F) ==
  /\ Created' = Created \cup {F, F + 1}
  /\ node'[Root] = NewRoot(Pivot(n), F + 1, F)
  /\ node'[F] = Right(n) /\ node'[F + 1] = Left(n)
  /\ \A p \in Created \ {Root} : node'[p] = node[p]

ChildSplit(n, c, q, i, F) ==
  /\ Created' = Created \cup {F}
  /\ node'[c] = Left(n) /\ node'[F] = Right(n)
  /\ node'[q] = WithPivot(node[q], i, Pivot(n), F)
  /\ \A p \in Created \ {c, q} : node'[p] = node[p]

(* After a split every page still has one parent: the root's case. *)
LEMMA RootSplitParents ==
  ASSUME TreeInv, ParentsOK, NEW n, n = node[Root], Full(n), NEW F, F = Fresh, RootSplit(n, F)
  PROVE  ParentsOK'
<1> DEFINE s == SplitIndex(n)
<1>1. /\ F \in Nat /\ F \notin Created /\ F + 1 \notin Created /\ Root \in Created
      /\ F # Root /\ F + 1 # Root /\ Created \subseteq Nat
  BY FreshPage, RootCreated
<1>2. NodeOK(n, Created \ {Root})
  BY <1>1 DEF TreeInv, PagesOK
<1>3. Pivot(n) \in Nat
  BY <1>2, Halves
<1>4. ASSUME NEW i \in Places, NEW c
      PROVE  /\ ChildAt(Left(n), i, c) => i <= s /\ ChildAt(n, i, c)
             /\ ChildAt(Right(n), i, c) => i + s \in Places /\ ChildAt(n, i + s, c)
             /\ ChildAt(n, i, c) => ChildAt(Left(n), i, c)
                                    \/ (i - s \in Places /\ ChildAt(Right(n), i - s, c))
             /\ s \in Nat
  BY <1>2, HalvesKids
<1>5. ASSUME NEW i \in Places, NEW c
      PROVE  ChildAt(node'[Root], i, c) <=> (i = 1 /\ c = F + 1) \/ (i = 2 /\ c = F)
  <2> DEFINE m == NewRoot(Pivot(n), F + 1, F)
  <2>1. InnerN \in Nat /\ 1 \in 1 .. InnerN + 1 /\ 2 \in 1 .. InnerN + 1
    BY SizesAssumption
  <2>2. m.leaf = FALSE /\ m.size = 1 /\ m.children[1] = F + 1 /\ m.children[2] = F
    BY <2>1 DEF NewRoot, Inner
  <2> HIDE DEF m
  <2>3. \A j \in 1 .. m.size + 1 : j = 1 \/ j = 2
    BY <2>2
  <2>4. 1 \in 1 .. m.size + 1 /\ 2 \in 1 .. m.size + 1
    BY <2>2
  <2>5. ChildAt(m, i, c) <=> (i = 1 /\ c = F + 1) \/ (i = 2 /\ c = F)
    BY <2>2, <2>3, <2>4 DEF ChildAt
  <2> QED BY <2>5 DEF RootSplit, m
<1> HIDE DEF s
<1> DEFINE From(p) == IF p \in {F, F + 1} THEN Root ELSE p
           At0(p, i) == IF p = F THEN i + s ELSE i
<1>6. ASSUME NEW p \in Created', p # Root, NEW i \in Places, NEW c, ChildAt(node'[p], i, c)
      PROVE  /\ From(p) \in Created /\ At0(p, i) \in Places
             /\ ChildAt(node[From(p)], At0(p, i), c)
             /\ p = F + 1 => i <= s
             /\ c \in Created \ {Root} /\ s \in Nat
             /\ From(p) = Root => p \in {F, F + 1}
  <2>1. CASE p = F
    <3>1. ChildAt(Right(n), i, c)
      BY <1>6, <2>1 DEF RootSplit
    <3>2. i + s \in Places /\ ChildAt(node[Root], i + s, c) /\ s \in Nat
      BY <1>4, <3>1
    <3> QED BY <1>1, <2>1, <3>2, ChildCreated
  <2>2. CASE p = F + 1
    <3>1. ChildAt(Left(n), i, c)
      BY <1>6, <2>2 DEF RootSplit
    <3>2. i <= s /\ ChildAt(node[Root], i, c) /\ s \in Nat /\ p # F
      BY <1>1, <1>4, <2>2, <3>1
    <3> QED BY <1>1, <2>2, <3>2, ChildCreated
  <2>3. CASE p \in Created
    <3>1. ChildAt(node[p], i, c) /\ p # F /\ p # F + 1 /\ s \in Nat
      BY <1>1, <1>4, <1>6, <2>3 DEF RootSplit
    <3> QED BY <1>6, <2>3, <3>1, ChildCreated
  <2> QED BY <2>1, <2>2, <2>3 DEF RootSplit
<1>7. \A i \in Places : i \in Nat
  BY DEF Places
<1>8. ASSUME NEW p \in Created', NEW q \in Created', NEW i \in Places, NEW j \in Places,
             NEW c \in Created', ChildAt(node'[p], i, c), ChildAt(node'[q], j, c)
      PROVE  p = q /\ i = j
  <2>1. CASE p = Root
    <3>1. c \notin Created
      BY <1>1, <1>5, <1>8, <2>1
    <3>2. q = Root
      BY <1>6, <1>8, <3>1
    <3> QED BY <1>1, <1>5, <1>8, <2>1, <3>2
  <2>2. CASE q = Root
    <3>1. c \notin Created
      BY <1>1, <1>5, <1>8, <2>2
    <3>2. p = Root
      BY <1>6, <1>8, <3>1
    <3> QED BY <1>1, <1>5, <1>8, <2>2, <3>2
  <2>3. CASE p # Root /\ q # Root
    <3>1. /\ From(p) \in Created /\ At0(p, i) \in Places /\ ChildAt(node[From(p)], At0(p, i), c)
          /\ p = F + 1 => i <= s
          /\ c \in Created \ {Root} /\ s \in Nat
          /\ From(p) = Root => p \in {F, F + 1}
      BY <1>6, <1>8, <2>3
    <3>2. /\ From(q) \in Created /\ At0(q, j) \in Places /\ ChildAt(node[From(q)], At0(q, j), c)
          /\ q = F + 1 => j <= s
          /\ From(q) = Root => q \in {F, F + 1}
      BY <1>6, <1>8, <2>3
    <3> HIDE DEF From, At0
    <3>3. From(p) = From(q) /\ At0(p, i) = At0(q, j)
      BY <3>1, <3>2 DEF ParentsOK
    <3>4. p = q \/ (p = F /\ q = F + 1) \/ (p = F + 1 /\ q = F)
      BY <3>1, <3>2, <3>3 DEF From
    <3>5. i \in Nat /\ j \in Nat /\ i >= 1 /\ j >= 1 /\ F # F + 1
      BY <1>1 DEF Places
    <3>6. CASE p = F /\ q = F + 1
      BY <3>1, <3>2, <3>3, <3>5, <3>6 DEF At0
    <3>7. CASE p = F + 1 /\ q = F
      BY <3>1, <3>2, <3>3, <3>5, <3>7 DEF At0
    <3>8. CASE p = q
      BY <3>1, <3>3, <3>5, <3>8 DEF At0
    <3> QED BY <3>4, <3>6, <3>7, <3>8
  <2> QED BY <2>1, <2>2, <2>3
<1>9. ASSUME NEW c \in Created' \ {Root}
      PROVE  \E p \in Created' : \E i \in Places : ChildAt(node'[p], i, c)
  <2>0. 1 \in Places /\ 2 \in Places /\ Root \in Created' /\ F \in Created' /\ F + 1 \in Created'
    BY <1>1, SizesAssumption DEF Places, RootSplit
  <2>1. CASE c \notin Created
    <3>1. c = F \/ c = F + 1
      BY <2>1 DEF RootSplit
    <3>2. ChildAt(node'[Root], 1, F + 1) /\ ChildAt(node'[Root], 2, F)
      BY <1>5, <2>0
    <3> QED BY <2>0, <3>1, <3>2
  <2>2. CASE c \in Created
    <3>1. PICK p \in Created : \E i \in Places : ChildAt(node[p], i, c)
      BY <2>2 DEF ParentsOK
    <3>2. PICK i \in Places : ChildAt(node[p], i, c)
      BY <3>1
    <3>3. CASE p # Root
      BY <3>2, <3>3 DEF RootSplit
    <3>4. CASE p = Root
      <4>1. ChildAt(Left(n), i, c) \/ (i - s \in Places /\ ChildAt(Right(n), i - s, c))
        BY <1>4, <3>2, <3>4
      <4>2. CASE ChildAt(Left(n), i, c)
        <5>1. ChildAt(node'[F + 1], i, c)
          BY <4>2 DEF RootSplit
        <5> QED BY <2>0, <5>1
      <4>3. CASE i - s \in Places /\ ChildAt(Right(n), i - s, c)
        <5>1. ChildAt(node'[F], i - s, c)
          BY <4>3 DEF RootSplit
        <5> QED BY <2>0, <4>3, <5>1
      <4> QED BY <4>1, <4>2, <4>3
    <3> QED BY <3>3, <3>4
  <2> QED BY <2>1, <2>2
<1> QED BY <1>8, <1>9 DEF ParentsOK

(* The case of a node with a parent. *)
LEMMA ChildSplitParents ==
  ASSUME TreeInv, ParentsOK, NEW q \in Created, NEW i \in 1 .. node[q].size + 1, NEW c,
         ChildAt(node[q], i, c), node[q].size < InnerN,
         NEW n, n = node[c], Full(n), NEW F, F = Fresh, ChildSplit(n, c, q, i, F)
  PROVE  ParentsOK'
<1> DEFINE s == SplitIndex(n)
<1>1. /\ F \in Nat /\ F \notin Created /\ Root \in Created /\ F # Root
  BY FreshPage, RootCreated
<1>2. /\ c \in Created \ {Root} /\ node[q] \in InnerType /\ InnerN \in Nat
      /\ NodeOK(n, Created \ {Root})
  BY ChildCreated, SizesAssumption DEF TreeInv, PagesOK
<1>3. Pivot(n) \in Nat
  BY <1>2, Halves
<1>4. i \in Places
  <2> DEFINE z == node[q].size
  <2>1. z \in 1 .. InnerN /\ InnerN \in Nat /\ i \in 1 .. z + 1
    BY <1>2 DEF InnerType
  <2> HIDE DEF z
  <2> QED BY <2>1 DEF Places
<1>5. ASSUME NEW j \in Places, NEW x
      PROVE  /\ ChildAt(Left(n), j, x) => j <= s /\ ChildAt(n, j, x)
             /\ ChildAt(Right(n), j, x) => j + s \in Places /\ ChildAt(n, j + s, x)
             /\ ChildAt(n, j, x) => ChildAt(Left(n), j, x)
                                    \/ (j - s \in Places /\ ChildAt(Right(n), j - s, x))
             /\ s \in Nat
  BY <1>2, HalvesKids
<1>6. ASSUME NEW j \in Places, NEW x
      PROVE  /\ ChildAt(node'[q], j, x) =>
                   \/ j <= i /\ ChildAt(node[q], j, x)
                   \/ j = i + 1 /\ x = F
                   \/ j > i + 1 /\ j - 1 \in Places /\ ChildAt(node[q], j - 1, x)
             /\ ChildAt(node'[q], i + 1, F) /\ i + 1 \in Places
             /\ ChildAt(node[q], j, x) =>
                  ChildAt(node'[q], j, x) \/ (j + 1 \in Places /\ ChildAt(node'[q], j + 1, x))
  BY <1>1, <1>2, <1>3, WithPivotKids DEF ChildSplit
<1>7. c # q
  <2>1. c \in Created /\ c # Root
    BY <1>2
  <2> SUFFICES ASSUME c = q PROVE FALSE
    OBVIOUS
  <2>2. node[q].size = InnerN
    BY <1>2 DEF Full, InnerType
  <2> QED BY <1>2, <2>2 DEF InnerType
<1> HIDE DEF s
<1> DEFINE From(p) == IF p = F THEN c ELSE p
           At0(p, j) == IF p = F THEN j + s ELSE IF p = q /\ j > i + 1 THEN j - 1 ELSE j
<1>8. ASSUME NEW p \in Created', NEW j \in Places, NEW x, ChildAt(node'[p], j, x)
      PROVE  \/ x = F /\ p = q /\ j = i + 1
             \/ /\ From(p) \in Created /\ At0(p, j) \in Places
                /\ ChildAt(node[From(p)], At0(p, j), x)
                /\ p = c => j <= s
                /\ p = q => j # i + 1
                /\ x \in Created \ {Root} /\ s \in Nat
  <2>1. CASE p = F
    <3>1. ChildAt(Right(n), j, x)
      BY <1>8, <2>1 DEF ChildSplit
    <3>2. j + s \in Places /\ ChildAt(node[c], j + s, x) /\ s \in Nat
      BY <1>5, <3>1
    <3> QED BY <1>1, <1>2, <2>1, <3>2, ChildCreated
  <2>2. CASE p = c
    <3>1. ChildAt(Left(n), j, x)
      BY <1>8, <2>2 DEF ChildSplit
    <3>2. j <= s /\ ChildAt(node[c], j, x) /\ s \in Nat /\ p # F /\ p # q
      BY <1>1, <1>2, <1>5, <1>7, <2>2, <3>1
    <3> QED BY <1>2, <2>2, <3>2, ChildCreated
  <2>3. CASE p = q
    <3>1. \/ j <= i /\ ChildAt(node[q], j, x)
          \/ j = i + 1 /\ x = F
          \/ j > i + 1 /\ j - 1 \in Places /\ ChildAt(node[q], j - 1, x)
      BY <1>6, <1>8, <2>3
    <3>2. p # F /\ p # c /\ s \in Nat /\ j \in Nat /\ i \in Nat
      BY <1>1, <1>4, <1>5, <1>7, <2>3 DEF Places
    <3>3. CASE j <= i /\ ChildAt(node[q], j, x)
      <4>1. j # i + 1 /\ ~(j > i + 1)
        BY <3>2, <3>3
      <4> QED BY <2>3, <3>2, <3>3, <4>1, ChildCreated
    <3>4. CASE j > i + 1 /\ j - 1 \in Places /\ ChildAt(node[q], j - 1, x)
      <4>1. j # i + 1
        BY <3>2, <3>4
      <4> QED BY <2>3, <3>2, <3>4, <4>1, ChildCreated
    <3> QED BY <2>3, <3>1, <3>3, <3>4
  <2>4. CASE p \in Created \ {c, q}
    <3>1. ChildAt(node[p], j, x) /\ p # F /\ s \in Nat
      BY <1>1, <1>5, <1>8, <2>4 DEF ChildSplit
    <3> QED BY <2>4, <3>1, ChildCreated
  <2> QED BY <2>1, <2>2, <2>3, <2>4 DEF ChildSplit
<1>9. ASSUME NEW p \in Created', NEW r \in Created', NEW j \in Places, NEW l \in Places,
             NEW x \in Created', ChildAt(node'[p], j, x), ChildAt(node'[r], l, x)
      PROVE  p = r /\ j = l
  <2>1. CASE x = F
    BY <1>1, <1>8, <1>9, <2>1
  <2>2. CASE x # F
    <3>1. /\ From(p) \in Created /\ At0(p, j) \in Places /\ ChildAt(node[From(p)], At0(p, j), x)
          /\ (p = c => j <= s) /\ (p = q => j # i + 1) /\ x \in Created /\ s \in Nat
      BY <1>8, <1>9, <2>2
    <3>2. /\ From(r) \in Created /\ At0(r, l) \in Places /\ ChildAt(node[From(r)], At0(r, l), x)
          /\ (r = c => l <= s) /\ (r = q => l # i + 1)
      BY <1>8, <1>9, <2>2
    <3> HIDE DEF From, At0
    <3>3. From(p) = From(r) /\ At0(p, j) = At0(r, l)
      BY <3>1, <3>2 DEF ParentsOK
    <3>4. p = r \/ (p = F /\ r = c) \/ (p = c /\ r = F)
      BY <3>3 DEF From
    <3>5. j \in Nat /\ l \in Nat /\ j >= 1 /\ l >= 1 /\ i \in Nat /\ F # c
      BY <1>1, <1>2 DEF Places
    <3>6. CASE p = F /\ r = c
      <4>1. At0(p, j) = j + s /\ At0(r, l) = l
        BY <1>7, <3>5, <3>6 DEF At0
      <4> QED BY <3>1, <3>2, <3>3, <3>5, <3>6, <4>1
    <3>7. CASE p = c /\ r = F
      <4>1. At0(r, l) = l + s /\ At0(p, j) = j
        BY <1>7, <3>5, <3>7 DEF At0
      <4> QED BY <3>1, <3>2, <3>3, <3>5, <3>7, <4>1
    <3>8. CASE p = r
      BY <3>1, <3>2, <3>3, <3>5, <3>8 DEF At0
    <3> QED BY <3>4, <3>6, <3>7, <3>8
  <2> QED BY <2>1, <2>2
<1>10. ASSUME NEW x \in Created' \ {Root}
       PROVE  \E p \in Created' : \E j \in Places : ChildAt(node'[p], j, x)
  <2>0. q \in Created' /\ c \in Created' /\ F \in Created' /\ Created \subseteq Created'
    BY <1>2 DEF ChildSplit
  <2>1. CASE x \notin Created
    <3>1. x = F
      BY <2>1 DEF ChildSplit
    <3> QED BY <1>4, <1>6, <2>0, <3>1
  <2>2. CASE x \in Created
    <3>1. PICK p \in Created : \E j \in Places : ChildAt(node[p], j, x)
      BY <2>2 DEF ParentsOK
    <3>2. PICK j \in Places : ChildAt(node[p], j, x)
      BY <3>1
    <3>3. CASE p = q
      BY <1>6, <2>0, <3>2, <3>3
    <3>4. CASE p = c
      <4>1. ChildAt(Left(n), j, x) \/ (j - s \in Places /\ ChildAt(Right(n), j - s, x))
        BY <1>5, <3>2, <3>4
      <4> QED BY <2>0, <4>1 DEF ChildSplit
    <3>5. CASE p \in Created \ {c, q}
      <4>1. ChildAt(node'[p], j, x)
        BY <3>2, <3>5 DEF ChildSplit
      <4> QED BY <2>0, <4>1
    <3> QED BY <3>3, <3>4, <3>5
  <2> QED BY <2>1, <2>2
<1> QED BY <1>9, <1>10 DEF ParentsOK

(* What differs only at page c is the same at the children of a node that   *)
(* c is not a child of, and at those of its halves.                         *)
SameBut(f, g, c) == \A x \in Created \ {Root} : x # c => f[x] = g[x]
NotOver(n, c) == \A i \in Places : ~ChildAt(n, i, c)

(* The halves of a node that is split, under the homes after it. *)
LEMMA HalvesIn ==
  ASSUME TreeInv, NEW c \in Created, Full(node[c]), NEW f, NEW g,
         SameBut(f, g, c), NotOver(node[c], c)
  PROVE  SameKids(Left(node[c]), f, g) /\ SameKids(Right(node[c]), f, g)
<1> DEFINE n == node[c]
<1>1. NodeOK(n, Created \ {Root})
  BY DEF TreeInv, PagesOK
<1>2. NodeOK(Left(n), Created \ {Root}) /\ NodeOK(Right(n), Created \ {Root})
  BY <1>1, Halves
<1>3. ASSUME NEW m, NodeOK(m, Created \ {Root}), ~m.leaf, NEW i \in 1 .. m.size + 1
      PROVE  m.children[i] \in Created \ {Root} /\ i \in Places /\ ChildAt(m, i, m.children[i])
  <2>1. m \in InnerType /\ ChildrenIn(m, Created \ {Root})
    BY <1>3 DEF NodeOK, LeafType
  <2>2. m.children[i] \in Created \ {Root}
    BY <1>3, <2>1 DEF ChildrenIn
  <2> DEFINE z == m.size
  <2>3. z \in 1 .. InnerN /\ InnerN \in Nat /\ i \in 1 .. z + 1
    BY <2>1, SizesAssumption DEF InnerType
  <2> HIDE DEF z
  <2>4. i \in Places
    BY <2>3 DEF Places
  <2> QED BY <1>3, <2>2, <2>4 DEF ChildAt
<1>4. ASSUME ~Left(n).leaf, NEW i \in 1 .. Left(n).size + 1
      PROVE  f[Left(n).children[i]] = g[Left(n).children[i]]
  <2> DEFINE x == Left(n).children[i]
  <2>1. x \in Created \ {Root} /\ i \in Places /\ ChildAt(Left(n), i, x)
    BY <1>2, <1>3, <1>4
  <2> HIDE DEF x
  <2>2. ChildAt(n, i, x)
    BY <1>1, <2>1, HalvesKids
  <2>3. x # c
    BY <2>1, <2>2 DEF NotOver
  <2>4. f[x] = g[x]
    BY <2>1, <2>3 DEF SameBut
  <2> QED BY <2>4 DEF x
<1>5. ASSUME ~Right(n).leaf, NEW i \in 1 .. Right(n).size + 1
      PROVE  f[Right(n).children[i]] = g[Right(n).children[i]]
  <2> DEFINE x == Right(n).children[i]
             j == i + SplitIndex(n)
  <2>1. x \in Created \ {Root} /\ i \in Places /\ ChildAt(Right(n), i, x)
    BY <1>2, <1>3, <1>5
  <2> HIDE DEF x
  <2>2. j \in Places /\ ChildAt(n, j, x)
    BY <1>1, <2>1, HalvesKids
  <2> HIDE DEF j
  <2>3. x # c
    BY <2>1, <2>2 DEF NotOver
  <2>4. f[x] = g[x]
    BY <2>1, <2>3 DEF SameBut
  <2> QED BY <2>4 DEF x
<1> QED BY <1>4, <1>5 DEF SameKids

(* The same for a page that stays. *)
LEMMA NodeIn ==
  ASSUME TreeInv, NEW p \in Created, NEW c, NEW f, NEW g,
         SameBut(f, g, c), NotOver(node[p], c)
  PROVE  SameKids(node[p], f, g)
<1> SUFFICES ASSUME ~node[p].leaf, NEW i \in 1 .. node[p].size + 1
             PROVE  f[node[p].children[i]] = g[node[p].children[i]]
  BY DEF SameKids
<1> DEFINE x == node[p].children[i]
           z == node[p].size
<1>1. ChildAt(node[p], i, x)
  BY DEF ChildAt
<1>2. x \in Created \ {Root} /\ node[p] \in InnerType
  BY <1>1, ChildCreated
<1>3. z \in 1 .. InnerN /\ InnerN \in Nat /\ i \in 1 .. z + 1
  BY <1>2, SizesAssumption DEF InnerType
<1> HIDE DEF z, x
<1>4. i \in Places
  BY <1>3 DEF Places
<1>5. x # c
  BY <1>1, <1>4 DEF NotOver
<1>6. f[x] = g[x]
  BY <1>2, <1>5 DEF SameBut
<1> QED BY <1>6 DEF x

(* The homes after a split: the half beyond the pivot is in page F. *)
RootHomes(home, pivot, F) ==
  [p \in Created \cup {F, F + 1} |->
     IF p = F THEN Beyond(Nat, pivot) ELSE IF p = F + 1 THEN Below(Nat, pivot) ELSE home[p]]
ChildHomes(home, c, pivot, F) ==
  [p \in Created \cup {F} |->
     IF p = F THEN Beyond(home[c], pivot) ELSE IF p = c THEN Below(home[c], pivot) ELSE home[p]]

(* The homes after a split are right: the root's case. *)
LEMMA RootSplitHomes ==
  ASSUME TreeInv, NEW n, n = node[Root], Full(n), NEW F, F = Fresh, RootSplit(n, F),
         NEW home, HomesOK(home), NEW new, new = RootHomes(home, Pivot(n), F)
  PROVE  HomesOK(new)'
<1>1. /\ F \in Nat /\ F \notin Created /\ F + 1 \notin Created /\ Root \in Created
      /\ F # Root /\ F + 1 # Root /\ F # F + 1
  BY FreshPage, RootCreated
<1>2. NodeOK(n, Created \ {Root})
  BY <1>1 DEF TreeInv, PagesOK
<1>3. Pivot(n) \in Nat
  BY <1>2, Halves
<1>4. /\ home \in [Created -> SUBSET Nat] /\ home[Root] = Nat
      /\ \A p \in Created : NodeOrdered(node[p], home[p], home)
  BY DEF HomesOK
<1>5. /\ new[F] = Beyond(Nat, Pivot(n)) /\ new[F + 1] = Below(Nat, Pivot(n))
      /\ \A p \in Created : new[p] = home[p]
      /\ Created' = Created \cup {F, F + 1} /\ new = [p \in Created' |-> new[p]]
  BY <1>1 DEF RootSplit, RootHomes
<1>6. new \in [Created' -> SUBSET Nat]
  <2>1. Beyond(Nat, Pivot(n)) \in SUBSET Nat /\ Below(Nat, Pivot(n)) \in SUBSET Nat
    BY DEF Beyond, Below
  <2>2. \A p \in Created' : new[p] \in SUBSET Nat
    BY <1>4, <1>5, <2>1
  <2> QED BY <1>5, <2>2
<1>7. \A p \in Created : NotOver(node[p], Root)
  BY ChildCreated DEF NotOver
<1>8. NodeOrdered(node'[Root], Nat, new)
  <2> DEFINE pivot == Pivot(n)
             left == F + 1
  <2>2. /\ left \in Nat /\ pivot \in Nat
        /\ new[left] = Below(Nat, pivot) /\ new[F] = Beyond(Nat, pivot)
    BY <1>1, <1>3, <1>5
  <2>3. node'[Root] = NewRoot(pivot, left, F)
    BY DEF RootSplit
  <2> HIDE DEF pivot, left
  <2>4. NodeOrdered(NewRoot(pivot, left, F), Nat, new)
    BY <1>1, <2>2, NewRootPlaces
  <2> QED BY <2>3, <2>4
<1>9. /\ NodeOrdered(Left(n), Below(Nat, Pivot(n)), home)
      /\ NodeOrdered(Right(n), Beyond(Nat, Pivot(n)), home)
  <2>1. NodeOrdered(n, Nat, home) /\ Nat \in SUBSET Nat
    BY <1>1, <1>4
  <2> QED BY <1>2, <2>1, HalvesOrdered
<1>10. /\ NodeOrdered(Left(n), Below(Nat, Pivot(n)), new)
       /\ NodeOrdered(Right(n), Beyond(Nat, Pivot(n)), new)
  <2>1. SameBut(new, home, Root)
    BY <1>5 DEF SameBut
  <2>2. SameKids(Left(n), new, home) /\ SameKids(Right(n), new, home)
    BY <1>1, <1>7, <2>1, HalvesIn
  <2> QED BY <1>9, <2>2, OrderedElsewhere
<1>11. ASSUME NEW p \in Created \ {Root}
       PROVE  NodeOrdered(node'[p], new[p], new)
  <2>1. SameBut(new, home, Root)
    BY <1>5 DEF SameBut
  <2>2. SameKids(node[p], new, home)
    BY <1>7, <2>1, NodeIn
  <2>3. NodeOrdered(node[p], home[p], new)
    BY <1>4, <2>2, OrderedElsewhere
  <2> QED BY <1>5, <2>3 DEF RootSplit
<1>12. \A p \in Created' : NodeOrdered(node'[p], new[p], new)
  BY <1>4, <1>5, <1>8, <1>10, <1>11, ZenonT(30) DEF RootSplit
<1> QED BY <1>1, <1>4, <1>5, <1>6, <1>12 DEF HomesOK

(* The case of a node with a parent. *)
LEMMA ChildSplitHomes ==
  ASSUME TreeInv, ParentsOK, NEW q \in Created, NEW i \in 1 .. node[q].size + 1, NEW c,
         ChildAt(node[q], i, c), node[q].size < InnerN,
         NEW n, n = node[c], Full(n), NEW F, F = Fresh, ChildSplit(n, c, q, i, F),
         NEW home, HomesOK(home), NEW new, new = ChildHomes(home, c, Pivot(n), F)
  PROVE  HomesOK(new)'
<1>1. /\ F \in Nat /\ F \notin Created /\ Root \in Created /\ F # Root
  BY FreshPage, RootCreated
<1>2. /\ c \in Created \ {Root} /\ node[q] \in InnerType /\ InnerN \in Nat
      /\ NodeOK(n, Created \ {Root})
  BY ChildCreated, SizesAssumption DEF TreeInv, PagesOK
<1>3. Pivot(n) \in Nat
  BY <1>2, Halves
<1>4. /\ home \in [Created -> SUBSET Nat] /\ home[Root] = Nat
      /\ \A p \in Created : NodeOrdered(node[p], home[p], home)
  BY DEF HomesOK
<1>5. /\ new[F] = Beyond(home[c], Pivot(n)) /\ new[c] = Below(home[c], Pivot(n))
      /\ \A p \in Created \ {c} : new[p] = home[p]
      /\ Created' = Created \cup {F} /\ new = [p \in Created' |-> new[p]]
  BY <1>1, <1>2 DEF ChildSplit, ChildHomes
<1>6. new \in [Created' -> SUBSET Nat]
  <2>1. Beyond(home[c], Pivot(n)) \in SUBSET Nat /\ Below(home[c], Pivot(n)) \in SUBSET Nat
    BY <1>2, <1>4 DEF Beyond, Below
  <2>2. \A p \in Created' : new[p] \in SUBSET Nat
    BY <1>4, <1>5, <2>1
  <2> QED BY <1>5, <2>2
<1>7. i \in Places
  <2> DEFINE z == node[q].size
  <2>1. z \in 1 .. InnerN /\ InnerN \in Nat /\ i \in 1 .. z + 1
    BY <1>2 DEF InnerType
  <2> HIDE DEF z
  <2> QED BY <2>1 DEF Places
<1>8. c # q
  <2> SUFFICES ASSUME c = q PROVE FALSE
    OBVIOUS
  <2>1. node[q].size = InnerN
    BY <1>2 DEF Full, InnerType
  <2> QED BY <1>2, <2>1 DEF InnerType
<1>9. \A p \in Created \ {q} : NotOver(node[p], c)
  BY <1>2, <1>7 DEF ParentsOK, NotOver
<1>10. /\ NodeOrdered(Left(n), Below(home[c], Pivot(n)), home)
       /\ NodeOrdered(Right(n), Beyond(home[c], Pivot(n)), home)
       /\ Pivot(n) \in home[c] /\ Beyond(home[c], Pivot(n)) # {}
  <2>1. NodeOrdered(n, home[c], home) /\ home[c] \in SUBSET Nat
    BY <1>2, <1>4
  <2> QED BY <1>2, <2>1, HalvesOrdered
<1>11. SameBut(new, home, c)
  BY <1>5 DEF SameBut
<1>12. /\ NodeOrdered(Left(n), Below(home[c], Pivot(n)), new)
       /\ NodeOrdered(Right(n), Beyond(home[c], Pivot(n)), new)
  <2>1. c \in Created /\ NotOver(node[c], c)
    BY <1>2, <1>8, <1>9
  <2>2. SameKids(Left(n), new, home) /\ SameKids(Right(n), new, home)
    BY <1>11, <2>1, HalvesIn
  <2> QED BY <1>10, <2>2, OrderedElsewhere
<1>13. ASSUME NEW p \in Created \ {c, q}
       PROVE  NodeOrdered(node'[p], new[p], new)
  <2>1. p \in Created /\ NotOver(node[p], c)
    BY <1>9
  <2>2. SameKids(node[p], new, home)
    BY <1>11, <2>1, NodeIn
  <2>3. NodeOrdered(node[p], home[p], new)
    BY <1>4, <2>2, OrderedElsewhere
  <2> QED BY <1>5, <2>3 DEF ChildSplit
<1>14. NodeOrdered(node'[q], new[q], new)
  <2> DEFINE m == node[q]
             pivot == Pivot(n)
  <2>1. NodeOrdered(m, home[q], home) /\ home[q] \in SUBSET Nat /\ m.leaf = FALSE
    BY <1>2, <1>4 DEF InnerType
  <2>2. SplitHome(home, new, c, c, F, pivot)
    BY <1>5 DEF SplitHome
  <2>3. m.children[i] = c
    BY DEF ChildAt
  <2>4. ASSUME NEW j \in 1 .. m.size + 1, j # i
        PROVE  new[m.children[j]] = home[m.children[j]]
    <3> DEFINE x == m.children[j]
               z == m.size
    <3>1. ChildAt(m, j, x)
      BY <2>1 DEF ChildAt
    <3>2. x \in Created \ {Root}
      BY <3>1, ChildCreated
    <3>3. z \in 1 .. InnerN /\ InnerN \in Nat /\ j \in 1 .. z + 1
      BY <1>2 DEF InnerType
    <3> HIDE DEF z, x
    <3>4. j \in Places
      BY <3>3 DEF Places
    <3>5. x # c
      BY <1>2, <1>7, <2>4, <3>1, <3>4 DEF ParentsOK
    <3>6. new[x] = home[x]
      BY <1>11, <3>2, <3>5 DEF SameBut
    <3> QED BY <3>6 DEF x
  <2>5. node'[q] = WithPivot(m, i, pivot, F) /\ new[q] = home[q]
    BY <1>5, <1>8 DEF ChildSplit
  <2>6. m \in InnerType /\ m.size < InnerN /\ i \in 1 .. m.size + 1
        /\ pivot \in home[c] /\ Beyond(home[c], pivot) # {}
    BY <1>2, <1>10
  <2> HIDE DEF m, pivot
  <2>7. NodeOrdered(WithPivot(m, i, pivot, F), home[q], new)
    BY <1>1, <2>1, <2>2, <2>3, <2>4, <2>6, WithPivotOrdered
  <2> QED BY <2>5, <2>7
<1>15. \A p \in Created' : NodeOrdered(node'[p], new[p], new)
  BY <1>5, <1>12, <1>13, <1>14 DEF ChildSplit
<1> QED BY <1>1, <1>2, <1>4, <1>5, <1>6, <1>15 DEF HomesOK

(* The heights after a split. *)
RootHeights(height, F) ==
  [p \in Created \cup {F, F + 1} |->
     IF p = Root THEN height[Root] + 1 ELSE IF p \in Created THEN height[p] ELSE height[Root]]
ChildHeights(height, c, F) ==
  [p \in Created \cup {F} |-> IF p = F THEN height[c] ELSE height[p]]

(* A split of the root puts the root one level up. *)
LEMMA RootSplitHeights ==
  ASSUME TreeInv, NEW n, n = node[Root], Full(n), NEW F, F = Fresh, RootSplit(n, F),
         NEW height, HeightsOK(height), NEW new, new = RootHeights(height, F)
  PROVE  HeightsOK(new)'
<1>1. /\ F \in Nat /\ F \notin Created /\ F + 1 \notin Created /\ Root \in Created
      /\ F # Root /\ F + 1 # Root /\ F # F + 1
  BY FreshPage, RootCreated
<1>2. NodeOK(n, Created \ {Root})
  BY <1>1 DEF TreeInv, PagesOK
<1>4. /\ height \in [Created -> Nat]
      /\ \A p \in Created : NodeLevel(node[p], height[p], height)
  BY DEF HeightsOK
<1>5. /\ new[F] = height[Root] /\ new[F + 1] = height[Root] /\ new[Root] = height[Root] + 1
      /\ \A p \in Created \ {Root} : new[p] = height[p]
      /\ Created' = Created \cup {F, F + 1} /\ new = [p \in Created' |-> new[p]]
  BY <1>1 DEF RootSplit, RootHeights
<1>6. new \in [Created' -> Nat]
  <2>1. height[Root] \in Nat /\ height[Root] + 1 \in Nat
    BY <1>1, <1>4
  <2>2. \A p \in Created' : new[p] \in Nat
    BY <1>4, <1>5, <2>1
  <2> QED BY <1>5, <2>2
<1>7. \A p \in Created : NotOver(node[p], Root)
  BY ChildCreated DEF NotOver
<1>8. NodeLevel(node'[Root], new[Root], new)
  <2> DEFINE pivot == Pivot(n)
             left == F + 1
             m == NewRoot(pivot, left, F)
  <2>1. InnerN \in Nat /\ 1 \in 1 .. InnerN + 1 /\ 2 \in 1 .. InnerN + 1
    BY SizesAssumption
  <2>2. m.leaf = FALSE /\ m.size = 1 /\ m.children[1] = left /\ m.children[2] = F
    BY <2>1 DEF NewRoot, Inner
  <2>3. node'[Root] = m /\ new[left] = height[Root]
    BY <1>5 DEF RootSplit
  <2> HIDE DEF m, left
  <2>4. \A i \in 1 .. m.size + 1 : i = 1 \/ i = 2
    BY <2>2
  <2>5. NodeLevel(m, new[Root], new)
    BY <1>5, <2>2, <2>3, <2>4 DEF NodeLevel
  <2> QED BY <2>3, <2>5
<1>9. SameBut(new, height, Root)
  BY <1>5 DEF SameBut
<1>10. /\ NodeLevel(Left(n), height[Root], new)
       /\ NodeLevel(Right(n), height[Root], new)
  <2>1. NodeLevel(n, height[Root], height)
    BY <1>1, <1>4
  <2>2. NodeLevel(Left(n), height[Root], height) /\ NodeLevel(Right(n), height[Root], height)
    BY <1>2, <2>1, HalvesLevel
  <2>3. SameKids(Left(n), new, height) /\ SameKids(Right(n), new, height)
    BY <1>1, <1>7, <1>9, HalvesIn
  <2> QED BY <2>2, <2>3, LevelElsewhere
<1>11. ASSUME NEW p \in Created \ {Root}
       PROVE  NodeLevel(node'[p], new[p], new)
  <2>1. p \in Created /\ NotOver(node[p], Root)
    BY <1>7
  <2>2. SameKids(node[p], new, height)
    BY <1>9, <2>1, NodeIn
  <2>3. NodeLevel(node[p], height[p], new)
    BY <1>4, <2>2, LevelElsewhere
  <2> QED BY <1>5, <2>3 DEF RootSplit
<1>12. \A p \in Created' : NodeLevel(node'[p], new[p], new)
  BY <1>4, <1>5, <1>8, <1>10, <1>11 DEF RootSplit
<1> QED BY <1>6, <1>12 DEF HeightsOK

(* The halves of another node are at its level. *)
LEMMA ChildSplitHeights ==
  ASSUME TreeInv, ParentsOK, NEW q \in Created, NEW i \in 1 .. node[q].size + 1, NEW c,
         ChildAt(node[q], i, c), node[q].size < InnerN,
         NEW n, n = node[c], Full(n), NEW F, F = Fresh, ChildSplit(n, c, q, i, F),
         NEW height, HeightsOK(height), NEW new, new = ChildHeights(height, c, F)
  PROVE  HeightsOK(new)'
<1>1. /\ F \in Nat /\ F \notin Created /\ Root \in Created /\ F # Root
  BY FreshPage, RootCreated
<1>2. /\ c \in Created \ {Root} /\ node[q] \in InnerType /\ InnerN \in Nat
      /\ NodeOK(n, Created \ {Root}) /\ \A p \in Created : NodeOK(node[p], Created \ {Root})
  BY ChildCreated, SizesAssumption DEF TreeInv, PagesOK
<1>3. Pivot(n) \in Nat
  BY <1>2, Halves
<1>4. /\ height \in [Created -> Nat]
      /\ \A p \in Created : NodeLevel(node[p], height[p], height)
  BY DEF HeightsOK
<1>5. /\ new[F] = height[c] /\ \A p \in Created : new[p] = height[p]
      /\ Created' = Created \cup {F} /\ new = [p \in Created' |-> new[p]]
  BY <1>1, <1>2 DEF ChildSplit, ChildHeights
<1>6. new \in [Created' -> Nat]
  <2>2. \A p \in Created' : new[p] \in Nat
    BY <1>2, <1>4, <1>5
  <2> QED BY <1>5, <2>2
<1>8. c # q
  <2> SUFFICES ASSUME c = q PROVE FALSE
    OBVIOUS
  <2>1. node[q].size = InnerN
    BY <1>2 DEF Full, InnerType
  <2> QED BY <1>2, <2>1 DEF InnerType
<1>9. ASSUME NEW m, NodeOK(m, Created \ {Root})
      PROVE  SameKids(m, new, height)
  <2> SUFFICES ASSUME ~m.leaf, NEW j \in 1 .. m.size + 1
               PROVE  new[m.children[j]] = height[m.children[j]]
    BY DEF SameKids
  <2>1. m \in InnerType /\ ChildrenIn(m, Created \ {Root})
    BY <1>9 DEF NodeOK, LeafType
  <2>2. m.children[j] \in Created
    BY <2>1 DEF ChildrenIn
  <2> QED BY <1>5, <2>2
<1>10. /\ NodeLevel(Left(n), height[c], new)
       /\ NodeLevel(Right(n), height[c], new)
  <2>1. NodeLevel(n, height[c], height)
    BY <1>2, <1>4
  <2>2. NodeLevel(Left(n), height[c], height) /\ NodeLevel(Right(n), height[c], height)
    BY <1>2, <2>1, HalvesLevel
  <2>3. NodeOK(Left(n), Created \ {Root}) /\ NodeOK(Right(n), Created \ {Root})
    BY <1>2, Halves
  <2> QED BY <1>9, <2>2, <2>3, LevelElsewhere
<1>11. ASSUME NEW p \in Created
       PROVE  NodeLevel(node[p], new[p], new)
  <2>1. NodeOK(node[p], Created \ {Root}) /\ NodeLevel(node[p], height[p], height)
    BY <1>2, <1>4
  <2>2. SameKids(node[p], new, height)
    BY <1>9, <2>1
  <2>3. NodeLevel(node[p], height[p], new)
    BY <2>1, <2>2, LevelElsewhere
  <2> QED BY <1>5, <2>3
<1>12. NodeLevel(node'[q], new[q], new)
  <2> DEFINE m == node[q]
             pivot == Pivot(n)
  <2>1. NodeLevel(m, height[q], height)
    BY <1>4
  <2>2. m.children[i] = c /\ m.leaf = FALSE
    BY <1>2 DEF ChildAt, InnerType
  <2>3. node'[q] = WithPivot(m, i, pivot, F) /\ new[q] = height[q]
    BY <1>5, <1>8 DEF ChildSplit
  <2>4. /\ m \in InnerType /\ m.size < InnerN /\ i \in 1 .. m.size + 1 /\ pivot \in Nat
        /\ new[F] = height[m.children[i]]
    BY <1>2, <1>3, <1>5, <2>2
  <2>5. \A j \in 1 .. m.size + 1 : new[m.children[j]] = height[m.children[j]]
    BY <1>2, <1>9, <2>2 DEF SameKids
  <2> HIDE DEF m, pivot
  <2>7. NodeLevel(WithPivot(m, i, pivot, F), height[q], new)
    BY <1>1, <2>1, <2>4, <2>5, WithPivotLevel
  <2> QED BY <2>3, <2>7
<1>13. \A p \in Created' : NodeLevel(node'[p], new[p], new)
  BY <1>2, <1>5, <1>10, <1>11, <1>12 DEF ChildSplit
<1> QED BY <1>6, <1>13 DEF HeightsOK

(***************************************************************************)
(* What a step does to where the threads are.                              *)
(***************************************************************************)
OthersGo(t) ==
  \A u \in Threads \ {t} :
    pc'[u] = pc[u] /\ call'[u] = call[u] /\ current'[u] = current[u] /\ parent'[u] = parent[u]

(* Homes in which every thread is where its key belongs. *)
HomesAndPlaces(home) ==
  /\ home \in [Created -> SUBSET Nat] /\ HomesOK(home) /\ \A t \in Threads : PlaceOK(t, home)

LEMMA HomeExists ==
  ASSUME SearchInv
  PROVE  /\ ParentsOK /\ \A t \in Threads : LinkOK(t)
         /\ \E home : HomesAndPlaces(home)
BY DEF SearchInv, OrderOK, HomesAndPlaces

(* The others stay where their keys belong: the pages they look at and      *)
(* those above them are not changed.                                        *)
LEMMA OthersPlaced ==
  ASSUME TreeInv, NEW t \in Threads, OthersGo(t), NEW u \in Threads \ {t}, LinkOK(u),
         \A p \in Created : access[t][p] # "write" => node'[p] = node[p],
         NEW home, PlaceOK(u, home), NEW new,
         \A p \in Created : access[t][p] # "write" => new[p] = home[p]
  PROVE  PlaceOK(u, new)' /\ LinkOK(u)'
<1>1. u \in Threads /\ LocksOK /\ CurrentOK(u) /\ ParentOK(u) /\ Created \subseteq Pages
  BY RootCreated DEF TreeInv, ThreadOK
<1>2. /\ pc'[u] = pc[u] /\ call'[u] = call[u] /\ current'[u] = current[u] /\ parent'[u] = parent[u]
  BY DEF OthersGo
<1>3. \A p \in Created : access[u][p] # "none" => access[t][p] # "write"
  BY <1>1 DEF LocksOK
<1>4. PlaceOK(u, new)'
  <2> SUFFICES ASSUME pc[u] \in InNode PROVE Key(u) \in new[current[u]]
    BY <1>2 DEF PlaceOK, Key
  <2>1. current[u] \in Created /\ access[u][current[u]] # "none"
    BY <1>1 DEF CurrentOK, InNode
  <2>2. new[current[u]] = home[current[u]]
    BY <1>3, <2>1
  <2> QED BY <2>2 DEF PlaceOK
<1>5. LinkOK(u)'
  <2> SUFFICES ASSUME parent[u] # None PROVE current[u] = ChildOf(node'[parent[u]], Key(u))
    BY <1>2 DEF LinkOK, Key
  <2>1. parent[u] \in Created /\ access[u][parent[u]] = "write"
    BY <1>1 DEF ParentOK
  <2>2. node'[parent[u]] = node[parent[u]]
    BY <1>3, <2>1
  <2> QED BY <2>2 DEF LinkOK
<1> QED BY <1>4, <1>5

(* The parts of a step put together. *)
LEMMA SearchStep ==
  ASSUME TreeInv, SearchInv, NEW t \in Threads, OthersGo(t),
         \A p \in Created : access[t][p] # "write" => node'[p] = node[p],
         ParentsOK', LevelsOK', NEW home, HomesAndPlaces(home),
         NEW new, HomesOK(new)',
         \A p \in Created : access[t][p] # "write" => new[p] = home[p],
         PlaceOK(t, new)', LinkOK(t)'
  PROVE  SearchInv'
<1>1. \A u \in Threads : PlaceOK(u, home) /\ LinkOK(u)
  BY DEF HomesAndPlaces, SearchInv
<1>2. ASSUME NEW u \in Threads \ {t} PROVE PlaceOK(u, new)' /\ LinkOK(u)'
  BY <1>1, OthersPlaced
<1>3. \A u \in Threads : PlaceOK(u, new)' /\ LinkOK(u)'
  BY <1>2
<1>4. OrderOK'
  <2>1. new \in [Created' -> SUBSET Nat]
    BY DEF HomesOK
  <2> QED BY <1>3, <2>1 DEF OrderOK
<1> QED BY <1>3, <1>4 DEF SearchInv

(* Steps that change no node. *)
LEMMA QuietSearch ==
  ASSUME TreeInv, SearchInv, NEW t \in Threads, OthersGo(t), node' = node,
         ASSUME NEW home, HomesAndPlaces(home) PROVE PlaceOK(t, home)',
         LinkOK(t)'
  PROVE  SearchInv'
<1>1. Created' = Created
  BY DEF Created
<1>2. PICK home : HomesAndPlaces(home)
  BY HomeExists
<1>3. ParentsOK' /\ LevelsOK'
  BY <1>1 DEF SearchInv, ParentsOK, LevelsOK, HeightsOK
<1>4. HomesOK(home)'
  BY <1>1, <1>2 DEF HomesAndPlaces, HomesOK
<1>5. PlaceOK(t, home)'
  BY <1>2
<1> QED BY <1>2, <1>3, <1>4, <1>5, SearchStep

(* Between and before its descents a thread is nowhere. *)
LEMMA OutsideSearch ==
  ASSUME TreeInv, SearchInv, NEW t \in Threads, OthersGo(t), node' = node,
         pc'[t] \notin InNode, parent'[t] = None
  PROVE  SearchInv'
<1>1. ASSUME NEW home PROVE PlaceOK(t, home)'
  BY DEF PlaceOK
<1>2. LinkOK(t)'
  BY DEF LinkOK
<1> QED BY <1>1, <1>2, QuietSearch

(* A thread at the root holds nothing above it. *)
LEMMA NoParent ==
  ASSUME TreeInv, NEW t \in Threads,
         pc[t] \in {"client", "header", "root"} \/ current[t] = Root \/ ~exclusiveMode[t]
  PROVE  parent[t] = None
BY DEF TreeInv, ThreadOK, ParentOK

(* The steps of a descent, one by one. *)
LEMMA BeginSearch ==
  ASSUME TreeInv, SearchInv, NEW t \in Threads, NEW c, Begin(t, c)
  PROVE  SearchInv'
<1>0. LocalTypes /\ pc[t] = "client"
  BY DEF TreeInv, Begin, At
<1>1. OthersGo(t) /\ node' = node
  BY <1>0 DEF OthersGo, Begin, Go, LocalTypes, tree
<1>2. pc'[t] \notin InNode /\ parent'[t] = None
  BY <1>0, NoParent DEF Begin, Go, LocalTypes, InNode
<1> QED BY <1>1, <1>2, OutsideSearch

LEMMA ReadHeaderSearch ==
  ASSUME TreeInv, SearchInv, NEW t \in Threads, ReadHeader(t)
  PROVE  SearchInv'
<1>0. LocalTypes /\ pc[t] = "header"
  BY DEF TreeInv, ReadHeader, At
<1>1. OthersGo(t) /\ node' = node
  BY <1>0 DEF OthersGo, ReadHeader, Go, LocalTypes, tree, client
<1>2. pc'[t] \notin InNode /\ parent'[t] = None
  BY <1>0, NoParent DEF ReadHeader, Go, LocalTypes, InNode
<1> QED BY <1>1, <1>2, OutsideSearch

LEMMA RepinRootSearch ==
  ASSUME TreeInv, SearchInv, NEW t \in Threads, RepinRoot(t)
  PROVE  SearchInv'
<1>0. LocalTypes /\ current[t] = Root
  BY DEF TreeInv, RepinRoot
<1>1. OthersGo(t) /\ node' = node
  BY <1>0 DEF OthersGo, RepinRoot, Go, LocalTypes, tree, client
<1>2. pc'[t] \notin InNode /\ parent'[t] = None
  BY <1>0, NoParent DEF RepinRoot, Go, LocalTypes, InNode
<1> QED BY <1>1, <1>2, OutsideSearch

LEMMA RetryExclusiveSearch ==
  ASSUME TreeInv, SearchInv, NEW t \in Threads, RetryExclusive(t)
  PROVE  SearchInv'
<1>0. LocalTypes /\ ~exclusiveMode[t]
  BY DEF TreeInv, RetryExclusive
<1>1. OthersGo(t) /\ node' = node
  BY <1>0 DEF OthersGo, RetryExclusive, Go, LocalTypes, tree, client
<1>2. pc'[t] \notin InNode /\ parent'[t] = None
  BY <1>0, NoParent DEF RetryExclusive, Go, LocalTypes, InNode
<1> QED BY <1>1, <1>2, OutsideSearch

(* An answer leaves the other threads alone. *)
LEMMA AnswerGo ==
  ASSUME TreeInv, NEW t \in Threads, NEW r, Answer(t, r)
  PROVE  OthersGo(t) /\ pc'[t] \notin InNode /\ parent'[t] = None
<1>0. LocalTypes
  BY DEF TreeInv
<1> QED BY <1>0 DEF OthersGo, Answer, Go, LocalTypes, InNode

LEMMA FindLeafSearch ==
  ASSUME TreeInv, SearchInv, NEW t \in Threads, FindLeaf(t)
  PROVE  SearchInv'
<1>1. node' = node /\ Answer(t, ValueIn(Here(t), Key(t)))
  BY DEF FindLeaf, tree
<1> QED BY <1>1, AnswerGo, OutsideSearch

(* The root is where every key belongs. *)
LEMMA PinRootSearch ==
  ASSUME TreeInv, SearchInv, NEW t \in Threads, PinRoot(t)
  PROVE  SearchInv'
<1>0. LocalTypes /\ pc[t] = "root" /\ parent[t] = None /\ Key(t) \in Nat
  BY InCall, NoParent DEF TreeInv, PinRoot, At
<1>1. OthersGo(t) /\ node' = node
  BY <1>0 DEF OthersGo, PinRoot, Go, LocalTypes, tree, client
<1>2. current'[t] = Root /\ parent'[t] = None /\ call' = call
  BY <1>0 DEF PinRoot, LocalTypes, client
<1>3. ASSUME NEW home, HomesAndPlaces(home) PROVE PlaceOK(t, home)'
  BY <1>0, <1>2, <1>3 DEF PlaceOK, HomesAndPlaces, HomesOK, Key
<1>4. LinkOK(t)'
  BY <1>2 DEF LinkOK
<1> QED BY <1>1, <1>3, <1>4, QuietSearch

(* A thread that stays keeps its place. *)
LEMMA StaySearch ==
  ASSUME TreeInv, SearchInv, NEW t \in Threads, OthersGo(t), node' = node, call' = call,
         pc[t] \in InNode, current'[t] = current[t], parent'[t] = None
  PROVE  SearchInv'
<1>1. ASSUME NEW home, HomesAndPlaces(home) PROVE PlaceOK(t, home)'
  BY <1>1 DEF PlaceOK, HomesAndPlaces, Key
<1>2. LinkOK(t)'
  BY DEF LinkOK
<1> QED BY <1>1, <1>2, QuietSearch

LEMMA PassesSearch ==
  ASSUME TreeInv, SearchInv, NEW t \in Threads, Passes(t)
  PROVE  SearchInv'
<1>0. LocalTypes /\ pc[t] \in InNode
  BY DEF TreeInv, Passes, At, InNode
<1>1. OthersGo(t) /\ node' = node /\ call' = call
  BY <1>0 DEF OthersGo, Passes, Go, LocalTypes, tree, client
<1>2. current'[t] = current[t] /\ parent'[t] = None
  BY <1>0 DEF Passes, LocalTypes
<1> QED BY <1>0, <1>1, <1>2, StaySearch

LEMMA KeepLeafSearch ==
  ASSUME TreeInv, SearchInv, NEW t \in Threads, KeepLeaf(t)
  PROVE  SearchInv'
<1>0. LocalTypes /\ pc[t] \in InNode
  BY DEF TreeInv, KeepLeaf, AtLeaf, At, InNode
<1>1. OthersGo(t) /\ node' = node /\ call' = call
  BY <1>0 DEF OthersGo, KeepLeaf, Go, LocalTypes, tree, client
<1>2. current'[t] = current[t] /\ parent'[t] = None
  BY <1>0 DEF KeepLeaf, LocalTypes
<1> QED BY <1>0, <1>1, <1>2, StaySearch

(* The home of a child is that of the keys handed on to it. *)
LEMMA HomeOfChild ==
  ASSUME TreeInv, NEW home, HomesOK(home), NEW p \in Created, ~node[p].leaf,
         NEW k \in home[p]
  PROVE  /\ k \in home[ChildOf(node[p], k)]
         /\ node[p] \in InnerType /\ k \in Nat
         /\ ChildIndex(node[p], k) \in 1 .. node[p].size + 1
<1> DEFINE n == node[p]
           i == ChildIndex(n, k)
<1>1. n \in InnerType
  BY DEF TreeInv, PagesOK, NodeOK, LeafType
<1>2. NodeOrdered(n, home[p], home) /\ home[p] \in SUBSET Nat /\ n.leaf = FALSE
  BY <1>1 DEF HomesOK, InnerType
<1> HIDE DEF n
<1>3. k \in Nat /\ Strict(n.pivots, n.size)
  BY <1>2 DEF NodeOrdered
<1>4. i \in 1 .. n.size + 1
  BY <1>1, <1>3, IndexOfChild
<1> HIDE DEF i
<1>5. home[n.children[i]] = {l \in home[p] : ChildIndex(n, l) = i}
  BY <1>2, <1>4 DEF NodeOrdered
<1>6. k \in home[n.children[i]]
  BY <1>5 DEF i
<1> QED BY <1>1, <1>3, <1>4, <1>6 DEF n, i, ChildOf

LEMMA PinChildSearch ==
  ASSUME TreeInv, SearchInv, NEW t \in Threads, PinChild(t)
  PROVE  SearchInv'
<1> DEFINE q == current[t]
           r == ChildOf(node[q], Key(t))
<1>0. LocalTypes /\ pc[t] = "descend" /\ q \in Created /\ ~node[q].leaf /\ parent[t] = None
  BY InCall DEF TreeInv, PinChild, At, CurrentOK, ParentOK
<1>1. OthersGo(t) /\ node' = node /\ call' = call
  BY <1>0 DEF OthersGo, PinChild, Go, LocalTypes, tree, client
<1>2. current'[t] = r /\ parent'[t] \in {q, None}
  BY <1>0 DEF PinChild, LocalTypes, Here
<1> HIDE DEF r, q
<1>3. ASSUME NEW home, HomesAndPlaces(home) PROVE PlaceOK(t, home)'
  <2>1. Key(t) \in home[q] /\ HomesOK(home)
    BY <1>0, <1>3 DEF HomesAndPlaces, PlaceOK, InNode, q
  <2>2. Key(t) \in home[r]
    BY <1>0, <2>1, HomeOfChild DEF r
  <2> QED BY <1>1, <1>2, <2>2 DEF PlaceOK, Key
<1>4. LinkOK(t)'
  BY <1>1, <1>2 DEF LinkOK, Key, r
<1> QED BY <1>1, <1>3, <1>4, QuietSearch

(* Steps that change nothing a search looks at. *)
LEMMA RestSearch ==
  ASSUME SearchInv, UNCHANGED <<node, access, client, locals>>
  PROVE  SearchInv'
<1>1. /\ node' = node /\ Created' = Created /\ call' = call /\ pc' = pc
      /\ current' = current /\ parent' = parent
  BY DEF client, locals, Created
<1>2. ParentsOK' /\ LevelsOK'
  BY <1>1 DEF SearchInv, ParentsOK, LevelsOK, HeightsOK
<1>3. OrderOK'
  BY <1>1 DEF SearchInv, OrderOK, HomesOK, PlaceOK, Key
<1>4. \A t \in Threads : LinkOK(t)'
  BY <1>1 DEF SearchInv, LinkOK, Key
<1> QED BY <1>2, <1>3, <1>4 DEF SearchInv

(***************************************************************************)
(* Steps that change a leaf: it stays in order, and its keys where they    *)
(* belong.                                                                 *)
(***************************************************************************)
LEMMA LeafSearch ==
  ASSUME TreeInv, SearchInv, NEW t \in Threads, pc[t] \in {"leaf", "write"},
         access[t][current[t]] = "write", NEW m \in LeafType,
         Strict(m.keys, m.size), Created' = Created,
         \A i \in 1 .. m.size :
           \/ m.keys[i] = Key(t)
           \/ \E j \in 1 .. node[current[t]].size : m.keys[i] = node[current[t]].keys[j],
         \A p \in Created : node'[p] = IF p = current[t] THEN m ELSE node[p],
         NEW r, Answer(t, r)
  PROVE  SearchInv'
<1> DEFINE q == current[t]
<1>1. OthersGo(t) /\ pc'[t] \notin InNode /\ parent'[t] = None
  BY AnswerGo
<1>2. /\ q \in Created /\ node[q].leaf = TRUE /\ m.leaf = TRUE
  BY AtLeafFacts DEF LeafType
<1> HIDE DEF q
<1>3. /\ Created' = Created /\ node'[q] = m
      /\ \A p \in Created : p # q => node'[p] = node[p]
  BY <1>2 DEF q
<1>4. \A p \in Created : \A i, c : ChildAt(node'[p], i, c) <=> ChildAt(node[p], i, c)
  <2>1. \A i, c : ~ChildAt(node[q], i, c) /\ ~ChildAt(node'[q], i, c)
    BY <1>2, <1>3 DEF ChildAt
  <2> QED BY <1>3, <2>1
<1>5. ParentsOK'
  <2>1. ParentsOK
    BY DEF SearchInv
  <2>2. ASSUME NEW p \in Created, NEW o \in Created, NEW i \in Places, NEW j \in Places,
               NEW c \in Created, ChildAt(node'[p], i, c), ChildAt(node'[o], j, c)
        PROVE  p = o /\ i = j
    <3>1. ChildAt(node[p], i, c) /\ ChildAt(node[o], j, c)
      BY <1>4, <2>2
    <3> QED BY <2>1, <3>1 DEF ParentsOK
  <2>3. ASSUME NEW c \in Created \ {Root}
        PROVE  \E p \in Created : \E i \in Places : ChildAt(node'[p], i, c)
    <3>1. \E p \in Created : \E i \in Places : ChildAt(node[p], i, c)
      BY <2>1 DEF ParentsOK
    <3> QED BY <1>4, <3>1
  <2> QED BY <1>3, <2>2, <2>3 DEF ParentsOK
<1>6. LevelsOK'
  <2>1. PICK height \in [Created -> Nat] : HeightsOK(height)
    BY DEF SearchInv, LevelsOK
  <2>2. \A p \in Created : NodeLevel(node[p], height[p], height)
    BY <2>1 DEF HeightsOK
  <2>3. NodeLevel(node'[q], height[q], height)
    BY <1>2, <1>3, <2>2 DEF NodeLevel
  <2>4. \A p \in Created : NodeLevel(node'[p], height[p], height)
    BY <1>3, <2>2, <2>3
  <2>5. HeightsOK(height)'
    BY <1>3, <2>1, <2>4 DEF HeightsOK
  <2> QED BY <1>3, <2>1, <2>5 DEF LevelsOK
<1>7. PICK home : HomesAndPlaces(home)
  BY HomeExists
<1>8. HomesOK(home)'
  <2>1. /\ home \in [Created -> SUBSET Nat] /\ home[Root] = Nat
        /\ \A p \in Created : NodeOrdered(node[p], home[p], home)
    BY <1>7 DEF HomesAndPlaces, HomesOK
  <2>2. Key(t) \in home[q]
    BY <1>7 DEF HomesAndPlaces, PlaceOK, InNode, q
  <2>3. \A j \in 1 .. node[q].size : node[q].keys[j] \in home[q]
    BY <1>2, <2>1 DEF NodeOrdered
  <2>4. \A i \in 1 .. m.size : m.keys[i] \in home[q]
    BY <2>2, <2>3 DEF q
  <2>5. NodeOrdered(m, home[q], home)
    BY <1>2, <2>4 DEF NodeOrdered
  <2>6. \A p \in Created : NodeOrdered(node'[p], home[p], home)
    BY <1>3, <2>1, <2>5
  <2> QED BY <1>3, <2>1, <2>6 DEF HomesOK
<1>9. PlaceOK(t, home)' /\ LinkOK(t)'
  BY <1>1 DEF PlaceOK, LinkOK
<1>10. \A p \in Created : access[t][p] # "write" => node'[p] = node[p]
  BY <1>3 DEF q
<1> QED BY <1>1, <1>5, <1>6, <1>7, <1>8, <1>9, <1>10, SearchStep

(* A leaf stays in order when its key is taken out or a new one put in. *)
LEMMA StrictErase ==
  ASSUME NEW N \in Nat, NEW a, IsArray(a, N), NEW n \in 0 .. N, NEW b \in 1 .. n, Strict(a, n)
  PROVE  /\ Strict(EraseAt(a, n, b), n - 1)
         /\ \A i \in 1 .. n - 1 : \E j \in 1 .. n : EraseAt(a, n, b)[i] = a[j]
<1>1. \A i \in 1 .. n - 1 :
        /\ i \in 1 .. n /\ i + 1 \in 1 .. n
        /\ EraseAt(a, n, b)[i] = IF b <= i THEN a[i + 1] ELSE a[i]
  <2>1. \A i \in 1 .. n - 1 : i \in 1 .. N /\ i < n
    OBVIOUS
  <2>2. DOMAIN a = 1 .. N
    BY DEF IsArray
  <2> QED BY <2>1, <2>2 DEF EraseAt
<1>2. Strict(EraseAt(a, n, b), n - 1)
  <2> SUFFICES ASSUME NEW i \in 1 .. n - 1, NEW j \in 1 .. n - 1, i < j
               PROVE  EraseAt(a, n, b)[i] < EraseAt(a, n, b)[j]
    BY DEF Strict
  <2> DEFINE x == IF b <= i THEN i + 1 ELSE i
             y == IF b <= j THEN j + 1 ELSE j
  <2>1. x \in 1 .. n /\ y \in 1 .. n /\ x < y
    OBVIOUS
  <2>2. EraseAt(a, n, b)[i] = a[x] /\ EraseAt(a, n, b)[j] = a[y]
    BY <1>1
  <2> HIDE DEF x, y
  <2> QED BY <2>1, <2>2 DEF Strict
<1>3. \A i \in 1 .. n - 1 : \E j \in 1 .. n : EraseAt(a, n, b)[i] = a[j]
  BY <1>1
<1> QED BY <1>2, <1>3

LEMMA StrictInsert ==
  ASSUME NEW N \in Nat, NEW a, IsArray(a, N), NEW n \in 0 .. N - 1, NEW k \in Nat,
         Strict(a, n), ~Contains(a, n, k)
  PROVE  /\ Strict(InsertAt(a, n, LowerBound(a, n, k), k), n + 1)
         /\ \A i \in 1 .. n + 1 :
              \/ InsertAt(a, n, LowerBound(a, n, k), k)[i] = k
              \/ \E j \in 1 .. n : InsertAt(a, n, LowerBound(a, n, k), k)[i] = a[j]
<1> DEFINE b == LowerBound(a, n, k)
           d == InsertAt(a, n, b, k)
<1>0. n \in 0 .. N /\ \A i \in 1 .. n : a[i] \in Nat
  BY DEF IsArray
<1>1. Sorted(a, n)
  BY <1>0, StrictSorted
<1>2. b \in 1 .. n + 1 /\ \A i \in 1 .. n : i < b <=> a[i] < k
  BY <1>0, <1>1, LowerBoundBounds, LowerBoundSorted
<1>3. \A i \in 1 .. n + 1 : d[i] = IF i < b THEN a[i] ELSE IF i = b THEN k ELSE a[i - 1]
  <2> HIDE DEF b
  <2> QED BY <1>2, InsertAtType
<1>4. b \in 1 .. n => a[b] # k
  <2>1. b \in 1 .. n => b \in DOMAIN a /\ b <= n
    BY DEF IsArray
  <2> QED BY <2>1 DEF Contains
<1> HIDE DEF b, d
<1>5. \A i \in 1 .. n : i >= b => k < a[i]
  <2> SUFFICES ASSUME NEW i \in 1 .. n, i >= b PROVE k < a[i]
    OBVIOUS
  <2>1. b \in 1 .. n /\ ~(a[b] < k) /\ a[b] \in Nat
    BY <1>0, <1>2
  <2>2. k < a[b]
    BY <1>4, <2>1
  <2>3. a[b] <= a[i]
    BY <1>1, <2>1 DEF Sorted
  <2> QED BY <1>0, <2>1, <2>2, <2>3
<1>6. Strict(d, n + 1)
  <2> SUFFICES ASSUME NEW i \in 1 .. n + 1, NEW j \in 1 .. n + 1, i < j
               PROVE  d[i] < d[j]
    BY DEF Strict
  <2>1. CASE j < b
    <3>1. i \in 1 .. n /\ j \in 1 .. n /\ i < b
      BY <1>2, <2>1
    <3> QED BY <1>3, <2>1, <3>1 DEF Strict
  <2>2. CASE j = b
    <3>1. i \in 1 .. n /\ i < b
      BY <1>2, <2>2
    <3> QED BY <1>2, <1>3, <2>2, <3>1
  <2>3. CASE j > b
    <3>1. j - 1 \in 1 .. n /\ d[j] = a[j - 1] /\ j - 1 >= b
      BY <1>2, <1>3, <2>3
    <3>2. CASE i < b
      <4>1. i \in 1 .. n /\ d[i] = a[i] /\ i < j - 1
        BY <1>2, <1>3, <2>3, <3>2
      <4> QED BY <3>1, <4>1 DEF Strict
    <3>3. CASE i = b
      BY <1>3, <1>5, <3>1, <3>3
    <3>4. CASE i > b
      <4>1. i - 1 \in 1 .. n /\ d[i] = a[i - 1] /\ i - 1 < j - 1
        BY <1>2, <1>3, <3>4
      <4> QED BY <3>1, <4>1 DEF Strict
    <3> QED BY <1>2, <3>2, <3>3, <3>4
  <2> QED BY <1>2, <2>1, <2>2, <2>3
<1>7. \A i \in 1 .. n + 1 : d[i] = k \/ \E j \in 1 .. n : d[i] = a[j]
  <2> SUFFICES ASSUME NEW i \in 1 .. n + 1 PROVE d[i] = k \/ \E j \in 1 .. n : d[i] = a[j]
    OBVIOUS
  <2>1. CASE i < b
    BY <1>2, <1>3, <2>1
  <2>2. CASE i = b
    BY <1>3, <2>2
  <2>3. CASE i > b
    <3>1. i - 1 \in 1 .. n /\ d[i] = a[i - 1]
      BY <1>2, <1>3, <2>3
    <3> QED BY <3>1
  <2> QED BY <1>2, <2>1, <2>2, <2>3
<1> QED BY <1>6, <1>7 DEF d, b

(* The invariant keeps leaves in order. *)
LEMMA StrictLeaf ==
  ASSUME TreeInv, SearchInv, NEW p \in Created, node[p] \in LeafType
  PROVE  Strict(node[p].keys, node[p].size)
<1>1. PICK home : HomesAndPlaces(home)
  BY HomeExists
<1>2. NodeOrdered(node[p], home[p], home) /\ node[p].leaf = TRUE
  BY <1>1 DEF HomesAndPlaces, HomesOK, LeafType
<1> QED BY <1>2 DEF NodeOrdered

(* A step that keeps the keys. *)
LEMMA SameKeysSearch ==
  ASSUME TreeInv, SearchInv, NEW t \in Threads, pc[t] \in {"leaf", "write"},
         access[t][current[t]] = "write", NEW m \in LeafType,
         m.keys = node[current[t]].keys, m.size = node[current[t]].size, Created' = Created,
         \A p \in Created : node'[p] = IF p = current[t] THEN m ELSE node[p],
         NEW r, Answer(t, r)
  PROVE  SearchInv'
<1>1. current[t] \in Created /\ node[current[t]] \in LeafType
  BY AtLeafFacts
<1>2. Strict(m.keys, m.size)
  BY <1>1, StrictLeaf
<1>3. \A i \in 1 .. m.size : \E j \in 1 .. node[current[t]].size :
        m.keys[i] = node[current[t]].keys[j]
  OBVIOUS
<1> QED BY <1>2, <1>3, LeafSearch

(* The steps that change a leaf, one by one. *)
LEMMA OverwriteSearch ==
  ASSUME TreeInv, SearchInv, NEW t \in Threads, Overwrite(t)
  PROVE  SearchInv'
<1>0. pc[t] = "write"
  BY DEF Overwrite, At
<1> DEFINE q == current[t]
           n == node[q]
           b == LowerBound(n.keys, n.size, Key(t))
<1>1. access[t][q] = "write" /\ keyIndex[t] = b
  BY <1>0, InCall DEF CurrentOK, WriteOK, Key
<1>2. n \in LeafType /\ Sorted(n.keys, n.size) /\ Key(t) \in Nat /\ call[t].value \in Nat
  BY <1>0, AtLeafFacts
<1>3. b <= n.size
  BY <1>1 DEF Overwrite, Here
<1>4. node' = [node EXCEPT ![q] = WithValue(n, b, call[t].value)] /\ Answer(t, None)
  BY <1>1 DEF Overwrite
<1> DEFINE m == WithValue(n, b, call[t].value)
<1>5. m \in LeafType /\ m.keys = n.keys /\ m.size = n.size
  BY <1>2, <1>3, LeafChanges
<1> HIDE DEF m
<1>6. /\ Created' = Created
      /\ \A p \in Created : node'[p] = IF p = current[t] THEN m ELSE node[p]
  BY <1>4 DEF m, Created
<1> QED BY <1>0, <1>1, <1>4, <1>5, <1>6, SameKeysSearch

(* An insert overwrites only a pair with its key, and adds its pair only to *)
(* a leaf without the key.                                                  *)
LEMMA IndexOfHeldKey ==
  ASSUME TreeInv, NEW t \in Threads, pc[t] = "write"
  PROVE  /\ keyIndex[t] = LowerBound(Here(t).keys, Here(t).size, Key(t))
         /\ HasKey(Here(t), Key(t)) => keyIndex[t] <= Here(t).size
         /\ keyIndex[t] <= Here(t).size =>
              /\ keyIndex[t] \in DOMAIN Here(t).keys
              /\ HasKey(Here(t), Key(t)) <=> Here(t).keys[keyIndex[t]] = Key(t)
<1> DEFINE n == node[current[t]]
           b == LowerBound(n.keys, n.size, Key(t))
           z == n.size
<1>1. keyIndex[t] = b
  BY InCall DEF WriteOK, Key
<1>2. HasKey(n, Key(t)) <=> b \in DOMAIN n.keys /\ b <= n.size /\ n.keys[b] = Key(t)
  BY DEF HasKey, Contains
<1>3. /\ z \in 0 .. LeafN /\ LeafN \in Nat /\ DOMAIN n.keys = 1 .. LeafN
      /\ b \in 1 .. z + 1
  <2>1. /\ z \in 0 .. LeafN /\ LeafN \in Nat /\ DOMAIN n.keys = 1 .. LeafN
        /\ IsArray(n.keys, LeafN) /\ Key(t) \in Nat
    BY AtLeafFacts
  <2> DEFINE a == n.keys
  <2>2. IsArray(a, LeafN)
    BY <2>1
  <2> HIDE DEF a, z
  <2>3. LowerBound(a, z, Key(t)) \in 1 .. z + 1
    BY <2>1, <2>2, LowerBoundBounds
  <2> QED BY <2>1, <2>3 DEF a, z
<1> HIDE DEF b
<1>4. b <= z => b \in DOMAIN n.keys
  <2> HIDE DEF z
  <2> QED BY <1>3
<1> QED BY <1>1, <1>2, <1>4 DEF Here, b

LEMMA NewKey ==
  ASSUME TreeInv, SeesItsKey, NEW t \in Threads, pc[t] = "write", KeyIsNew(t)
  PROVE  ~HasKey(Here(t), Key(t))
<1> SUFFICES ASSUME HasKey(Here(t), Key(t)) PROVE FALSE
  OBVIOUS
<1>1. keyIndex[t] <= Here(t).size
  BY IndexOfHeldKey
<1>2. KeysAtIt(t) = {Key(t)}
  BY <1>1 DEF SeesItsKey, At
<1>3. ~(keyIndex[t] > Here(t).size)
  <2> DEFINE z == Here(t).size
             i == keyIndex[t]
  <2>1. z \in Nat /\ i \in Nat
    <3>1. z \in 0 .. LeafN /\ LeafN \in Nat
      BY AtLeafFacts DEF Here
    <3>2. i \in 1 .. LeafN
      BY <1>1, IndexOfHeldKey, AtLeafFacts DEF Here
    <3> HIDE DEF z, i
    <3> QED BY <3>1, <3>2
  <2> HIDE DEF z, i
  <2>2. i <= z
    BY <1>1 DEF i, z
  <2>3. ~(i > z)
    BY <2>1, <2>2
  <2> QED BY <2>3 DEF i, z
<1> QED BY <1>2, <1>3 DEF KeyIsNew

LEMMA OldKey ==
  ASSUME SeesItsKey, NEW t \in Threads, Overwrite(t)
  PROVE  HasKey(Here(t), Key(t))
BY DEF SeesItsKey, Overwrite

(* Add puts the pair where it keeps the leaf in order. *)
LEMMA AddSearch ==
  ASSUME TreeInv, SearchInv, SeesItsKey, NEW t \in Threads, Add(t)
  PROVE  SearchInv'
<1>0. pc[t] = "write" /\ KeyIsNew(t)
  BY DEF Add, At
<1> DEFINE q == current[t]
           n == node[q]
           b == LowerBound(n.keys, n.size, Key(t))
           m == WithPair(n, b, Key(t), call[t].value)
<1>1. /\ access[t][q] = "write" /\ keyIndex[t] = b
      /\ n.size = LeafN => HasKey(n, Key(t))
  BY <1>0, InCall DEF CurrentOK, WriteOK, Key
<1>2. /\ q \in Created /\ n \in LeafType /\ Sorted(n.keys, n.size) /\ Key(t) \in Nat
      /\ call[t].value \in Nat /\ n.size \in 0 .. LeafN /\ LeafN \in Nat
      /\ IsArray(n.keys, LeafN)
  BY <1>0, AtLeafFacts
<1>3. ~Contains(n.keys, n.size, Key(t))
  BY <1>0, NewKey DEF Here, HasKey
<1>4. n.size \in 0 .. LeafN - 1
  BY <1>1, <1>2, <1>3 DEF HasKey
<1>5. node' = [node EXCEPT ![q] = WithPair(n, b, Key(t), call[t].value)] /\ Answer(t, None)
  BY <1>1 DEF Add
<1>6. m \in LeafType
  <2>1. n.size < LeafN
    BY <1>2, <1>4
  <2> HIDE DEF n
  <2> QED BY <1>2, <2>1, LeafChanges
<1>7. /\ Strict(n.keys, n.size)
      /\ m.keys = InsertAt(n.keys, n.size, b, Key(t)) /\ m.size = n.size + 1
  BY <1>2, StrictLeaf DEF WithPair, Leaf
<1> DEFINE a == n.keys
           z == n.size
           k == Key(t)
<1>8. /\ Strict(InsertAt(a, z, LowerBound(a, z, k), k), z + 1)
      /\ \A i \in 1 .. z + 1 : \/ InsertAt(a, z, LowerBound(a, z, k), k)[i] = k
                               \/ \E j \in 1 .. z : InsertAt(a, z, LowerBound(a, z, k), k)[i] = a[j]
  <2>1. /\ LeafN \in Nat /\ IsArray(a, LeafN) /\ z \in 0 .. LeafN - 1 /\ k \in Nat
        /\ Strict(a, z) /\ ~Contains(a, z, k)
    BY <1>2, <1>3, <1>4, <1>7
  <2> HIDE DEF a, z, k
  <2> QED BY <2>1, StrictInsert
<1> HIDE DEF m
<1>9. /\ Strict(m.keys, m.size)
      /\ \A i \in 1 .. m.size : m.keys[i] = Key(t) \/ \E j \in 1 .. n.size : m.keys[i] = n.keys[j]
  BY <1>7, <1>8
<1>10. /\ Created' = Created
       /\ \A p \in Created : node'[p] = IF p = current[t] THEN m ELSE node[p]
  BY <1>5 DEF m, Created
<1> QED BY <1>0, <1>1, <1>5, <1>6, <1>9, <1>10, LeafSearch

LEMMA UpdateLeafSearch ==
  ASSUME TreeInv, SearchInv, NEW t \in Threads, UpdateLeaf(t)
  PROVE  SearchInv'
<1>0. pc[t] = "leaf" /\ call[t].op = "update" /\ (current[t] = Root => mode[t])
  BY DEF UpdateLeaf, AtUnique, At, InRoot, Op
<1> DEFINE q == current[t]
           n == node[q]
           b == LowerBound(n.keys, n.size, Key(t))
<1>1. access[t][q] = "write"
  BY <1>0, InCall DEF CurrentOK
<1>2. /\ n \in LeafType /\ Sorted(n.keys, n.size) /\ Key(t) \in Nat /\ call[t].value \in Nat
      /\ n.size \in 0 .. LeafN /\ LeafN \in Nat /\ q \in Created
      /\ IsArray(n.values, LeafN) /\ DOMAIN n.keys = 1 .. LeafN
  BY <1>0, AtLeafFacts
<1>3. Answer(t, None)
  BY DEF UpdateLeaf
<1>4. CASE HasKey(n, Key(t))
  <2> DEFINE v == n.values[b] + call[t].value
             m == WithValue(n, b, v)
  <2>1. b \in DOMAIN n.keys /\ b <= n.size
    BY <1>4 DEF HasKey, Contains
  <2> HIDE DEF b
  <2>2. v \in Nat
    <3>1. n.values[b] \in Nat
      BY <1>2, <2>1 DEF IsArray
    <3> QED BY <1>2, <3>1
  <2>3. node' = [node EXCEPT ![q] = m]
    BY <1>4 DEF UpdateLeaf, Here, IndexOfKey, b
  <2> HIDE DEF v
  <2>4. m \in LeafType /\ m.keys = n.keys /\ m.size = n.size
    <3> HIDE DEF n
    <3>1. b <= n.size => /\ WithValue(n, b, v) \in LeafType
                         /\ WithValue(n, b, v).keys = n.keys /\ WithValue(n, b, v).size = n.size
      BY <1>2, <2>2, LeafChanges DEF b
    <3> QED BY <2>1, <3>1
  <2> HIDE DEF m
  <2>5. /\ Created' = Created
        /\ \A p \in Created : node'[p] = IF p = current[t] THEN m ELSE node[p]
    BY <1>2, <2>3 DEF Created
  <2> QED BY <1>0, <1>1, <1>3, <2>4, <2>5, SameKeysSearch
<1>5. CASE ~HasKey(n, Key(t))
  <2>1. Created' = Created /\ node' = node
    BY <1>5 DEF UpdateLeaf, Here, Created
  <2> QED BY <1>0, <1>1, <1>2, <1>3, <2>1, SameKeysSearch
<1> QED BY <1>4, <1>5

LEMMA EraseLeafSearch ==
  ASSUME TreeInv, SearchInv, NEW t \in Threads, EraseLeaf(t)
  PROVE  SearchInv'
<1>0. pc[t] = "leaf" /\ call[t].op = "erase" /\ (current[t] = Root => mode[t])
  BY DEF EraseLeaf, AtUnique, At, InRoot, Op
<1> DEFINE q == current[t]
           n == node[q]
           b == LowerBound(n.keys, n.size, Key(t))
<1>1. access[t][q] = "write"
  BY <1>0, InCall DEF CurrentOK
<1>2. /\ n \in LeafType /\ Sorted(n.keys, n.size) /\ Key(t) \in Nat /\ 0 \in Nat
      /\ q \in Created /\ n.size \in 0 .. LeafN /\ LeafN \in Nat /\ IsArray(n.keys, LeafN)
  BY <1>0, AtLeafFacts
<1>3. Answer(t, None)
  BY DEF EraseLeaf
<1>4. CASE HasKey(n, Key(t))
  <2> DEFINE m == WithoutPair(n, b)
             a == n.keys
             z == n.size
  <2>1. b \in 1 .. z
    <3>1. b <= z /\ b \in 1 .. z + 1
      BY <1>2, <1>4, LowerBoundBounds DEF HasKey, Contains
    <3> QED BY <1>2, <3>1
  <2>2. node' = [node EXCEPT ![q] = m]
    BY <1>4 DEF EraseLeaf, Here, IndexOfKey
  <2>3. m \in LeafType /\ m.keys = EraseAt(a, z, b) /\ m.size = z - 1
    BY <1>2, <2>1, LeafChanges DEF WithoutPair, Leaf
  <2>4. Strict(a, z)
    BY <1>2, StrictLeaf
  <2> HIDE DEF m, b
  <2>5. /\ Strict(EraseAt(a, z, b), z - 1)
        /\ \A i \in 1 .. z - 1 : \E j \in 1 .. z : EraseAt(a, z, b)[i] = a[j]
    <3>1. LeafN \in Nat /\ IsArray(a, LeafN) /\ z \in 0 .. LeafN
      BY <1>2
    <3> HIDE DEF a, z
    <3> QED BY <2>1, <2>4, <3>1, StrictErase
  <2>6. Strict(m.keys, m.size) /\ \A i \in 1 .. m.size : \E j \in 1 .. n.size : m.keys[i] = n.keys[j]
    BY <2>3, <2>5
  <2>7. /\ Created' = Created
        /\ \A p \in Created : node'[p] = IF p = current[t] THEN m ELSE node[p]
    BY <2>2 DEF Created
  <2> QED BY <1>0, <1>1, <1>3, <2>3, <2>6, <2>7, LeafSearch
<1>5. CASE ~HasKey(n, Key(t))
  <2>1. Created' = Created /\ node' = node
    BY <1>5 DEF EraseLeaf, Here, Created
  <2> QED BY <1>0, <1>1, <1>2, <1>3, <2>1, SameKeysSearch
<1> QED BY <1>4, <1>5

(***************************************************************************)
(* Steps that split a node.                                                *)
(***************************************************************************)
LEMMA RootSplitSearch ==
  ASSUME TreeInv, SearchInv, NEW t \in Threads, pc[t] \in {"inner", "leaf"},
         current[t] = Root, access[t][Root] = "write", Full(node[Root]), SplitRoot(t),
         OthersGo(t), call' = call
  PROVE  SearchInv'
<1> DEFINE n == node[Root]
           F == Fresh
           pivot == Pivot(n)
<1>1. /\ F \in Nat /\ F \notin Created /\ F + 1 \notin Created /\ Root \in Created
      /\ F # F + 1 /\ F # Root /\ F + 1 # Root
  BY FreshPage, RootCreated
<1>2. /\ node' = [p \in Created \cup {F, F + 1} |->
                IF p = Root THEN NewRoot(pivot, F + 1, F)
                ELSE IF p = F THEN Right(n)
                ELSE IF p = F + 1 THEN Left(n)
                ELSE node[p]]
      /\ current' = [current EXCEPT ![t] = Half(Key(t), pivot, F + 1, F)]
      /\ parent' = parent
  BY DEF SplitRoot, Here
<1>3. LocalTypes /\ Key(t) \in Nat /\ parent[t] = None
  BY InCall, NoParent
<1>4. RootSplit(n, F)
  <2> HIDE DEF n, F, pivot
  <2>1. Created' = Created \cup {F, F + 1}
    BY <1>2 DEF Created
  <2>2. /\ node'[Root] = NewRoot(pivot, F + 1, F) /\ node'[F] = Right(n) /\ node'[F + 1] = Left(n)
        /\ \A p \in Created \ {Root} : node'[p] = node[p]
    BY <1>1, <1>2
  <2> QED BY <2>1, <2>2 DEF RootSplit, pivot
<1>5. ParentsOK'
  BY <1>4, RootSplitParents DEF SearchInv
<1>6. LevelsOK'
  <2>1. PICK height \in [Created -> Nat] : HeightsOK(height)
    BY DEF SearchInv, LevelsOK
  <2>0. PICK new : new = RootHeights(height, F)
    OBVIOUS
  <2>2. HeightsOK(new)'
    BY <1>4, <2>0, <2>1, RootSplitHeights
  <2>3. new \in [Created' -> Nat]
    BY <2>2 DEF HeightsOK
  <2> QED BY <2>2, <2>3 DEF LevelsOK
<1>7. PICK home : HomesAndPlaces(home)
  BY HomeExists
<1>8. HomesOK(home) /\ home[Root] = Nat
  BY <1>7 DEF HomesAndPlaces, HomesOK
<1>9. PICK new : new = RootHomes(home, pivot, F)
  OBVIOUS
<1>10. HomesOK(new)'
  BY <1>4, <1>8, <1>9, RootSplitHomes
<1>11. /\ new[F] = Beyond(Nat, pivot) /\ new[F + 1] = Below(Nat, pivot)
       /\ \A p \in Created : new[p] = home[p]
  <2> HIDE DEF F, pivot
  <2> QED BY <1>1, <1>9 DEF RootHomes
<1>12. \A p \in Created : access[t][p] # "write" => node'[p] = node[p]
  BY <1>4 DEF RootSplit
<1>13. PlaceOK(t, new)' /\ LinkOK(t)'
  <2>1. current'[t] = (IF Key(t) <= pivot THEN F + 1 ELSE F) /\ parent'[t] = None
    BY <1>2, <1>3 DEF Half, LocalTypes
  <2>2. Key(t) \in new[current'[t]]
    <3> HIDE DEF F, pivot
    <3> QED BY <1>3, <1>11, <2>1 DEF Below, Beyond
  <2> QED BY <2>1, <2>2 DEF PlaceOK, LinkOK, Key
<1> QED BY <1>5, <1>6, <1>7, <1>10, <1>11, <1>12, <1>13, SearchStep

LEMMA ChildSplitSearch ==
  ASSUME TreeInv, SearchInv, NEW t \in Threads, pc[t] \in {"inner", "leaf"},
         parent[t] # None, Full(node[current[t]]), SplitChild(t), OthersGo(t), call' = call
  PROVE  SearchInv'
<1> DEFINE c == current[t]
           q == parent[t]
           n == node[c]
           i == ChildIndex(node[q], Key(t))
           F == Fresh
           pivot == Pivot(n)
<1>1. F \in Nat /\ F \notin Created
  BY FreshPage
<1>2. /\ node' = [p \in Created \cup {F} |->
                IF p = c THEN Left(n)
                ELSE IF p = F THEN Right(n)
                ELSE IF p = q THEN WithPivot(node[p], i, pivot, F)
                ELSE node[p]]
      /\ current' = [current EXCEPT ![t] = Half(Key(t), pivot, c, F)]
      /\ parent' = [parent EXCEPT ![t] = None]
  BY DEF SplitChild, Here
<1>3. /\ LocalTypes /\ Key(t) \in Nat
      /\ c \in Created /\ access[t][c] = "write" /\ c # Root
      /\ q \in Created /\ access[t][q] = "write" /\ ~node[q].leaf /\ node[q].size < InnerN
      /\ PagesOK
  BY InCall DEF ParentOK, CurrentOK
<1>4. PICK home : HomesAndPlaces(home)
  BY HomeExists
<1>5. /\ HomesOK(home) /\ Key(t) \in home[c] /\ \A p \in Created : home[p] \in SUBSET Nat
  BY <1>4 DEF HomesAndPlaces, HomesOK, PlaceOK, InNode
<1>6. /\ node[q] \in InnerType /\ node[q].leaf = FALSE /\ i \in 1 .. node[q].size + 1
      /\ ChildAt(node[q], i, c)
  <2>1. node[q] \in InnerType
    BY <1>3 DEF PagesOK, NodeOK, LeafType
  <2>2. NodeOrdered(node[q], home[q], home) /\ node[q].leaf = FALSE
    BY <1>3, <1>5, <2>1 DEF HomesOK, InnerType
  <2>3. i \in 1 .. node[q].size + 1
    BY <1>3, <2>1, <2>2, IndexOfChild DEF NodeOrdered
  <2>4. c = node[q].children[i]
    BY <1>3 DEF SearchInv, LinkOK, ChildOf
  <2> QED BY <2>1, <2>2, <2>3, <2>4 DEF ChildAt
<1>7. c # q
  <2> SUFFICES ASSUME c = q PROVE FALSE
    OBVIOUS
  <2>1. node[q].size = InnerN
    BY <1>6 DEF Full
  <2> QED BY <1>3, <2>1, SizesAssumption
<1> HIDE DEF n, F, i, pivot, c, q
<1>8. ChildSplit(n, c, q, i, F)
  <2>1. Created' = Created \cup {F}
    BY <1>2 DEF Created
  <2>2. /\ node'[c] = Left(n) /\ node'[F] = Right(n)
        /\ node'[q] = WithPivot(node[q], i, pivot, F)
        /\ \A p \in Created \ {c, q} : node'[p] = node[p]
    BY <1>1, <1>2, <1>3, <1>7
  <2> QED BY <2>1, <2>2 DEF ChildSplit, pivot
<1>9. n = node[c] /\ Full(n) /\ F = Fresh
  BY DEF n, c, F
<1>10. ParentsOK'
  BY <1>3, <1>6, <1>8, <1>9, ChildSplitParents DEF SearchInv
<1>11. LevelsOK'
  <2>1. PICK height \in [Created -> Nat] : HeightsOK(height)
    BY DEF SearchInv, LevelsOK
  <2>2. PICK new : new = ChildHeights(height, c, F)
    OBVIOUS
  <2>3. HeightsOK(new)'
    BY <1>3, <1>6, <1>8, <1>9, <2>1, <2>2, ChildSplitHeights DEF SearchInv
  <2>4. new \in [Created' -> Nat]
    BY <2>3 DEF HeightsOK
  <2> QED BY <2>3, <2>4 DEF LevelsOK
<1>12. PICK new : new = ChildHomes(home, c, Pivot(n), F)
  OBVIOUS
<1>13. HomesOK(new)'
  BY <1>3, <1>5, <1>6, <1>8, <1>9, <1>12, ChildSplitHomes DEF SearchInv
<1>14. /\ new[F] = Beyond(home[c], pivot) /\ new[c] = Below(home[c], pivot)
       /\ \A p \in Created : p # c => new[p] = home[p]
  BY <1>1, <1>3, <1>12 DEF ChildHomes, pivot
<1>15. \A p \in Created : access[t][p] # "write" => node'[p] = node[p] /\ new[p] = home[p]
  BY <1>3, <1>8, <1>14 DEF ChildSplit
<1>16. PlaceOK(t, new)' /\ LinkOK(t)'
  <2>1. current'[t] = (IF Key(t) <= pivot THEN c ELSE F) /\ parent'[t] = None
    BY <1>2, <1>3 DEF Half, LocalTypes
  <2>2. Key(t) \in new[current'[t]]
    BY <1>5, <1>14, <2>1 DEF Below, Beyond
  <2> QED BY <2>1, <2>2 DEF PlaceOK, LinkOK, Key
<1> QED BY <1>4, <1>10, <1>11, <1>13, <1>15, <1>16, SearchStep

LEMMA SplitInnerSearch ==
  ASSUME TreeInv, SearchInv, NEW t \in Threads, SplitInner(t)
  PROVE  SearchInv'
<1>0. pc[t] = "inner"
  BY DEF SplitInner, At
<1>1. /\ LocalTypes /\ access[t][current[t]] = "write" /\ Full(node[current[t]])
      /\ parent[t] = None => current[t] = Root
  BY <1>0, InCall DEF CurrentOK, SplitInner, HasRoom, Here
<1>2. pc' = [pc EXCEPT ![t] = "descend"] /\ call' = call
  BY DEF SplitInner, Go, client
<1>3. CASE parent[t] = None
  <2>1. SplitRoot(t) /\ current[t] = Root
    BY <1>1, <1>3 DEF SplitInner
  <2>2. OthersGo(t)
    BY <1>1, <1>2, <2>1 DEF OthersGo, SplitRoot, LocalTypes
  <2> QED BY <1>0, <1>1, <1>2, <2>1, <2>2, RootSplitSearch
<1>4. CASE parent[t] # None
  <2>1. SplitChild(t)
    BY <1>4 DEF SplitInner
  <2>2. OthersGo(t)
    BY <1>1, <1>2, <2>1 DEF OthersGo, SplitChild, LocalTypes
  <2> QED BY <1>0, <1>1, <1>2, <1>4, <2>1, <2>2, ChildSplitSearch
<1> QED BY <1>3, <1>4

LEMMA SplitLeafSearch ==
  ASSUME TreeInv, SearchInv, NEW t \in Threads, SplitLeaf(t)
  PROVE  SearchInv'
<1>0. pc[t] = "leaf"
  BY DEF SplitLeaf, AtLeaf, At
<1>1. LocalTypes /\ CurrentOK(t) /\ Full(node[current[t]]) /\ call[t].op = "insert"
  BY <1>0, InCall DEF SplitLeaf, AtLeaf, Op, Here
<1>2. pc' = [pc EXCEPT ![t] = "write"] /\ call' = call
  BY DEF SplitLeaf, Go, client
<1>3. CASE current[t] = Root
  <2>1. SplitRoot(t) /\ access[t][Root] = "write"
    BY <1>0, <1>1, <1>3 DEF SplitLeaf, InRoot, CurrentOK
  <2>2. OthersGo(t)
    BY <1>1, <1>2, <2>1 DEF OthersGo, SplitRoot, LocalTypes
  <2> QED BY <1>0, <1>1, <1>2, <1>3, <2>1, <2>2, RootSplitSearch
<1>4. CASE current[t] # Root
  <2>1. SplitChild(t) /\ parent[t] # None
    BY <1>0, <1>1, <1>4 DEF SplitLeaf, InRoot, CurrentOK
  <2>2. OthersGo(t)
    BY <1>1, <1>2, <2>1 DEF OthersGo, SplitChild, LocalTypes
  <2> QED BY <1>0, <1>1, <1>2, <2>1, <2>2, ChildSplitSearch
<1> QED BY <1>3, <1>4

(* The first state, every step, and the invariant. *)
LEMMA SearchInit == Init => SearchInv
<1> SUFFICES ASSUME Init PROVE SearchInv
  OBVIOUS
<1>1. /\ node = [p \in {Root} |-> EmptyLeaf] /\ Created = {Root} /\ node[Root] = EmptyLeaf
      /\ \A t \in Threads : pc[t] = "client" /\ parent[t] = None
  BY DEF Init, Created
<1>2. EmptyLeaf.leaf = TRUE /\ EmptyLeaf.size = 0
  BY DEF EmptyLeaf, Leaf
<1>3. ParentsOK
  BY <1>1, <1>2 DEF ParentsOK, ChildAt
<1>4. LevelsOK
  <2> DEFINE height == [p \in Created |-> 0]
  <2>1. HeightsOK(height)
    BY <1>1, <1>2 DEF HeightsOK, NodeLevel
  <2>2. height \in [Created -> Nat]
    OBVIOUS
  <2> QED BY <2>1, <2>2 DEF LevelsOK
<1>5. OrderOK
  <2> DEFINE home == [p \in Created |-> Nat]
  <2>1. home \in [Created -> SUBSET Nat] /\ home[Root] = Nat
    BY <1>1
  <2>2. NodeOrdered(EmptyLeaf, Nat, home)
    BY <1>2 DEF NodeOrdered, Strict
  <2>3. HomesOK(home)
    BY <1>1, <2>1, <2>2 DEF HomesOK
  <2>4. \A t \in Threads : PlaceOK(t, home)
    BY <1>1 DEF PlaceOK, InNode
  <2> QED BY <2>1, <2>3, <2>4 DEF OrderOK
<1>6. \A t \in Threads : LinkOK(t)
  BY <1>1 DEF LinkOK
<1> QED BY <1>3, <1>4, <1>5, <1>6 DEF SearchInv

LEMMA SearchNext ==
  ASSUME TreeInv, SearchInv, SeesItsKey, [Next]_vars
  PROVE  SearchInv'
<1>1. CASE Close
  BY <1>1, RestSearch DEF Close, locals
<1>2. CASE Reopen
  BY <1>2, RestSearch DEF Reopen, locals
<1>3. ASSUME NEW t \in Threads, Steps(t) PROVE SearchInv'
  BY <1>3, ReadHeaderSearch, PinRootSearch, RepinRootSearch, PinChildSearch, PassesSearch,
     SplitInnerSearch, RetryExclusiveSearch, KeepLeafSearch, SplitLeafSearch, OverwriteSearch,
     AddSearch, UpdateLeafSearch, EraseLeafSearch, FindLeafSearch DEF Steps
<1>4. ASSUME NEW t \in Threads, Load(t) PROVE SearchInv'
  BY <1>4, BeginSearch DEF Load
<1>5. ASSUME NEW t \in Threads, NEW c, Call(t, c) PROVE SearchInv'
  BY <1>5, BeginSearch DEF Call
<1>6. CASE UNCHANGED vars
  <2>1. UNCHANGED <<node, access, client, locals>>
    BY <1>6 DEF vars, tree
  <2> QED BY <2>1, RestSearch
<1> QED BY <1>1, <1>2, <1>3, <1>4, <1>5, <1>6 DEF Next

(* Whatever the threads do, as long as every insert sees its key through    *)
(* keyIt, every page is the child of one node, all leaves are equally deep, *)
(* and every key and every thread is where a search for the key comes to.   *)
THEOREM SearchInvariant == Spec /\ []SeesItsKey => []SearchInv
<1>1. Init => SearchInv
  BY SearchInit
<1>2. TreeInv /\ SearchInv /\ SeesItsKey /\ [Next]_vars => SearchInv'
  BY SearchNext
<1> QED BY <1>1, <1>2, TreeInvariant, PTL DEF Spec

(***************************************************************************)
(* What the invariant says of the tree.                                    *)
(***************************************************************************)
(* Every nonempty set of numbers has a least element. *)
LEMMA LeastNat ==
  ASSUME NEW S, S \subseteq Nat, S # {}
  PROVE  \E x \in S : \A y \in S : x <= y
<1> DEFINE T == {0 .. x : x \in S}
<1>1. \A x \in Nat : 0 .. x \in FiniteSubsetsOf(Nat) /\ 0 .. x \in SUBSET Nat
  BY FS_Interval DEF FiniteSubsetsOf
<1>2. T \subseteq FiniteSubsetsOf(Nat) /\ T # {}
  BY <1>1
<1>3. PICK a \in T : \A b \in T : ~(<<b, a>> \in StrictSubsetOrdering(Nat))
  <2> HIDE DEF T
  <2> QED BY <1>2, FS_StrictSubsetOrderingWellFounded, WFMin
<1>4. PICK x \in S : a = 0 .. x
  OBVIOUS
<1>5. ASSUME NEW y \in S, y < x PROVE FALSE
  <2>1. 0 .. y \in T
    OBVIOUS
  <2>2. 0 .. y \subseteq 0 .. x /\ x \notin 0 .. y /\ x \in 0 .. x
    BY <1>5
  <2>3. <<0 .. y, a>> \in (SUBSET Nat) \X (SUBSET Nat)
    BY <1>1, <1>4
  <2>4. <<0 .. y, a>> \in StrictSubsetOrdering(Nat)
    BY <1>4, <2>2, <2>3 DEF StrictSubsetOrdering
  <2> QED BY <1>3, <2>1, <2>4
<1> QED BY <1>5

(* The children of a node, with and without their indices. *)
LEMMA ChildrenAt ==
  ASSUME TreeInv, NEW p \in Created, NEW c
  PROVE  /\ c \in Children(node[p]) <=> \E i \in Places : ChildAt(node[p], i, c)
         /\ c \in Children(node[p]) =>
              c \in Created \ {Root} /\ \E i \in 1 .. node[p].size + 1 : c = node[p].children[i]
<1>1. ASSUME NEW i, ChildAt(node[p], i, c)
      PROVE  c \in Created \ {Root} /\ i \in Places
  <2>1. c \in Created \ {Root} /\ node[p] \in InnerType
    BY <1>1, ChildCreated
  <2> DEFINE z == node[p].size
  <2>2. z \in 1 .. InnerN /\ InnerN \in Nat /\ i \in 1 .. z + 1
    BY <1>1, <2>1, SizesAssumption DEF InnerType, ChildAt
  <2> HIDE DEF z
  <2> QED BY <2>1, <2>2 DEF Places
<1>2. c \in Children(node[p]) <=> \E i : ChildAt(node[p], i, c)
  BY DEF Children, ChildAt
<1>3. c \in Children(node[p]) => \E i \in 1 .. node[p].size + 1 : c = node[p].children[i]
  BY DEF Children
<1> QED BY <1>1, <1>2, <1>3

(* Every page but the root is the child of one node. *)
LEMMA OneParent ==
  ASSUME TreeInv, ParentsOK, NEW p \in Created
  PROVE  Cardinality({q \in Created : p \in Children(node[q])}) = IF p = Root THEN 0 ELSE 1
<1> DEFINE S == {q \in Created : p \in Children(node[q])}
<1>1. CASE p = Root
  <2>1. S = {}
    BY <1>1, ChildrenAt
  <2> QED BY <1>1, <2>1, FS_EmptySet
<1>2. CASE p # Root
  <2>1. PICK q \in Created : \E i \in Places : ChildAt(node[q], i, p)
    BY <1>2 DEF ParentsOK
  <2>2. q \in S
    BY <2>1, ChildrenAt
  <2>3. ASSUME NEW r \in S PROVE r = q
    <3>1. \E i \in Places : ChildAt(node[r], i, p)
      BY ChildrenAt
    <3> QED BY <2>1, <3>1 DEF ParentsOK
  <2>4. S = {q}
    BY <2>2, <2>3
  <2> HIDE DEF S
  <2>5. Cardinality(S) = 1
    BY <2>4, FS_Singleton
  <2> QED BY <1>2, <2>5 DEF S
<1> QED BY <1>1, <1>2

(* An inner node has a child for each of its indices. *)
LEMMA ManyChildren ==
  ASSUME TreeInv, ParentsOK, NEW p \in Created, ~node[p].leaf
  PROVE  Cardinality(Children(node[p])) = node[p].size + 1
<1> DEFINE n == node[p]
           z == n.size + 1
           S == 1 .. z
           f == [i \in S |-> n.children[i]]
<1>1. n \in InnerType
  BY DEF TreeInv, PagesOK, NodeOK, LeafType
<1>2. n.leaf = FALSE
  BY <1>1 DEF InnerType
<1>a. z \in Nat
  <2> DEFINE y == n.size
  <2>1. y \in 1 .. InnerN /\ InnerN \in Nat /\ z = y + 1
    BY <1>1, SizesAssumption DEF InnerType
  <2> HIDE DEF y, z
  <2> QED BY <2>1
<1>3. IsFiniteSet(S) /\ Cardinality(S) = z
  <2> HIDE DEF z
  <2>1. 1 \in Int /\ z \in Int /\ 1 .. z = S
    BY <1>a
  <2>2. IF 1 > z THEN Cardinality(1 .. z) = 0 ELSE Cardinality(1 .. z) = z - 1 + 1
    BY <2>1, FS_Interval
  <2>3. IsFiniteSet(1 .. z)
    BY <2>1, FS_Interval
  <2> QED BY <1>a, <2>1, <2>2, <2>3
<1>4. f \in Surjection(S, Children(n))
  BY <1>2 DEF Surjection, Children
<1>5. \A i \in S : i \in Places
  <2> DEFINE y == n.size
  <2>1. y \in 1 .. InnerN /\ InnerN \in Nat /\ z = y + 1
    BY <1>1, SizesAssumption DEF InnerType
  <2> HIDE DEF y, z
  <2> QED BY <2>1 DEF Places
<1>6. ASSUME NEW i \in S, NEW j \in S, n.children[i] = n.children[j]
      PROVE  i = j
  <2> DEFINE c == n.children[i]
  <2>1. ChildAt(n, i, c) /\ ChildAt(n, j, c)
    BY <1>2, <1>6 DEF ChildAt
  <2>2. c \in Created /\ i \in Places /\ j \in Places
    BY <1>5, <2>1, ChildCreated
  <2> HIDE DEF c
  <2> QED BY <2>1, <2>2 DEF ParentsOK
<1>7. f \in Injection(S, Children(n))
  BY <1>2, <1>6 DEF Injection, IsInjective, Children
<1> HIDE DEF S, f
<1>8. Cardinality(Children(n)) = Cardinality(S)
  BY <1>3, <1>4, <1>7, FS_Surjection
<1> QED BY <1>3, <1>8

(* Height is the only function that meets its definition. *)
LEMMA HeightIs ==
  ASSUME TreeInv, NEW height, HeightsOK(height), NEW p \in Created
  PROVE  Height[p] = height[p]
<1>1. /\ height \in [Created -> Nat]
      /\ \A q \in Created : NodeLevel(node[q], height[q], height)
  BY DEF HeightsOK
<1>2. ASSUME NEW q \in Created, ~node[q].leaf
      PROVE  /\ node[q].children[1] \in Created
             /\ height[q] = 1 + height[node[q].children[1]]
  <2>1. node[q] \in InnerType /\ ChildrenIn(node[q], Created \ {Root})
    BY <1>2 DEF TreeInv, PagesOK, NodeOK, LeafType
  <2>2. 1 \in 1 .. node[q].size + 1
    <3> DEFINE y == node[q].size
    <3>1. y \in 1 .. InnerN /\ InnerN \in Nat
      BY <2>1, SizesAssumption DEF InnerType
    <3> HIDE DEF y
    <3>2. 1 \in 1 .. y + 1
      BY <3>1
    <3> QED BY <3>2 DEF y
  <2>3. node[q].children[1] \in Created
    BY <2>1, <2>2 DEF ChildrenIn
  <2>4. height[node[q].children[1]] + 1 = height[q]
    BY <1>1, <1>2, <2>2 DEF NodeLevel
  <2> QED BY <1>1, <2>3, <2>4
<1>3. height = [q \in Created |-> IF node[q].leaf THEN 0 ELSE 1 + height[node[q].children[1]]]
  BY <1>1, <1>2, SMTT(30) DEF NodeLevel
<1>4. Height = [q \in Created |-> IF node[q].leaf THEN 0 ELSE 1 + Height[node[q].children[1]]]
  BY <1>3 DEF Height
<1> DEFINE Wrong == {q \in Created : Height[q] # height[q]}
           S == {height[q] : q \in Wrong}
<1>5. Wrong = {}
  <2> SUFFICES ASSUME Wrong # {} PROVE FALSE
    OBVIOUS
  <2>1. S \subseteq Nat /\ S # {}
    BY <1>1
  <2>2. PICK q \in Wrong : \A r \in Wrong : height[q] <= height[r]
    <3> HIDE DEF Wrong
    <3>1. PICK x \in S : \A y \in S : x <= y
      <4> HIDE DEF S
      <4> QED BY <2>1, LeastNat
    <3> QED BY <3>1
  <2>3. ~node[q].leaf
    BY <1>1, <1>4 DEF NodeLevel
  <2> DEFINE c == node[q].children[1]
  <2>4. c \in Created /\ height[q] = 1 + height[c] /\ Height[q] = 1 + Height[c]
    BY <1>2, <1>4, <2>3
  <2>5. c \in Wrong
    BY <2>4
  <2>6. height[q] <= height[c] /\ height[c] \in Nat
    BY <1>1, <2>2, <2>4, <2>5
  <2> HIDE DEF c
  <2> QED BY <2>4, <2>6
<1> QED BY <1>5

(* Sets that are unions of each other have a least solution, also on a      *)
(* graph with cycles: a recursive definition by it is well defined.         *)
Joined(p, g, top, own, kids) == IF p \in top THEN own[p] ELSE UNION {g[q] : q \in kids[p]}
Graph(D, V, top, own, kids) ==
  top \subseteq D /\ own \in [D -> SUBSET V] /\ kids \in [D -> SUBSET D]
LEMMA LeastUnion ==
  ASSUME NEW D, NEW V, NEW top, NEW own, NEW kids, Graph(D, V, top, own, kids)
  PROVE  \E f \in [D -> SUBSET V] : \A p \in D : f[p] = Joined(p, f, top, own, kids)
<1> DEFINE J(p, g) == Joined(p, g, top, own, kids)
           Pre == {g \in [D -> SUBSET V] : \A p \in D : J(p, g) \subseteq g[p]}
           f == [p \in D |-> {v \in V : \A g \in Pre : v \in g[p]}]
           e == [p \in D |-> J(p, f)]
<1>1. ASSUME NEW g \in [D -> SUBSET V], NEW h \in [D -> SUBSET V],
             \A q \in D : g[q] \subseteq h[q], NEW p \in D
      PROVE  J(p, g) \subseteq J(p, h)
  BY <1>1 DEF Joined, Graph
<1>2. ASSUME NEW g \in [D -> SUBSET V], NEW p \in D PROVE J(p, g) \subseteq V
  BY <1>2 DEF Joined, Graph
<1>3. f \in [D -> SUBSET V]
  OBVIOUS
<1> HIDE DEF J
<1>4. \A g \in Pre : \A p \in D : f[p] \subseteq g[p]
  OBVIOUS
<1>5. \A p \in D : J(p, f) \subseteq f[p]
  <2> SUFFICES ASSUME NEW p \in D, NEW v \in J(p, f), NEW g \in Pre PROVE v \in g[p]
    BY <1>2, <1>3
  <2>1. J(p, f) \subseteq J(p, g)
    <3> HIDE DEF f
    <3> QED BY <1>1, <1>3, <1>4
  <2>2. J(p, g) \subseteq g[p]
    OBVIOUS
  <2> QED BY <2>1, <2>2
<1>6. e \in [D -> SUBSET V] /\ \A p \in D : e[p] = J(p, f)
  <2> HIDE DEF f
  <2> QED BY <1>2, <1>3
<1> HIDE DEF e
<1>7. e \in Pre
  <2> SUFFICES ASSUME NEW p \in D PROVE J(p, e) \subseteq e[p]
    BY <1>6
  <2> HIDE DEF f, Pre
  <2>1. \A q \in D : e[q] \subseteq f[q]
    BY <1>5, <1>6
  <2>2. J(p, e) \subseteq J(p, f)
    BY <1>1, <1>3, <1>6, <2>1
  <2> QED BY <1>6, <2>2
<1> HIDE DEF f, Pre
<1>8. \A p \in D : f[p] = J(p, f)
  BY <1>4, <1>5, <1>6, <1>7
<1> QED BY <1>3, <1>8 DEF J

(* So KeysBelow meets its definition. *)
LEMMA KeysBelowIs ==
  ASSUME TreeInv
  PROVE  \A p \in Created : KeysBelow[p] =
           IF node[p].leaf THEN {node[p].keys[i] : i \in 1 .. node[p].size}
           ELSE UNION {KeysBelow[q] : q \in Children(node[p])}
<1> DEFINE top == {p \in Created : node[p].leaf}
           own == [p \in Created |->
                     IF node[p].leaf THEN {node[p].keys[i] : i \in 1 .. node[p].size} ELSE {}]
           kids == [p \in Created |-> Children(node[p])]
           V == UNION {own[p] : p \in Created}
<1>1. own \in [Created -> SUBSET V]
  <2>1. \A p \in Created : own[p] \subseteq V
    <3> HIDE DEF own
    <3> QED OBVIOUS
  <2>2. own = [p \in Created |-> own[p]]
    OBVIOUS
  <2> HIDE DEF own, V
  <2> QED BY <2>1, <2>2
<1>2. kids \in [Created -> SUBSET Created]
  BY ChildrenAt
<1>3. PICK f \in [Created -> SUBSET V] :
             \A p \in Created : f[p] = Joined(p, f, top, own, kids)
  <2>1. Graph(Created, V, top, own, kids)
    <3>1. top \subseteq Created
      OBVIOUS
    <3> HIDE DEF top, own, kids, V
    <3> QED BY <1>1, <1>2, <3>1 DEF Graph
  <2> HIDE DEF top, own, kids, V
  <2> QED BY <2>1, LeastUnion
<1>4. \A p \in Created : f[p] =
        IF node[p].leaf THEN {node[p].keys[i] : i \in 1 .. node[p].size}
        ELSE UNION {f[q] : q \in Children(node[p])}
  <2> SUFFICES ASSUME NEW p \in Created
               PROVE  f[p] = IF node[p].leaf
                             THEN {node[p].keys[i] : i \in 1 .. node[p].size}
                             ELSE UNION {f[q] : q \in Children(node[p])}
    OBVIOUS
  <2>1. f[p] = IF p \in top THEN own[p] ELSE UNION {f[q] : q \in kids[p]}
    <3> HIDE DEF top, own, kids, V
    <3> QED BY <1>3 DEF Joined
  <2>2. p \in top <=> node[p].leaf
    OBVIOUS
  <2>3. kids[p] = Children(node[p])
    OBVIOUS
  <2>4. node[p].leaf => own[p] = {node[p].keys[i] : i \in 1 .. node[p].size}
    OBVIOUS
  <2> HIDE DEF top, own, kids
  <2> QED BY <2>1, <2>2, <2>3, <2>4
<1> HIDE DEF V
<1>5. f = [p \in Created |->
             IF node[p].leaf THEN {node[p].keys[i] : i \in 1 .. node[p].size}
             ELSE UNION {f[q] : q \in Children(node[p])}]
  BY <1>3, <1>4
<1>6. KeysBelow = [p \in Created |->
             IF node[p].leaf THEN {node[p].keys[i] : i \in 1 .. node[p].size}
             ELSE UNION {KeysBelow[q] : q \in Children(node[p])}]
  BY <1>5 DEF KeysBelow
<1> QED BY <1>6

(* The keys below a page are at home there. *)
LEMMA KeysAtHome ==
  ASSUME TreeInv, NEW home, HomesOK(home), NEW height, HeightsOK(height)
  PROVE  \A p \in Created : KeysBelow[p] \subseteq home[p]
<1> DEFINE Wrong == {p \in Created : ~(KeysBelow[p] \subseteq home[p])}
           S == {height[p] : p \in Wrong}
<1>1. /\ home \in [Created -> SUBSET Nat] /\ height \in [Created -> Nat]
      /\ \A p \in Created : NodeOrdered(node[p], home[p], home)
      /\ \A p \in Created : NodeLevel(node[p], height[p], height)
  BY DEF HomesOK, HeightsOK
<1>2. SUFFICES ASSUME Wrong # {} PROVE FALSE
  OBVIOUS
<1>3. S \subseteq Nat /\ S # {}
  BY <1>1, <1>2
<1>4. PICK x \in S : \A y \in S : x <= y
  <2> HIDE DEF S
  <2> QED BY <1>3, LeastNat
<1>5. PICK p \in Wrong : x = height[p]
  OBVIOUS
<1>6. PICK k \in KeysBelow[p] : k \notin home[p]
  OBVIOUS
<1>7. ~node[p].leaf
  <2> SUFFICES ASSUME node[p].leaf PROVE FALSE
    OBVIOUS
  <2>1. KeysBelow[p] = {node[p].keys[i] : i \in 1 .. node[p].size}
    BY KeysBelowIs
  <2>2. \A i \in 1 .. node[p].size : node[p].keys[i] \in home[p]
    BY <1>1 DEF NodeOrdered
  <2> QED BY <1>6, <2>1, <2>2
<1>8. PICK c \in Children(node[p]) : k \in KeysBelow[c]
  <2>1. KeysBelow[p] = UNION {KeysBelow[q] : q \in Children(node[p])}
    BY <1>7, KeysBelowIs
  <2> QED BY <1>6, <2>1
<1>9. PICK i \in 1 .. node[p].size + 1 : c = node[p].children[i]
  BY ChildrenAt
<1>10. c \in Created
  BY ChildrenAt
<1>11. home[c] = {j \in home[p] : ChildIndex(node[p], j) = i}
  BY <1>1, <1>7, <1>9 DEF NodeOrdered
<1>12. c \in Wrong
  BY <1>6, <1>8, <1>10, <1>11
<1>13. height[c] + 1 = height[p] /\ height[c] \in Nat
  BY <1>1, <1>7, <1>9, <1>10 DEF NodeLevel
<1>14. x <= height[c]
  BY <1>4, <1>12
<1> QED BY <1>5, <1>13, <1>14

(* With homes and heights the pages form a search tree. *)
LEMMA SearchTreeIs ==
  ASSUME TreeInv, SearchInv
  PROVE  SearchTree
<1>1. PICK home : HomesOK(home)
  BY DEF SearchInv, OrderOK
<1>2. PICK height : HeightsOK(height)
  BY DEF SearchInv, LevelsOK
<1>3. ParentsOK
  BY DEF SearchInv
<1>4. /\ home \in [Created -> SUBSET Nat]
      /\ \A p \in Created : NodeOrdered(node[p], home[p], home)
      /\ \A p \in Created : NodeLevel(node[p], height[p], height)
  BY <1>1, <1>2 DEF HomesOK, HeightsOK
<1>5. \A p \in Created : ~node[p].leaf => node[p] \in InnerType
  BY DEF TreeInv, PagesOK, NodeOK, LeafType
<1>6. ASSUME NEW p \in Created, ~node[p].leaf
      PROVE  /\ Increasing(node[p].pivots, node[p].size)
             /\ Cardinality(Children(node[p])) = node[p].size + 1
             /\ \A q \in Children(node[p]) : Height[q] + 1 = Height[p]
  <2>1. Strict(node[p].pivots, node[p].size)
    BY <1>4, <1>6 DEF NodeOrdered
  <2>2. Increasing(node[p].pivots, node[p].size)
    <3> DEFINE a == node[p].pivots
               z == node[p].size
    <3>1. IsArray(a, InnerN) /\ z \in 1 .. InnerN /\ InnerN \in Nat
      BY <1>5, <1>6, SizesAssumption DEF InnerType, IsArray
    <3>2. Strict(a, z)
      BY <2>1
    <3> HIDE DEF a, z
    <3>3. z \in 0 .. InnerN
      BY <3>1
    <3>4. Increasing(a, z)
      BY <3>1, <3>2, <3>3, StrictSorted
    <3> QED BY <3>4 DEF a, z
  <2>3. Cardinality(Children(node[p])) = node[p].size + 1
    BY <1>3, <1>6, ManyChildren
  <2>4. ASSUME NEW q \in Children(node[p]) PROVE Height[q] + 1 = Height[p]
    <3>1. PICK i \in 1 .. node[p].size + 1 : q = node[p].children[i]
      BY ChildrenAt
    <3>2. q \in Created
      BY ChildrenAt
    <3>3. height[q] + 1 = height[p]
      BY <1>4, <1>6, <3>1 DEF NodeLevel
    <3>4. Height[q] = height[q] /\ Height[p] = height[p]
      BY <1>2, <3>2, HeightIs
    <3> QED BY <3>3, <3>4
  <2> QED BY <2>2, <2>3, <2>4
<1>7. ASSUME NEW p \in Created, ~node[p].leaf, NEW i \in 1 .. node[p].size + 1,
             NEW k \in KeysBelow[node[p].children[i]]
      PROVE  /\ i > 1 => node[p].pivots[i - 1] < k
             /\ i <= node[p].size => k <= node[p].pivots[i]
  <2>1. node[p] \in InnerType /\ ChildrenIn(node[p], Created \ {Root})
    BY <1>7 DEF TreeInv, PagesOK, NodeOK, LeafType
  <2>2. node[p].children[i] \in Created
    BY <2>1 DEF ChildrenIn
  <2>3. k \in home[node[p].children[i]]
    BY <1>1, <1>2, <2>2, KeysAtHome
  <2>4. k \in home[p] /\ ChildIndex(node[p], k) = i
    BY <1>4, <1>7, <2>3 DEF NodeOrdered
  <2>5. Strict(node[p].pivots, node[p].size) /\ k \in Nat
    BY <1>4, <1>7, <2>4 DEF NodeOrdered
  <2>6. \A j \in 1 .. node[p].size : j < i <=> node[p].pivots[j] < k
    BY <2>1, <2>4, <2>5, IndexOfChild
  <2> DEFINE z == node[p].size
             a == node[p].pivots
  <2>7. z \in 1 .. InnerN /\ InnerN \in Nat /\ i \in 1 .. z + 1 /\ IsArray(a, InnerN)
    BY <2>1, SizesAssumption DEF InnerType, IsArray
  <2>8. \A j \in 1 .. z : j < i <=> a[j] < k
    BY <2>6
  <2> HIDE DEF z, a
  <2>9. \A j \in 1 .. z : a[j] \in Nat
    BY <2>7 DEF IsArray
  <2>10. i > 1 => a[i - 1] < k
    BY <2>7, <2>8
  <2>11. i <= z => k <= a[i]
    BY <2>5, <2>7, <2>8, <2>9
  <2> QED BY <2>10, <2>11 DEF z, a
<1>8. \A p \in Created :
        Cardinality({q \in Created : p \in Children(node[q])}) = IF p = Root THEN 0 ELSE 1
  BY <1>3, OneParent
<1> QED BY <1>6, <1>7, <1>8 DEF SearchTree

(* A leaf in order contains no key twice. *)
LEMMA KeysUniqueIs ==
  ASSUME TreeInv, SearchInv
  PROVE  KeysUnique
<1> SUFFICES ASSUME NEW p \in Created, node[p].leaf
             PROVE  Increasing(node[p].keys, node[p].size)
  BY DEF KeysUnique
<1>1. node[p] \in LeafType
  BY DEF TreeInv, PagesOK, NodeOK, InnerType
<1> DEFINE a == node[p].keys
           z == node[p].size
<1>2. Strict(a, z)
  BY <1>1, StrictLeaf
<1>3. IsArray(a, LeafN) /\ z \in 0 .. LeafN /\ LeafN \in Nat
  BY <1>1, SizesAssumption DEF LeafType, IsArray
<1> HIDE DEF a, z
<1>4. Increasing(a, z)
  BY <1>2, <1>3, StrictSorted
<1> QED BY <1>4 DEF a, z

(* Between any two steps of any threads the pages form a search tree:      *)
(* every page but the root has one parent, all leaves are equally deep, and *)
(* the keys below a child lie between the pivots around it, as long as      *)
(* every insert sees its key through keyIt (BTree.h:252).                   *)
THEOREM IsSearchTree == Spec /\ []SeesItsKey => []SearchTree
<1>1. TreeInv /\ SearchInv => SearchTree
  BY SearchTreeIs
<1> QED BY <1>1, SearchInvariant, TreeInvariant, PTL

(* Under the same condition no leaf contains a key twice (BTree.h:73).      *)
THEOREM KeysInOrder == Spec /\ []SeesItsKey => []KeysUnique
<1>1. TreeInv /\ SearchInv => KeysUnique
  BY KeysUniqueIs
<1> QED BY <1>1, SearchInvariant, TreeInvariant, PTL

(***************************************************************************)
(* One thread writes: it sees its key through keyIt, so that what was      *)
(* shown above under that condition holds without it.                      *)
(***************************************************************************)
(* What such an iterator finds. *)
LEMMA SightSees ==
  ASSUME TreeInv, NEW w \in Threads, OnlyWriter(w), SightInv(w)
  PROVE  SeesItsKey
<1> SUFFICES ASSUME NEW t \in Threads, pc[t] = "write", keyIndex[t] <= Here(t).size
             PROVE  IF HasKey(Here(t), Key(t)) THEN KeysAtIt(t) = {Key(t)}
                    ELSE Key(t) \notin KeysAtIt(t)
  BY DEF SeesItsKey, At
<1>1. PointsAt(t)
  BY DEF SightInv, SightOK
<1>2. ~FrameTaken(t)
  <2>1. ~taken[t]
    BY DEF SightInv
  <2>2. ASSUME NEW u \in Threads \ {t}, Evictions PROVE FALSE
    BY <2>2 DEF OnlyWriter
  <2> QED BY <2>1, <2>2 DEF FrameTaken
<1> DEFINE p == keyIt[t][1]
           i == keyIt[t][2]
           a == FirstArray(node[p])
           S == {r \in {p} : i \in DOMAIN FirstArray(node[r])}
<1>3. KeysAtIt(t) = {FirstArray(node[q])[i] : q \in S}
  BY <1>2 DEF KeysAtIt
<1>4. i \in DOMAIN a /\ a[i] = Here(t).keys[keyIndex[t]]
  BY <1>1 DEF PointsAt
<1>5. S = {p}
  BY <1>4
<1>6. HasKey(Here(t), Key(t)) <=> Here(t).keys[keyIndex[t]] = Key(t)
  BY IndexOfHeldKey
<1>7. KeysAtIt(t) = {Here(t).keys[keyIndex[t]]}
  <2> HIDE DEF S, i
  <2> QED BY <1>3, <1>4, <1>5
<1> QED BY <1>6, <1>7

(* A call does not bring in a second writer. *)
LEMMA CallAlone ==
  ASSUME TreeInv, NEW w \in Threads, OnlyWriter(w), SightInv(w), NEW t \in Threads,
         NEW n \in DOMAIN Operations[t], NEW c \in Operations[t][n], Call(t, c)
  PROVE  WritesAlone(w)' /\ calls' \in [Threads -> Nat]
<1>1. /\ ~Loading /\ calls' = [calls EXCEPT ![t] = calls[t] + 1] /\ pc[t] = "client"
      /\ call' = [call EXCEPT ![t] = c]
      /\ \E x : pc' = [pc EXCEPT ![t] = x]
  BY DEF Call, Begin, Go, At
<1>2. pc \in [Threads -> {"client", "header", "root", "descend", "inner", "leaf", "write"}]
      /\ DOMAIN call = Threads
  BY DEF TreeInv, LocalTypes
<1>3. calls \in [Threads -> Nat] /\ WritesAlone(w)
  BY DEF SightInv
<1>4. calls' \in [Threads -> Nat]
  BY <1>1, <1>3
<1>5. \A u \in Threads : pc[u] # "client" => calls[u] # 0
  BY <1>1 DEF Loading, At
<1>6. \A u \in Threads \ {t} : pc'[u] = pc[u] /\ call'[u] = call[u] /\ call'[t] = c
  BY <1>1, <1>2
<1>7. c.op # "find" => t = w
  BY DEF OnlyWriter
<1>8. ASSUME NEW u \in Threads, pc'[u] # "client", call'[u].op # "find" PROVE u = w
  <2>1. CASE u = t
    <3>1. call'[u] = c
      BY <1>1, <1>2, <2>1
    <3> QED BY <1>7, <1>8, <2>1, <3>1
  <2>2. CASE u # t
    BY <1>3, <1>5, <1>6, <1>8, <2>2 DEF WritesAlone
  <2> QED BY <2>1, <2>2
<1> QED BY <1>4, <1>8 DEF WritesAlone

(* What the other threads have seen does not change. *)
OthersSee(t) ==
  \A u \in Threads \ {t} : /\ pc'[u] = pc[u] /\ call'[u] = call[u]
                           /\ current'[u] = current[u]
                           /\ keyIt'[u] = keyIt[u] /\ keyIndex'[u] = keyIndex[u]

(* Steps after which nobody new is about to write. *)
LEMMA StaySight ==
  ASSUME TreeInv, NEW t \in Threads, \A u \in Threads : SightOK(u),
         pc'[t] # "write", OthersSee(t),
         (\E u \in Threads \ {t} : pc[u] = "write") => node' = node
  PROVE  \A u \in Threads : SightOK(u)'
<1> SUFFICES ASSUME NEW u \in Threads, pc'[u] = "write", (keyIndex[u] <= Here(u).size)'
             PROVE  PointsAt(u)'
  BY DEF SightOK
<1>1. /\ u # t /\ pc[u] = "write" /\ call'[u] = call[u] /\ current'[u] = current[u]
      /\ keyIt'[u] = keyIt[u] /\ keyIndex'[u] = keyIndex[u] /\ node' = node
  BY DEF OthersSee
<1>2. keyIndex[u] <= Here(u).size
  BY <1>1 DEF Here
<1>3. PointsAt(u)
  BY <1>1, <1>2 DEF SightOK
<1> QED BY <1>1, <1>3 DEF PointsAt, Here, Created

(* While one thread changes the tree no other is about to write. *)
LEMMA NobodyElseWrites ==
  ASSUME TreeInv, NEW w \in Threads, WritesAlone(w), NEW t \in Threads, pc[t] # "client",
         call[t].op # "find", NEW u \in Threads \ {t}
  PROVE  pc[u] # "write"
<1> SUFFICES ASSUME pc[u] = "write" PROVE FALSE
  OBVIOUS
<1>1. call[u].op = "insert"
  BY InCall DEF StartOK
<1> QED BY <1>1 DEF WritesAlone

(* When keyIt and keyIndex agree they lead to the same key, after a step. *)
LEMMA SightHere ==
  ASSUME TreeInv', NEW t \in Threads, pc'[t] = "write",
         keyIt'[t] = <<current'[t], keyIndex'[t]>>, (keyIndex[t] <= Here(t).size)'
  PROVE  PointsAt(t)'
<1> DEFINE n == node'[current'[t]]
           b == keyIndex'[t]
<1>1. current'[t] \in Created' /\ n.leaf
  BY DEF TreeInv, ThreadOK, CurrentOK
<1>2. n \in LeafType /\ b = LowerBound(n.keys, n.size, call'[t].key)
  BY <1>1 DEF TreeInv, PagesOK, NodeOK, InnerType, ThreadOK, WriteOK, Created
<1>3. b \in DOMAIN n.keys
  <2> DEFINE a == n.keys
             z == n.size
  <2>1. IsArray(a, LeafN) /\ z \in 0 .. LeafN /\ LeafN \in Nat /\ DOMAIN a = 1 .. LeafN
    BY <1>2, SizesAssumption DEF LeafType, IsArray
  <2>2. call'[t].key \in Nat
    BY KeysAssumption DEF TreeInv, ThreadOK, StartOK, CallType
  <2>3. b <= z /\ b = LowerBound(a, z, call'[t].key)
    BY <1>2 DEF Here
  <2> HIDE DEF a, z, b, n
  <2>4. b \in 1 .. z + 1
    BY <2>1, <2>2, <2>3, LowerBoundBounds
  <2>5. b \in DOMAIN a
    BY <2>1, <2>3, <2>4
  <2> QED BY <2>5 DEF a
<1>4. FirstArray(n) = n.keys
  BY <1>1 DEF FirstArray
<1>5. keyIt'[t][1] = current'[t] /\ keyIt'[t][2] = b
  OBVIOUS
<1> HIDE DEF b
<1>6. keyIndex'[t] = b
  BY DEF b
<1> QED BY <1>1, <1>3, <1>4, <1>5, <1>6 DEF PointsAt, Here

(* A leaf that is kept, and one that was split: the array of the old half   *)
(* still has, at the old index, what the new half has at the new one.       *)
LEMMA KeepLeafSight ==
  ASSUME TreeInv, TreeInv', NEW t \in Threads, KeepLeaf(t)
  PROVE  SightOK(t)'
<1>1. /\ keyIt' = [keyIt EXCEPT ![t] = <<current[t], IndexOfKey(t)>>]
      /\ keyIndex' = [keyIndex EXCEPT ![t] = IndexOfKey(t)] /\ current' = current
  BY DEF KeepLeaf, Searched
<1>2. DOMAIN keyIt = Threads /\ DOMAIN keyIndex = Threads
  BY DEF TreeInv, LocalTypes
<1>3. keyIt'[t] = <<current'[t], keyIndex'[t]>>
  BY <1>1, <1>2
<1> SUFFICES ASSUME pc'[t] = "write", (keyIndex[t] <= Here(t).size)' PROVE PointsAt(t)'
  BY DEF SightOK
<1> QED BY <1>3, SightHere

LEMMA SplitLeafSight ==
  ASSUME TreeInv, TreeInv', NEW t \in Threads, SplitLeaf(t)
  PROVE  SightOK(t)'
<1>0. pc[t] = "leaf" /\ call[t].op = "insert" /\ call' = call
  BY DEF SplitLeaf, AtLeaf, At, Op, client
<1> DEFINE q == current[t]
           n == node[q]
           b == LowerBound(n.keys, n.size, Key(t))
           j == IF Key(t) <= Pivot(n) THEN b ELSE b - LeftLeaf(n).size
<1>1. DOMAIN keyIt = Threads /\ DOMAIN keyIndex = Threads
  BY DEF TreeInv, LocalTypes
<1>2. keyIndex' = [keyIndex EXCEPT ![t] = j]
  BY DEF SplitLeaf, Searched, IndexOfKey, Here
<1>3. keyIndex'[t] = j
  <2> HIDE DEF j
  <2> QED BY <1>1, <1>2
<1> SUFFICES ASSUME pc'[t] = "write", (keyIndex[t] <= Here(t).size)' PROVE PointsAt(t)'
  BY DEF SightOK
<1>4. CASE q = Root
  <2>1. keyIt' = [keyIt EXCEPT ![t] = <<current'[t], j>>]
    BY <1>4 DEF SplitLeaf, Searched, IndexOfKey, Here, InRoot
  <2> HIDE DEF j
  <2>2. keyIt'[t] = <<current'[t], keyIndex'[t]>>
    BY <1>1, <1>3, <2>1
  <2> QED BY <2>2, SightHere
<1>5. CASE q # Root
  <2>1. SplitChild(t) /\ exclusiveMode[t]
    BY <1>5 DEF SplitLeaf, InRoot
  <2>2. keyIt' = [keyIt EXCEPT ![t] = <<q, b>>]
    BY <1>5 DEF SplitLeaf, Searched, IndexOfKey, Here, InRoot
  <2>3. keyIt'[t] = <<q, b>>
    <3> HIDE DEF b
    <3> QED BY <1>1, <2>2
  <2>4. /\ n \in LeafType /\ Sorted(n.keys, n.size) /\ n.leaf = TRUE /\ n.size = LeafN
        /\ LeafN \in Nat /\ q \in Created /\ DOMAIN n.keys = 1 .. LeafN /\ Key(t) \in Nat
    <3>1. Full(n) /\ n \in LeafType
      BY <1>0, AtLeafFacts DEF SplitLeaf, Here
    <3> QED BY <1>0, <3>1, AtLeafFacts DEF Full, LeafType
  <2>5. parent[t] # None /\ Full(n)
    BY <1>0, <1>5, <2>1, InCall DEF CurrentOK, SplitLeaf, Here
  <2>6. SplitDone(t)
    BY <1>0, <2>1, <2>5, SplitChildDone
  <2>7. Left(n) = LeftLeaf(n) /\ Right(n) = RightLeaf(n) /\ Pivot(n) = LeafPivot(n)
    BY <2>4 DEF Left, Right, Pivot
  <2>8. /\ LeftLeaf(n).keys = n.keys /\ LeftLeaf(n) \in LeafType
        /\ LeftLeaf(n).size = SplitIndex(n) /\ SplitIndex(n) \in 1 .. LeafN - 1
        /\ RightLeaf(n).size = LeafN - SplitIndex(n)
        /\ \A x \in 1 .. LeafN - SplitIndex(n) : RightLeaf(n).keys[x] = n.keys[SplitIndex(n) + x]
    BY <2>4, LeafHalves
  <2>9. node'[q] = LeftLeaf(n) /\ q \in Created'
    <3> DEFINE F == Fresh
    <3>1. node' = [p \in Created \cup {F} |->
                IF p = q THEN Left(n)
                ELSE IF p = F THEN Right(n)
                ELSE IF p = parent[t]
                THEN WithPivot(node[p], ChildIndex(node[parent[t]], Key(t)), Pivot(n), F)
                ELSE node[p]]
      BY <2>1 DEF SplitChild, Here
    <3> HIDE DEF F
    <3> QED BY <2>4, <2>7, <3>1 DEF Created
  <2> DEFINE m == node'[current'[t]]
             k == Key(t)
             s == SplitIndex(n)
  <2>10. m = IF k <= LeafPivot(n) THEN LeftLeaf(n) ELSE RightLeaf(n)
    BY <2>6, <2>7 DEF SplitDone, Here
  <2>11. j = LowerBound(m.keys, m.size, k)
    BY <2>4, <2>7, <2>10, PlaceInHalf
  <2>12. m \in LeafType /\ j \in 1 .. m.size
    <3>1. m \in LeafType
      BY <2>4, <2>8, <2>10, LeafHalves
    <3> DEFINE a == m.keys
               z == m.size
    <3>2. IsArray(a, LeafN) /\ z \in 0 .. LeafN
      BY <3>1 DEF LeafType, IsArray
    <3>3. j <= z
      BY <1>3 DEF Here
    <3>4. j = LowerBound(a, z, k)
      BY <2>11
    <3>5. m \in LeafType
      BY <3>1
    <3> HIDE DEF m, j, k, a, z
    <3>6. j \in 1 .. z
      BY <2>4, <3>2, <3>3, <3>4, LowerBoundBounds DEF k
    <3> QED BY <3>5, <3>6 DEF z
  <2>13. b \in DOMAIN n.keys /\ n.keys[b] = m.keys[j]
    <3>1. CASE k <= LeafPivot(n)
      <4>1. j = b /\ m.keys = n.keys /\ m.size = s
        BY <2>7, <2>8, <2>10, <3>1
      <4> DEFINE z == m.size
      <4>2. j \in 1 .. z /\ z = s /\ s \in 1 .. LeafN - 1
        BY <2>8, <2>12, <4>1
      <4> HIDE DEF j, b, m, s, z
      <4>3. j \in 1 .. LeafN
        BY <2>4, <4>2
      <4> QED BY <2>4, <4>1, <4>3
    <3>2. CASE ~(k <= LeafPivot(n))
      <4>1. m = RightLeaf(n) /\ j = b - s
        BY <2>7, <2>8, <2>10, <3>2
      <4>2. b \in Nat
        <5>1. b \in 1 .. LeafN + 1
          <6>1. IsArray(n.keys, LeafN) /\ LeafN \in 0 .. LeafN
            BY <2>4 DEF LeafType, IsArray
          <6> QED BY <2>4, <6>1, LowerBoundBounds
        <5> QED BY <2>4, <5>1
      <4>3. \A x \in 1 .. LeafN - s : m.keys[x] = n.keys[s + x]
        BY <2>8, <4>1
      <4> DEFINE z == m.size
      <4>4. j \in 1 .. z /\ z = LeafN - s /\ s \in 1 .. LeafN - 1
        BY <2>8, <2>12, <4>1
      <4> HIDE DEF j, b, m, s, k, z
      <4>5. j \in 1 .. LeafN - s /\ s + j = b /\ b \in 1 .. LeafN
        BY <2>4, <4>1, <4>2, <4>4
      <4>6. m.keys[j] = n.keys[s + j]
        BY <4>3, <4>5
      <4> QED BY <2>4, <4>5, <4>6
    <3> QED BY <3>1, <3>2
  <2>14. FirstArray(node'[q]) = n.keys
    BY <2>8, <2>9 DEF FirstArray, LeafType
  <2>15. keyIt'[t][1] = q /\ keyIt'[t][2] = b
    BY <2>3
  <2>16. (Here(t).keys[keyIndex[t]])' = m.keys[j]
    BY <1>3 DEF Here
  <2> HIDE DEF b, k, q, m, j
  <2> QED BY <2>9, <2>13, <2>14, <2>15, <2>16 DEF PointsAt
<1> QED BY <1>4, <1>5

(* A step of a thread in a call. *)
StepsOn(t) ==
  /\ OthersSee(t) /\ calls' = calls /\ pc[t] # "client"
  /\ pc'[t] = "client" \/ call'[t] = call[t]

(* What the steps of a call do to the fields the sight depends on. *)
LEMMA StepsOnFacts ==
  ASSUME TreeInv, NEW t \in Threads, Steps(t)
  PROVE  /\ StepsOn(t)
         /\ call[t].op = "find" => node' = node
         /\ pc'[t] = "write" => KeepLeaf(t) \/ SplitLeaf(t)
<1>1. /\ DOMAIN pc = Threads /\ DOMAIN call = Threads /\ DOMAIN current = Threads
      /\ DOMAIN keyIt = Threads /\ DOMAIN keyIndex = Threads
  BY DEF TreeInv, LocalTypes
<1>2. pc[t] # "client" => StartOK(t) /\ CurrentOK(t)
  BY InCall
<1>3. CASE ReadHeader(t)
  <2>1. /\ UNCHANGED <<node, call, calls, current, keyIt, keyIndex>> /\ pc[t] = "header"
        /\ pc' = [pc EXCEPT ![t] = "root"]
    BY <1>3 DEF ReadHeader, At, Go, tree, client, search
  <2> QED BY <1>1, <2>1 DEF StepsOn, OthersSee
<1>4. CASE PinRoot(t)
  <2>1. /\ UNCHANGED <<node, call, calls, keyIt, keyIndex>> /\ pc[t] = "root"
        /\ current' = [current EXCEPT ![t] = Root]
        /\ \E l \in {"leaf", "inner", "descend"} : pc' = [pc EXCEPT ![t] = l]
    BY <1>4 DEF PinRoot, At, Go, tree, client, search
  <2> QED BY <1>1, <2>1 DEF StepsOn, OthersSee
<1>5. CASE RepinRoot(t)
  <2>1. /\ UNCHANGED <<node, call, calls, current, keyIt, keyIndex>> /\ pc[t] = "leaf"
        /\ pc' = [pc EXCEPT ![t] = "root"]
    BY <1>5 DEF RepinRoot, At, Go, tree, client, search
  <2> QED BY <1>1, <2>1 DEF StepsOn, OthersSee
<1>6. CASE PinChild(t)
  <2>1. /\ UNCHANGED <<node, call, calls, keyIt, keyIndex>> /\ pc[t] = "descend"
        /\ \E x : current' = [current EXCEPT ![t] = x]
        /\ \E l \in {"leaf", "inner", "descend"} : pc' = [pc EXCEPT ![t] = l]
    BY <1>6 DEF PinChild, At, Go, tree, client, search
  <2> QED BY <1>1, <2>1 DEF StepsOn, OthersSee
<1>7. CASE Passes(t)
  <2>1. /\ UNCHANGED <<node, call, calls, current, keyIt, keyIndex>> /\ pc[t] = "inner"
        /\ pc' = [pc EXCEPT ![t] = "descend"]
    BY <1>7 DEF Passes, At, Go, tree, client, search
  <2> QED BY <1>1, <2>1 DEF StepsOn, OthersSee
<1>8. CASE SplitInner(t)
  <2>1. /\ UNCHANGED <<call, calls, keyIt, keyIndex>> /\ pc[t] = "inner"
        /\ pc' = [pc EXCEPT ![t] = "descend"]
        /\ \E x : current' = [current EXCEPT ![t] = x]
    BY <1>8 DEF SplitInner, At, Go, client, search, SplitRoot, SplitChild
  <2>2. call[t].op = "insert"
    BY <1>2, <2>1 DEF StartOK, CurrentOK
  <2> QED BY <1>1, <2>1, <2>2 DEF StepsOn, OthersSee
<1>9. CASE RetryExclusive(t)
  <2>1. /\ UNCHANGED <<node, call, calls, current, keyIt, keyIndex>> /\ pc[t] = "leaf"
        /\ pc' = [pc EXCEPT ![t] = "root"]
    BY <1>9 DEF RetryExclusive, AtLeaf, At, Go, tree, client, search
  <2> QED BY <1>1, <2>1 DEF StepsOn, OthersSee
<1>10. CASE KeepLeaf(t)
  <2>1. /\ UNCHANGED <<node, call, calls, current>> /\ pc[t] = "leaf"
        /\ \E x : keyIt' = [keyIt EXCEPT ![t] = x]
        /\ \E x : keyIndex' = [keyIndex EXCEPT ![t] = x]
        /\ pc' = [pc EXCEPT ![t] = "write"]
    BY <1>10 DEF KeepLeaf, Searched, AtLeaf, At, Go, tree, client
  <2> QED BY <1>1, <1>10, <2>1 DEF StepsOn, OthersSee
<1>11. CASE SplitLeaf(t)
  <2>1. /\ UNCHANGED <<call, calls>> /\ pc[t] = "leaf" /\ call[t].op = "insert"
        /\ \E x : keyIt' = [keyIt EXCEPT ![t] = x]
        /\ \E x : keyIndex' = [keyIndex EXCEPT ![t] = x]
        /\ \E x : current' = [current EXCEPT ![t] = x]
        /\ pc' = [pc EXCEPT ![t] = "write"]
    BY <1>11 DEF SplitLeaf, Searched, AtLeaf, At, Go, Op, client, SplitRoot, SplitChild
  <2> QED BY <1>1, <1>11, <2>1 DEF StepsOn, OthersSee
<1>12. ASSUME NEW r, Answer(t, r), pc[t] # "client" PROVE StepsOn(t) /\ pc'[t] = "client"
  <2>1. /\ call' = [call EXCEPT ![t] = None] /\ current' = [current EXCEPT ![t] = None]
        /\ keyIt' = [keyIt EXCEPT ![t] = None] /\ calls' = calls
        /\ keyIndex' = [keyIndex EXCEPT ![t] = None]
        /\ pc' = [pc EXCEPT ![t] = "client"]
    BY <1>12 DEF Answer, Go
  <2> QED BY <1>1, <1>12, <2>1 DEF StepsOn, OthersSee
<1>13. CASE Overwrite(t) \/ Add(t)
  <2>1. pc[t] = "write" /\ Answer(t, None)
    BY <1>13 DEF Overwrite, Add, At
  <2>2. call[t].op = "insert"
    BY <1>2, <2>1 DEF StartOK
  <2> QED BY <1>12, <2>1, <2>2
<1>14. CASE UpdateLeaf(t) \/ EraseLeaf(t)
  <2>1. pc[t] = "leaf" /\ Answer(t, None) /\ call[t].op # "find"
    BY <1>14 DEF UpdateLeaf, EraseLeaf, AtUnique, At, Op
  <2> QED BY <1>12, <2>1
<1>15. CASE FindLeaf(t)
  <2>1. /\ pc[t] = "leaf" /\ node' = node
        /\ Answer(t, ValueIn(Here(t), Key(t)))
    BY <1>15 DEF FindLeaf, At, tree
  <2> QED BY <1>12, <2>1
<1> QED BY <1>3, <1>4, <1>5, <1>6, <1>7, <1>8, <1>9, <1>10, <1>11, <1>13, <1>14, <1>15 DEF Steps

(* Nobody takes a frame from one writer. *)
LEMMA NothingTaken ==
  ASSUME TreeInv, TreeInv', NEW w \in Threads, OnlyWriter(w), \A u \in Threads : ~taken[u],
         NEW t \in Threads, Steps(t)
  PROVE  \A u \in Threads : ~taken'[u]
<1>1. taken \in [Threads -> BOOLEAN] /\ taken' \in [Threads -> BOOLEAN]
  BY DEF TreeInv, LocalTypes
<1>2. ASSUME NEW p, TakesFrame(t, p) PROVE \A u \in Threads : ~taken'[u]
  <2> SUFFICES ASSUME NEW u \in Threads, taken'[u] PROVE FALSE
    OBVIOUS
  <2>1. u # t /\ Evictions
    BY <1>2 DEF TakesFrame
  <2> QED BY <2>1 DEF OnlyWriter
<1>3. ASSUME taken' = taken PROVE \A u \in Threads : ~taken'[u]
  BY <1>3
<1>4. ASSUME NEW x, Answer(t, x) PROVE \A u \in Threads : ~taken'[u]
  <2>1. taken' = [taken EXCEPT ![t] = FALSE]
    BY <1>4 DEF Answer
  <2> QED BY <1>1, <2>1
<1>5. CASE ReadHeader(t) \/ RepinRoot(t) \/ Passes(t) \/ RetryExclusive(t) \/ KeepLeaf(t)
  <2>1. taken' = taken
    BY <1>5 DEF ReadHeader, RepinRoot, Passes, RetryExclusive, KeepLeaf, search
  <2> QED BY <1>3, <2>1
<1>6. CASE PinRoot(t) \/ PinChild(t) \/ SplitInner(t) \/ SplitLeaf(t)
  <2>1. \E p : TakesFrame(t, p)
    BY <1>6 DEF PinRoot, PinChild, SplitInner, SplitLeaf, SplitRoot, SplitChild
  <2> QED BY <1>2, <2>1
<1>7. CASE Overwrite(t) \/ Add(t) \/ UpdateLeaf(t) \/ EraseLeaf(t) \/ FindLeaf(t)
  <2>1. \E x : Answer(t, x)
    BY <1>7 DEF Overwrite, Add, UpdateLeaf, EraseLeaf, FindLeaf
  <2> QED BY <1>4, <2>1
<1> QED BY <1>5, <1>6, <1>7 DEF Steps

(* The invariant of one writer, step by step. *)
LEMMA StepsSight ==
  ASSUME TreeInv, TreeInv', NEW w \in Threads, OnlyWriter(w), SightInv(w),
         NEW t \in Threads, Steps(t)
  PROVE  SightInv(w)'
<1>1. /\ StepsOn(t) /\ (call[t].op = "find" => node' = node)
      /\ (pc'[t] = "write" => KeepLeaf(t) \/ SplitLeaf(t))
  BY StepsOnFacts
<1>2. calls \in [Threads -> Nat] /\ WritesAlone(w) /\ \A u \in Threads : SightOK(u)
  BY DEF SightInv
<1>3. WritesAlone(w)'
  BY <1>1, <1>2 DEF WritesAlone, StepsOn, OthersSee
<1>4. \A u \in Threads \ {t} : call[t].op # "find" => pc[u] # "write"
  BY <1>1, <1>2, NobodyElseWrites DEF StepsOn
<1>5. \A u \in Threads : SightOK(u)'
  <2>1. CASE pc'[t] = "write"
    <3>1. SightOK(t)'
      BY <1>1, <2>1, KeepLeafSight, SplitLeafSight
    <3>2. call[t].op # "find"
      BY <1>1, <2>1 DEF KeepLeaf, SplitLeaf, AtLeaf, Op
    <3>3. ASSUME NEW u \in Threads \ {t} PROVE SightOK(u)'
      BY <1>1, <1>4, <3>2 DEF SightOK, StepsOn, OthersSee
    <3> QED BY <3>1, <3>3
  <2>2. CASE pc'[t] # "write"
    <3>1. (\E u \in Threads \ {t} : pc[u] = "write") => node' = node
      BY <1>1, <1>4
    <3> QED BY <1>1, <1>2, <2>2, <3>1, StaySight DEF StepsOn
  <2> QED BY <2>1, <2>2
<1>6. \A u \in Threads : ~taken'[u]
  BY NothingTaken DEF SightInv
<1> QED BY <1>1, <1>2, <1>3, <1>5, <1>6 DEF SightInv, StepsOn

LEMMA BeginSight ==
  ASSUME TreeInv, NEW t \in Threads, NEW c, Begin(t, c), \A u \in Threads : SightOK(u)
  PROVE  taken' = taken /\ \A u \in Threads : SightOK(u)'
<1>1. /\ DOMAIN pc = Threads /\ DOMAIN call = Threads
  BY DEF TreeInv, LocalTypes
<1>2. /\ call' = [call EXCEPT ![t] = c] /\ UNCHANGED <<node, current, keyIt, keyIndex, taken>>
      /\ \E l \in {"header", "root"} : pc' = [pc EXCEPT ![t] = l]
  BY DEF Begin, Go, tree, search
<1>3. DOMAIN keyIndex = Threads /\ pc'[t] # "write" /\ OthersSee(t)
  BY <1>1, <1>2 DEF TreeInv, LocalTypes, OthersSee
<1> QED BY <1>2, <1>3, StaySight

LEMMA LoadSight ==
  ASSUME TreeInv, NEW w \in Threads, SightInv(w), NEW t \in Threads, Load(t)
  PROVE  SightInv(w)'
<1>1. /\ \A u \in Threads : pc[u] = "client" /\ calls[u] = 0
      /\ calls' = calls /\ \E c : Begin(t, c)
  BY DEF Load, At
<1>2. \E l \in {"header", "root"} : pc' = [pc EXCEPT ![t] = l]
  BY <1>1 DEF Begin, Go
<1>3. DOMAIN pc = Threads
  BY DEF TreeInv, LocalTypes
<1>4. \A u \in Threads \ {t} : pc'[u] = "client"
  BY <1>1, <1>2, <1>3
<1>5. WritesAlone(w)'
  BY <1>1, <1>4 DEF WritesAlone
<1> QED BY <1>1, <1>5, BeginSight DEF SightInv

LEMMA SightNext ==
  ASSUME TreeInv, TreeInv', NEW w \in Threads, OnlyWriter(w), SightInv(w), [Next]_vars
  PROVE  SightInv(w)'
<1>1. ASSUME UNCHANGED <<node, locals, call, calls>> PROVE SightInv(w)'
  <2>1. UNCHANGED <<node, pc, current, keyIt, keyIndex, taken, call, calls>>
    BY <1>1 DEF locals, search
  <2> QED BY <2>1 DEF SightInv, WritesAlone, SightOK, PointsAt, Here, Key, Created, HasKey
<1>2. CASE Close
  BY <1>1, <1>2 DEF Close, client
<1>3. CASE Reopen
  BY <1>1, <1>3 DEF Reopen, client
<1>4. CASE UNCHANGED vars
  BY <1>1, <1>4 DEF vars, tree, client
<1>5. ASSUME NEW t \in Threads, Steps(t) PROVE SightInv(w)'
  BY <1>5, StepsSight
<1>6. ASSUME NEW t \in Threads, Load(t) PROVE SightInv(w)'
  BY <1>6, LoadSight
<1>7. ASSUME NEW t \in Threads, NEW n \in DOMAIN Operations[t],
             NEW c \in Operations[t][n], Call(t, c)
      PROVE  SightInv(w)'
  <2>1. WritesAlone(w)' /\ calls' \in [Threads -> Nat]
    BY <1>7, CallAlone
  <2>2. Begin(t, c) /\ \A u \in Threads : SightOK(u)
    BY <1>7 DEF Call, SightInv
  <2> QED BY <2>1, <2>2, BeginSight DEF SightInv
<1> QED BY <1>2, <1>3, <1>4, <1>5, <1>6, <1>7 DEF Next

LEMMA SightInit == ASSUME Init, NEW w \in Threads PROVE SightInv(w)
BY DEF Init, SightInv, WritesAlone, SightOK

(* With one thread that inserts, updates and erases, and others that only   *)
(* find, keyIt still leads to the key when it is read, also after the page  *)
(* it points into was split and released: nobody has changed that page, and *)
(* nobody loads another one over it, for there are no evictions unless the  *)
(* writer is alone.                                                         *)
THEOREM SingleWriterSees ==
  ASSUME NEW w \in Threads, OnlyWriter(w)
  PROVE  Spec => []SeesItsKey
<1>1. Init => SightInv(w)
  BY SightInit
<1>2. TreeInv /\ TreeInv' /\ SightInv(w) /\ [Next]_vars => SightInv(w)'
  BY SightNext
<1>3. TreeInv /\ SightInv(w) => SeesItsKey
  BY SightSees
<1> QED BY <1>1, <1>2, <1>3, TreeInvariant, PTL DEF Spec

(* For a single writer the tree is a search tree whose leaves contain no    *)
(* key twice, whatever it does and however many threads read meanwhile.     *)
THEOREM SingleWriterTree ==
  ASSUME NEW w \in Threads, OnlyWriter(w)
  PROVE  Spec => []SearchTree /\ []KeysUnique
<1>1. Spec => []SeesItsKey
  BY SingleWriterSees
<1> QED BY <1>1, IsSearchTree, KeysInOrder, PTL

(***************************************************************************)
(* The tree as a map.  A search for a key comes to one leaf, LeafFor, from  *)
(* every page at which the key is at home; so a key is in that leaf or     *)
(* nowhere, and a step changes the value of a key only by changing it      *)
(* there.                                                                  *)
(***************************************************************************)
(* Every nonempty finite set of numbers has a greatest element. *)
LEMMA GreatestNat ==
  ASSUME NEW S, S \subseteq Nat, S # {}, IsFiniteSet(S)
  PROVE  \E x \in S : \A y \in S : y <= x
<1> DEFINE From(x) == {y \in S : x <= y}
           T == {From(x) : x \in S}
<1>1. \A x \in S : IsFiniteSet(From(x)) /\ From(x) \in SUBSET S
  BY FS_Subset
<1>2. T \subseteq FiniteSubsetsOf(S) /\ T # {}
  <2> HIDE DEF From
  <2> QED BY <1>1 DEF FiniteSubsetsOf
<1>3. PICK a \in T : \A b \in T : ~(<<b, a>> \in StrictSubsetOrdering(S))
  <2> HIDE DEF T
  <2> QED BY <1>2, FS_StrictSubsetOrderingWellFounded, WFMin
<1>4. PICK x \in S : a = From(x)
  OBVIOUS
<1>5. ASSUME NEW y \in S, x < y PROVE FALSE
  <2>1. From(y) \in T
    OBVIOUS
  <2>2. From(y) \subseteq From(x) /\ x \notin From(y) /\ x \in From(x)
    <3>1. x \in Nat /\ y \in Nat /\ S \subseteq Nat
      OBVIOUS
    <3>2. \A z \in S : y <= z => x <= z
      BY <1>5, <3>1
    <3>3. ~(y <= x) /\ x <= x
      BY <1>5, <3>1
    <3> QED BY <3>2, <3>3
  <2>3. <<From(y), a>> \in (SUBSET S) \X (SUBSET S)
    BY <1>1, <1>4
  <2>4. <<From(y), a>> \in StrictSubsetOrdering(S)
    BY <1>4, <2>2, <2>3 DEF StrictSubsetOrdering
  <2> HIDE DEF From, T
  <2> QED BY <1>3, <2>1, <2>4
<1> QED BY <1>5

(* The child a search for a key goes to, and where it is. *)
LEMMA DownOne ==
  ASSUME TreeInv, NEW height, HeightsOK(height), NEW p \in Created, ~node[p].leaf, NEW k \in Nat
  PROVE  /\ ChildOf(node[p], k) \in Created /\ height[ChildOf(node[p], k)] + 1 = height[p]
         /\ height[ChildOf(node[p], k)] \in Nat
<1> DEFINE n == node[p]
           i == ChildIndex(n, k)
<1>1. n \in InnerType /\ ChildrenIn(n, Created \ {Root})
  BY DEF TreeInv, PagesOK, NodeOK, LeafType
<1>2. i \in 1 .. n.size + 1
  <2> DEFINE a == n.pivots
             z == n.size
  <2>1. IsArray(a, InnerN) /\ z \in 1 .. InnerN /\ InnerN \in Nat
    BY <1>1, SizesAssumption DEF InnerType, IsArray
  <2>2. i = LowerBound(a, z, k)
    BY DEF ChildIndex
  <2> HIDE DEF a, z, i
  <2>3. z \in 0 .. InnerN
    BY <2>1
  <2>4. LowerBound(a, z, k) \in 1 .. z + 1
    BY <2>1, <2>3, LowerBoundBounds
  <2> QED BY <2>2, <2>4 DEF z
<1>3. ChildOf(n, k) = n.children[i]
  BY DEF ChildOf
<1>4. n.children[i] \in Created
  BY <1>1, <1>2 DEF ChildrenIn
<1>5. NodeLevel(n, height[p], height) /\ height \in [Created -> Nat]
  BY DEF HeightsOK
<1>6. height[n.children[i]] + 1 = height[p]
  BY <1>2, <1>5 DEF NodeLevel
<1> HIDE DEF n, i
<1> QED BY <1>3, <1>4, <1>5, <1>6 DEF n

(* The leaf a search for a key comes to, from every page. *)
Leads(h, k) ==
  /\ h \in [Created -> Created]
  /\ \A p \in Created : h[p] = IF node[p].leaf THEN p ELSE h[ChildOf(node[p], k)]
LEMMA PathExists ==
  ASSUME TreeInv, NEW height, HeightsOK(height), NEW k \in Nat
  PROVE  \E h : Leads(h, k)
<1> DEFINE top == {p \in Created : node[p].leaf}
           own == [p \in Created |-> IF node[p].leaf THEN {p} ELSE {}]
           kids == [p \in Created |-> IF node[p].leaf THEN {} ELSE {ChildOf(node[p], k)}]
<1>1. \A p \in Created : ~node[p].leaf => ChildOf(node[p], k) \in Created
  BY DownOne
<1>2. Graph(Created, Created, top, own, kids)
  BY <1>1 DEF Graph
<1>3. PICK g \in [Created -> SUBSET Created] :
             \A p \in Created : g[p] = Joined(p, g, top, own, kids)
  <2> HIDE DEF top, own, kids
  <2> QED BY <1>2, LeastUnion
<1>4. \A p \in Created : g[p] = IF node[p].leaf THEN {p} ELSE g[ChildOf(node[p], k)]
  <2> SUFFICES ASSUME NEW p \in Created
               PROVE  g[p] = IF node[p].leaf THEN {p} ELSE g[ChildOf(node[p], k)]
    OBVIOUS
  <2>1. g[p] = IF p \in top THEN own[p] ELSE UNION {g[q] : q \in kids[p]}
    <3> HIDE DEF top, own, kids
    <3> QED BY <1>3 DEF Joined
  <2>2. (p \in top <=> node[p].leaf) /\ (node[p].leaf => own[p] = {p})
        /\ (~node[p].leaf => kids[p] = {ChildOf(node[p], k)})
    OBVIOUS
  <2> HIDE DEF top, own, kids
  <2>3. UNION {g[q] : q \in {ChildOf(node[p], k)}} = g[ChildOf(node[p], k)]
    OBVIOUS
  <2> QED BY <2>1, <2>2, <2>3
<1>5. ASSUME NEW p \in Created, \A c \in Created : g[p] # {c} PROVE FALSE
  <2> DEFINE Wrong == {q \in Created : \A c \in Created : g[q] # {c}}
             S == {height[q] : q \in Wrong}
  <2>1. S \subseteq Nat /\ S # {}
    BY <1>5 DEF HeightsOK
  <2>2. PICK x \in S : \A y \in S : x <= y
    <3> HIDE DEF S
    <3> QED BY <2>1, LeastNat
  <2>3. PICK q \in Wrong : x = height[q]
    OBVIOUS
  <2>4. ~node[q].leaf
    BY <1>4
  <2> DEFINE d == ChildOf(node[q], k)
  <2>5. d \in Created /\ height[d] + 1 = height[q] /\ height[d] \in Nat
    BY <2>4, DownOne
  <2>6. g[d] = g[q]
    BY <1>4, <2>4
  <2> HIDE DEF d
  <2>8. d \in Wrong
    BY <2>5, <2>6
  <2> HIDE DEF Wrong
  <2>7. height[d] \in S
    BY <2>8
  <2> QED BY <2>2, <2>3, <2>5, <2>7
<1> DEFINE h == [p \in Created |-> CHOOSE c \in Created : g[p] = {c}]
<1>6. \A p \in Created : h[p] \in Created /\ g[p] = {h[p]}
  BY <1>5
<1>7. h \in [Created -> Created]
  <2>1. h = [p \in Created |-> h[p]]
    OBVIOUS
  <2> HIDE DEF h
  <2> QED BY <1>6, <2>1
<1> HIDE DEF h, top, own, kids
<1>8. \A p \in Created : h[p] = IF node[p].leaf THEN p ELSE h[ChildOf(node[p], k)]
  <2> SUFFICES ASSUME NEW p \in Created
               PROVE  h[p] = IF node[p].leaf THEN p ELSE h[ChildOf(node[p], k)]
    OBVIOUS
  <2>1. CASE node[p].leaf
    BY <1>4, <1>6, <2>1
  <2>2. CASE ~node[p].leaf
    <3>1. {h[p]} = {h[ChildOf(node[p], k)]}
      BY <1>1, <1>4, <1>6, <2>2
    <3> QED BY <2>2, <3>1
  <2> QED BY <2>1, <2>2
<1> QED BY <1>7, <1>8 DEF Leads

(* LeafFor meets its definition. *)
LEMMA LeafForIs ==
  ASSUME TreeInv, NEW height, HeightsOK(height)
  PROVE  \A p \in Created : \A k \in Nat :
           LeafFor[p][k] = IF node[p].leaf THEN p ELSE LeafFor[ChildOf(node[p], k)][k]
<1> DEFINE F(k) == CHOOSE h : Leads(h, k)
           f == [p \in Created |-> [k \in Nat |-> F(k)[p]]]
<1>1. \A k \in Nat : Leads(F(k), k)
  BY PathExists
<1>2. \A p \in Created : \A k \in Nat :
        F(k)[p] = IF node[p].leaf THEN p ELSE F(k)[ChildOf(node[p], k)]
  <2> HIDE DEF F
  <2> QED BY <1>1 DEF Leads
<1>3. \A p \in Created : \A k \in Nat : ~node[p].leaf => ChildOf(node[p], k) \in Created
  BY DownOne
<1> HIDE DEF F
<1>4. f = [p \in Created |-> [k \in Nat |->
             IF node[p].leaf THEN p ELSE f[ChildOf(node[p], k)][k]]]
  <2>1. \A p \in Created : \A k \in Nat : f[p][k] = F(k)[p]
    OBVIOUS
  <2> HIDE DEF f
  <2>2. \A p \in Created : \A k \in Nat :
          F(k)[p] = IF node[p].leaf THEN p ELSE f[ChildOf(node[p], k)][k]
    BY <1>2, <1>3, <2>1
  <2>3. [p \in Created |-> [k \in Nat |-> F(k)[p]]]
          = [p \in Created |-> [k \in Nat |->
               IF node[p].leaf THEN p ELSE f[ChildOf(node[p], k)][k]]]
    BY <2>2, SMTT(30)
  <2> QED BY <2>3 DEF f
<1> HIDE DEF f
<1>5. LeafFor = [p \in Created |-> [k \in Nat |->
             IF node[p].leaf THEN p ELSE LeafFor[ChildOf(node[p], k)][k]]]
  BY <1>4 DEF LeafFor
<1> QED BY <1>5

(* It is a leaf. *)
LEMMA LeafForLeaf ==
  ASSUME TreeInv, NEW height, HeightsOK(height), NEW p \in Created, NEW k \in Nat
  PROVE  LeafFor[p][k] \in Created /\ node[LeafFor[p][k]].leaf
<1> DEFINE Good(q) == LeafFor[q][k] \in Created /\ node[LeafFor[q][k]].leaf
           Wrong == {q \in Created : ~Good(q)}
           S == {height[q] : q \in Wrong}
<1>1. SUFFICES ASSUME p \in Wrong PROVE FALSE
  OBVIOUS
<1>2. S \subseteq Nat /\ S # {}
  <2> HIDE DEF Good
  <2> QED BY <1>1 DEF HeightsOK
<1>3. PICK x \in S : \A y \in S : x <= y
  <2> HIDE DEF S
  <2> QED BY <1>2, LeastNat
<1>4. PICK q \in Wrong : x = height[q]
  OBVIOUS
<1>5. ~node[q].leaf
  BY <1>4, LeafForIs
<1> DEFINE d == ChildOf(node[q], k)
<1>6. d \in Created /\ height[d] + 1 = height[q] /\ height[d] \in Nat
  BY <1>5, DownOne
<1>7. LeafFor[d][k] = LeafFor[q][k]
  BY <1>5, LeafForIs
<1> HIDE DEF d
<1>8. d \in Wrong
  BY <1>4, <1>6, <1>7
<1> HIDE DEF Wrong
<1>9. height[d] \in S
  BY <1>8
<1> HIDE DEF S
<1> QED BY <1>3, <1>4, <1>6, <1>9

(* From the root a search comes to every page at which its key is at home. *)
LEMMA HomeOnPath ==
  ASSUME TreeInv, ParentsOK, NEW height, HeightsOK(height), NEW home, HomesOK(home),
         NEW k \in Nat, NEW p \in Created, k \in home[p]
  PROVE  LeafFor[Root][k] = LeafFor[p][k]
<1> DEFINE Wrong == {q \in Created : k \in home[q] /\ LeafFor[q][k] # LeafFor[Root][k]}
           S == {height[q] : q \in Wrong}
<1>1. SUFFICES ASSUME p \in Wrong PROVE FALSE
  OBVIOUS
<1>2. S \subseteq Nat /\ S # {}
  BY <1>1 DEF HeightsOK
<1>3. IsFiniteSet(S)
  <2>1. IsFiniteSet(Created)
    <3>1. Created = 1 .. Cardinality(Created) /\ Cardinality(Created) \in Int
      BY PagesAssumption DEF TreeInv, PagesOK
    <3> QED BY <3>1, FS_Interval
  <2>2. IsFiniteSet(Wrong)
    BY <2>1, FS_Subset
  <2> DEFINE g == [q \in Wrong |-> height[q]]
  <2>3. g \in Surjection(Wrong, S)
    BY DEF Surjection
  <2> HIDE DEF Wrong, S, g
  <2> QED BY <2>2, <2>3, FS_Surjection
<1>4. PICK x \in S : \A y \in S : y <= x
  <2> HIDE DEF S
  <2> QED BY <1>2, <1>3, GreatestNat
<1>5. PICK c \in Wrong : x = height[c]
  OBVIOUS
<1>6. c \in Created \ {Root}
  OBVIOUS
<1>7. PICK q \in Created : \E i \in Places : ChildAt(node[q], i, c)
  BY <1>6 DEF ParentsOK
<1>8. PICK i \in Places : ChildAt(node[q], i, c)
  BY <1>7
<1>9. ~node[q].leaf /\ i \in 1 .. node[q].size + 1 /\ c = node[q].children[i]
  BY <1>8 DEF ChildAt
<1>10. home[c] = {j \in home[q] : ChildIndex(node[q], j) = i}
  <2>1. NodeOrdered(node[q], home[q], home)
    BY DEF HomesOK
  <2> QED BY <1>9, <2>1 DEF NodeOrdered
<1>11. k \in home[q] /\ c = ChildOf(node[q], k)
  BY <1>9, <1>10 DEF ChildOf
<1>12. LeafFor[q][k] = LeafFor[c][k]
  BY <1>9, <1>11, LeafForIs
<1>13. height[c] + 1 = height[q] /\ height[c] \in Nat
  BY <1>9, <1>11, DownOne
<1>14. q \in Wrong
  BY <1>11, <1>12
<1> HIDE DEF Wrong
<1>15. height[q] \in S
  BY <1>14
<1> HIDE DEF S
<1> QED BY <1>4, <1>5, <1>13, <1>15

(* A key is in one leaf only, in that a search for it comes to; and so does *)
(* every thread.                                                            *)
FindsLeaf ==
  \A k \in Nat :
    /\ LeafFor[Root][k] \in Created /\ node[LeafFor[Root][k]].leaf
    /\ \A p \in Created : node[p].leaf /\ HasKey(node[p], k) => p = LeafFor[Root][k]
Arrives ==
  \A t \in Threads : pc[t] \in {"leaf", "write"} => current[t] = LeafFor[Root][Key(t)]
LEMMA SearchFinds ==
  ASSUME TreeInv, SearchInv
  PROVE  FindsLeaf /\ Arrives
<1>1. PICK home : HomesAndPlaces(home)
  BY HomeExists
<1>2. PICK height : HeightsOK(height)
  BY DEF SearchInv, LevelsOK
<1>3. ParentsOK /\ HomesOK(home) /\ Root \in Created
  BY <1>1, RootCreated DEF SearchInv, HomesAndPlaces
<1>4. ASSUME NEW k \in Nat, NEW p \in Created, node[p].leaf, k \in home[p]
      PROVE  p = LeafFor[Root][k]
  <2>1. LeafFor[Root][k] = LeafFor[p][k]
    BY <1>2, <1>3, <1>4, HomeOnPath
  <2>2. LeafFor[p][k] = p
    BY <1>2, <1>4, LeafForIs
  <2> QED BY <2>1, <2>2
<1>5. ASSUME NEW k \in Nat, NEW p \in Created, node[p].leaf, HasKey(node[p], k)
      PROVE  k \in home[p]
  <2>1. NodeOrdered(node[p], home[p], home) /\ node[p] \in LeafType
    BY <1>3, <1>5 DEF HomesOK, TreeInv, PagesOK, NodeOK, InnerType
  <2> DEFINE n == node[p]
             b == LowerBound(n.keys, n.size, k)
  <2>2. b \in DOMAIN n.keys /\ b <= n.size /\ n.keys[b] = k
    BY <1>5 DEF HasKey, Contains
  <2>3. n.size \in 0 .. LeafN /\ DOMAIN n.keys = 1 .. LeafN /\ LeafN \in Nat
    BY <2>1, SizesAssumption DEF LeafType
  <2> DEFINE z == n.size
  <2>4. b \in 1 .. z
    <3>1. b \in 1 .. LeafN /\ b <= z /\ z \in 0 .. LeafN
      BY <2>2, <2>3
    <3> HIDE DEF b, z
    <3> QED BY <2>3, <3>1
  <2>5. \A i \in 1 .. n.size : n.keys[i] \in home[p]
    BY <1>5, <2>1 DEF NodeOrdered
  <2> HIDE DEF b, n
  <2> QED BY <2>2, <2>4, <2>5
<1>6. ASSUME NEW t \in Threads, pc[t] \in {"leaf", "write"}
      PROVE  current[t] = LeafFor[Root][Key(t)]
  <2>1. current[t] \in Created /\ node[current[t]].leaf /\ Key(t) \in Nat
    BY <1>6, InCall DEF CurrentOK
  <2>2. Key(t) \in home[current[t]]
    BY <1>1, <1>6 DEF HomesAndPlaces, PlaceOK, InNode
  <2> QED BY <1>4, <2>1, <2>2
<1>7. \A k \in Nat : LeafFor[Root][k] \in Created /\ node[LeafFor[Root][k]].leaf
  BY <1>2, <1>3, LeafForLeaf
<1> QED BY <1>4, <1>5, <1>6, <1>7 DEF FindsLeaf, Arrives

(***************************************************************************)
(* The pairs of a leaf.                                                    *)
(***************************************************************************)
PairAt(a, w, z, k, v) == \E i \in 1 .. z : a[i] = k /\ w[i] = v
PairIn(n, k, v) == PairAt(n.keys, n.values, n.size, k, v)

(* A search in a leaf finds the pair of the key. *)
LEMMA FindsPair ==
  ASSUME NEW N \in Nat, NEW a, IsArray(a, N), NEW w, NEW z \in 0 .. N, NEW k \in Nat,
         Strict(a, z)
  PROVE  /\ Contains(a, z, k) => PairAt(a, w, z, k, w[LowerBound(a, z, k)])
         /\ \A v : PairAt(a, w, z, k, v) => Contains(a, z, k) /\ w[LowerBound(a, z, k)] = v
<1> DEFINE b == LowerBound(a, z, k)
<1>1. b \in 1 .. z + 1 /\ Sorted(a, z) /\ DOMAIN a = 1 .. N
  BY LowerBoundBounds, StrictSorted DEF IsArray
<1>2. \A i \in 1 .. z : i < b <=> a[i] < k
  BY <1>1, LowerBoundSorted
<1>3. Contains(a, z, k) <=> b \in 1 .. N /\ b <= z /\ a[b] = k
  BY <1>1 DEF Contains
<1> HIDE DEF b
<1>4. Contains(a, z, k) => PairAt(a, w, z, k, w[b])
  <2> SUFFICES ASSUME Contains(a, z, k) PROVE PairAt(a, w, z, k, w[b])
    OBVIOUS
  <2>1. b \in 1 .. z /\ a[b] = k
    BY <1>1, <1>3
  <2> QED BY <2>1 DEF PairAt
<1>5. ASSUME NEW v, PairAt(a, w, z, k, v) PROVE Contains(a, z, k) /\ w[b] = v
  <2>1. PICK i \in 1 .. z : a[i] = k /\ w[i] = v
    BY <1>5 DEF PairAt
  <2>2. ~(a[i] < k)
    BY <2>1
  <2>3. b <= i /\ b \in 1 .. z
    BY <1>1, <1>2, <2>2
  <2>4. ~(a[b] < k) /\ a[b] \in Nat /\ a[i] \in Nat
    <3>1. ~(a[b] < k)
      BY <1>2, <2>3
    <3>2. b \in 1 .. N /\ i \in 1 .. N
      BY <2>3
    <3> QED BY <3>1, <3>2 DEF IsArray
  <2>5. ~(b < i)
    BY <2>1, <2>3, <2>4 DEF Strict
  <2>6. b = i
    BY <2>3, <2>5
  <2> QED BY <1>3, <2>1, <2>3, <2>6
<1> QED BY <1>4, <1>5 DEF b

LEMMA PairsInsert ==
  ASSUME NEW N \in Nat, NEW a, IsArray(a, N), NEW w, IsArray(w, N), NEW z \in 0 .. N - 1,
         NEW b \in 1 .. z + 1, NEW k, NEW x, NEW j, NEW v
  PROVE  PairAt(InsertAt(a, z, b, k), InsertAt(w, z, b, x), z + 1, j, v)
           <=> PairAt(a, w, z, j, v) \/ (j = k /\ v = x)
<1> DEFINE c == InsertAt(a, z, b, k)
           u == InsertAt(w, z, b, x)
<1>1. DOMAIN a = 1 .. N /\ DOMAIN w = 1 .. N
  BY DEF IsArray
<1>2. \A i \in 1 .. z + 1 :
        /\ c[i] = IF i < b THEN a[i] ELSE IF i = b THEN k ELSE a[i - 1]
        /\ u[i] = IF i < b THEN w[i] ELSE IF i = b THEN x ELSE w[i - 1]
  <2>1. \A i \in 1 .. z + 1 : i \in 1 .. N /\ ~(i > z + 1)
    OBVIOUS
  <2> QED BY <1>1, <2>1 DEF InsertAt
<1> HIDE DEF c, u
<1>3. ASSUME PairAt(c, u, z + 1, j, v) PROVE PairAt(a, w, z, j, v) \/ (j = k /\ v = x)
  <2>1. PICK i \in 1 .. z + 1 : c[i] = j /\ u[i] = v
    BY <1>3 DEF PairAt
  <2>2. CASE i < b
    <3>1. i \in 1 .. z /\ a[i] = j /\ w[i] = v
      BY <1>2, <2>1, <2>2
    <3> QED BY <3>1 DEF PairAt
  <2>3. CASE i = b
    BY <1>2, <2>1, <2>3
  <2>4. CASE i > b
    <3>1. i - 1 \in 1 .. z
      BY <2>4
    <3>2. a[i - 1] = j /\ w[i - 1] = v
      BY <1>2, <2>1, <2>4
    <3> QED BY <3>1, <3>2 DEF PairAt
  <2> QED BY <2>2, <2>3, <2>4
<1>4. ASSUME PairAt(a, w, z, j, v) PROVE PairAt(c, u, z + 1, j, v)
  <2>1. PICK i \in 1 .. z : a[i] = j /\ w[i] = v
    BY <1>4 DEF PairAt
  <2>2. CASE i < b
    <3>1. i \in 1 .. z + 1 /\ c[i] = j /\ u[i] = v
      BY <1>2, <2>1, <2>2
    <3> QED BY <3>1 DEF PairAt
  <2>3. CASE ~(i < b)
    <3> DEFINE d == i + 1
    <3>1. d \in 1 .. z + 1 /\ ~(d < b) /\ d # b /\ d - 1 = i
      BY <2>3
    <3> HIDE DEF d
    <3>2. c[d] = j /\ u[d] = v
      BY <1>2, <2>1, <3>1
    <3> QED BY <3>1, <3>2 DEF PairAt
  <2> QED BY <2>2, <2>3
<1>5. ASSUME j = k, v = x PROVE PairAt(c, u, z + 1, j, v)
  <2>1. c[b] = j /\ u[b] = v
    BY <1>2, <1>5
  <2> QED BY <2>1 DEF PairAt
<1> QED BY <1>3, <1>4, <1>5 DEF c, u

LEMMA PairsErase ==
  ASSUME NEW N \in Nat, NEW a, IsArray(a, N), NEW w, IsArray(w, N), NEW z \in 0 .. N,
         NEW b \in 1 .. z, Strict(a, z), NEW j, NEW v
  PROVE  PairAt(EraseAt(a, z, b), EraseAt(w, z, b), z - 1, j, v)
           <=> PairAt(a, w, z, j, v) /\ j # a[b]
<1> DEFINE c == EraseAt(a, z, b)
           u == EraseAt(w, z, b)
<1>1. DOMAIN a = 1 .. N /\ DOMAIN w = 1 .. N /\ \A i \in 1 .. z : a[i] \in Nat
  <2>1. \A i \in 1 .. z : i \in 1 .. N
    OBVIOUS
  <2> QED BY <2>1 DEF IsArray
<1>2. \A i \in 1 .. z - 1 :
        /\ c[i] = IF b <= i THEN a[i + 1] ELSE a[i]
        /\ u[i] = IF b <= i THEN w[i + 1] ELSE w[i]
  <2>1. \A i \in 1 .. z - 1 : i \in 1 .. N /\ i < z
    OBVIOUS
  <2> QED BY <1>1, <2>1 DEF EraseAt
<1>3. \A i \in 1 .. z : i # b => a[i] # a[b]
  <2> SUFFICES ASSUME NEW i \in 1 .. z, i # b PROVE a[i] # a[b]
    OBVIOUS
  <2>1. i < b \/ b < i
    OBVIOUS
  <2>2. a[i] < a[b] \/ a[b] < a[i]
    BY <2>1 DEF Strict
  <2>3. a[i] \in Nat /\ a[b] \in Nat
    BY <1>1
  <2> QED BY <2>2, <2>3
<1> HIDE DEF c, u
<1>4. ASSUME PairAt(c, u, z - 1, j, v) PROVE PairAt(a, w, z, j, v) /\ j # a[b]
  <2>1. PICK i \in 1 .. z - 1 : c[i] = j /\ u[i] = v
    BY <1>4 DEF PairAt
  <2> DEFINE d == IF b <= i THEN i + 1 ELSE i
  <2>2. d \in 1 .. z /\ d # b
    BY <2>1
  <2>3. a[d] = j /\ w[d] = v
    BY <1>2, <2>1
  <2> HIDE DEF d
  <2> QED BY <1>3, <2>2, <2>3 DEF PairAt
<1>5. ASSUME PairAt(a, w, z, j, v), j # a[b] PROVE PairAt(c, u, z - 1, j, v)
  <2>1. PICK i \in 1 .. z : a[i] = j /\ w[i] = v
    BY <1>5 DEF PairAt
  <2> DEFINE d == IF b < i THEN i - 1 ELSE i
  <2>2. i # b
    BY <1>5, <2>1
  <2>3. d \in 1 .. z - 1 /\ (IF b <= d THEN d + 1 ELSE d) = i
    BY <2>2
  <2> HIDE DEF d
  <2>4. c[d] = j /\ u[d] = v
    <3>1. CASE b <= d
      <4>1. c[d] = a[d + 1] /\ u[d] = w[d + 1] /\ d + 1 = i
        BY <1>2, <2>3, <3>1
      <4> QED BY <2>1, <4>1
    <3>2. CASE ~(b <= d)
      <4>1. c[d] = a[d] /\ u[d] = w[d] /\ d = i
        BY <1>2, <2>3, <3>2
      <4> QED BY <2>1, <4>1
    <3> QED BY <3>1, <3>2
  <2> QED BY <2>3, <2>4 DEF PairAt
<1> QED BY <1>4, <1>5 DEF c, u

LEMMA PairsReplace ==
  ASSUME NEW N \in Nat, NEW a, IsArray(a, N), NEW w, IsArray(w, N), NEW z \in 0 .. N,
         NEW b \in 1 .. z, Strict(a, z), NEW x, NEW j, NEW v
  PROVE  PairAt(a, [w EXCEPT ![b] = x], z, j, v)
           <=> (j = a[b] /\ v = x) \/ (j # a[b] /\ PairAt(a, w, z, j, v))
<1> DEFINE u == [w EXCEPT ![b] = x]
<1>1. \A i \in 1 .. z : i \in 1 .. N /\ a[i] \in Nat
  <2>1. \A i \in 1 .. z : i \in 1 .. N
    OBVIOUS
  <2> QED BY <2>1 DEF IsArray
<1>2. \A i \in 1 .. z : u[i] = IF i = b THEN x ELSE w[i]
  BY <1>1 DEF IsArray
<1>3. \A i \in 1 .. z : i # b => a[i] # a[b]
  <2> SUFFICES ASSUME NEW i \in 1 .. z, i # b PROVE a[i] # a[b]
    OBVIOUS
  <2>1. i < b \/ b < i
    OBVIOUS
  <2>2. a[i] < a[b] \/ a[b] < a[i]
    BY <2>1 DEF Strict
  <2>3. a[i] \in Nat /\ a[b] \in Nat
    BY <1>1
  <2> QED BY <2>2, <2>3
<1> HIDE DEF u
<1>4. CASE j = a[b]
  <2>1. u[b] = x
    BY <1>2
  <2>2. \A i \in 1 .. z : a[i] = j => i = b
    BY <1>3, <1>4
  <2>3. PairAt(a, u, z, j, v) => v = x
    BY <2>1, <2>2 DEF PairAt
  <2>4. v = x => PairAt(a, u, z, j, v)
    BY <1>4, <2>1 DEF PairAt
  <2> QED BY <1>4, <2>3, <2>4 DEF u
<1>5. CASE j # a[b]
  BY <1>2, <1>3, <1>5 DEF PairAt
<1> QED BY <1>4, <1>5 DEF u

Behind(c, u, a, w, s, m) == \A i \in 1 .. m : c[i] = a[s + i] /\ u[i] = w[s + i]
LEMMA PairsSplit ==
  ASSUME NEW N \in Nat, NEW s \in 1 .. N - 1, NEW a, NEW w, NEW c, NEW u,
         Behind(c, u, a, w, s, N - s), NEW j, NEW v
  PROVE  PairAt(a, w, N, j, v) <=> PairAt(a, w, s, j, v) \/ PairAt(c, u, N - s, j, v)
<1>0. \A i \in 1 .. N - s : c[i] = a[s + i] /\ u[i] = w[s + i]
  BY DEF Behind
<1>1. ASSUME PairAt(a, w, N, j, v) PROVE PairAt(a, w, s, j, v) \/ PairAt(c, u, N - s, j, v)
  <2>1. PICK i \in 1 .. N : a[i] = j /\ w[i] = v
    BY <1>1 DEF PairAt
  <2>2. CASE i <= s
    <3>1. i \in 1 .. s
      BY <2>2
    <3> QED BY <2>1, <3>1 DEF PairAt
  <2>3. CASE ~(i <= s)
    <3> DEFINE d == i - s
    <3>1. d \in 1 .. N - s /\ s + d = i
      BY <2>3
    <3> HIDE DEF d
    <3>2. c[d] = j /\ u[d] = v
      BY <1>0, <2>1, <3>1
    <3> QED BY <3>1, <3>2 DEF PairAt
  <2> QED BY <2>2, <2>3
<1>2. ASSUME PairAt(a, w, s, j, v) PROVE PairAt(a, w, N, j, v)
  <2>1. PICK i \in 1 .. s : a[i] = j /\ w[i] = v
    BY <1>2 DEF PairAt
  <2>2. i \in 1 .. N
    OBVIOUS
  <2> QED BY <2>1, <2>2 DEF PairAt
<1>3. ASSUME PairAt(c, u, N - s, j, v) PROVE PairAt(a, w, N, j, v)
  <2>1. PICK i \in 1 .. N - s : c[i] = j /\ u[i] = v
    BY <1>3 DEF PairAt
  <2> DEFINE d == s + i
  <2>2. d \in 1 .. N /\ a[d] = j /\ w[d] = v
    BY <1>0, <2>1
  <2> HIDE DEF d
  <2> QED BY <2>2 DEF PairAt
<1> QED BY <1>1, <1>2, <1>3

(* The two halves of a leaf have its pairs. *)
LEMMA HalvesPairs ==
  ASSUME NEW n \in LeafType, Sorted(n.keys, n.size), n.size = LeafN, NEW j, NEW v
  PROVE  PairIn(n, j, v) <=> PairIn(LeftLeaf(n), j, v) \/ PairIn(RightLeaf(n), j, v)
<1> DEFINE s == SplitIndex(n)
           c == RightLeaf(n).keys
           u == RightLeaf(n).values
           h == n.size \div 2
<1>1. /\ LeftLeaf(n).size = s /\ s \in 1 .. LeafN - 1 /\ RightLeaf(n).size = LeafN - s
      /\ LeftLeaf(n).keys = n.keys
      /\ \A i \in 1 .. LeafN - s : c[i] = n.keys[s + i]
  BY LeafHalves
<1>2. LeftLeaf(n).values = n.values /\ LeafN \in Nat
  BY SizesAssumption DEF LeftLeaf, LeafType
<1>3. \A i \in 1 .. LeafN - s : u[i] = n.values[s + i]
  <2>1. u = Tails(n.values, s, n.size, Unset)
    BY DEF RightLeaf, Leaf
  <2>2. DOMAIN n.values = 1 .. LeafN
    BY DEF LeafType
  <2> HIDE DEF s, u
  <2>3. \A i \in 1 .. LeafN - s : i \in 1 .. LeafN /\ s + i <= LeafN
    BY <1>1, <1>2
  <2> QED BY <2>1, <2>2, <2>3 DEF Tails
<1> HIDE DEF s, c, u
<1>4. PairAt(n.keys, n.values, LeafN, j, v)
        <=> PairAt(n.keys, n.values, s, j, v) \/ PairAt(c, u, LeafN - s, j, v)
  <2>1. Behind(c, u, n.keys, n.values, s, LeafN - s)
    BY <1>1, <1>3 DEF Behind
  <2> QED BY <1>1, <1>2, <2>1, PairsSplit
<1> QED BY <1>1, <1>2, <1>4 DEF PairIn, c, u

(***************************************************************************)
(* What the map holds: the pairs of all leaves, one for a key.             *)
(***************************************************************************)
HasPair(n, k, v) == n.leaf /\ PairIn(n, k, v)
InTree(k, v) == \E p \in Created : HasPair(node[p], k, v)
ValueAt(k) == ValueIn(node[LeafFor[Root][k]], k)
Contents ==
  /\ \A k \in Nat : ValueAt(k) \in Nat \cup {None}
  /\ \A k, v \in Nat : InTree(k, v) <=> ValueAt(k) = v
  /\ \A k, v \in Nat : \A p \in Created : HasPair(node[p], k, v) => p = LeafFor[Root][k]

(* A leaf answers with the value of the pair it has. *)
LEMMA LeafAnswers ==
  ASSUME NEW n \in LeafType, Strict(n.keys, n.size), NEW k \in Nat
  PROVE  /\ ValueIn(n, k) \in Nat \cup {None}
         /\ \A v \in Nat : HasPair(n, k, v) <=> ValueIn(n, k) = v
         /\ \A v \in Nat : HasPair(n, k, v) => HasKey(n, k)
         /\ HasKey(n, k) => ValueIn(n, k) \in Nat
<1> DEFINE a == n.keys
           w == n.values
           z == n.size
           b == LowerBound(a, z, k)
<1>1. /\ IsArray(a, LeafN) /\ IsArray(w, LeafN) /\ z \in 0 .. LeafN /\ LeafN \in Nat
      /\ n.leaf = TRUE /\ Strict(a, z) /\ None \notin Nat
  BY SizesAssumption, ThreadsAssumption DEF LeafType, IsArray
<1>2. /\ HasKey(n, k) <=> Contains(a, z, k)
      /\ ValueIn(n, k) = IF Contains(a, z, k) THEN w[b] ELSE None
      /\ \A v : HasPair(n, k, v) <=> PairAt(a, w, z, k, v)
  BY <1>1 DEF HasKey, ValueIn, HasPair, PairIn
<1> HIDE DEF a, w, z
<1>3. /\ Contains(a, z, k) => PairAt(a, w, z, k, w[b])
      /\ \A v : PairAt(a, w, z, k, v) => Contains(a, z, k) /\ w[b] = v
  BY <1>1, FindsPair
<1>4. Contains(a, z, k) => w[b] \in Nat
  <2> SUFFICES ASSUME Contains(a, z, k) PROVE w[b] \in Nat
    OBVIOUS
  <2>1. b \in DOMAIN a
    BY DEF Contains
  <2> HIDE DEF b
  <2> QED BY <1>1, <2>1 DEF IsArray
<1> HIDE DEF b
<1> QED BY <1>1, <1>2, <1>3, <1>4

LEMMA ContentsOK ==
  ASSUME TreeInv, SearchInv
  PROVE  Contents
<1>1. FindsLeaf
  BY SearchFinds
<1>2. ASSUME NEW p \in Created, node[p].leaf PROVE node[p] \in LeafType /\ Strict(node[p].keys, node[p].size)
  <2>1. node[p] \in LeafType
    BY <1>2 DEF TreeInv, PagesOK, NodeOK, InnerType
  <2> QED BY <2>1, StrictLeaf
<1>3. ASSUME NEW k \in Nat, NEW p \in Created, NEW v \in Nat, HasPair(node[p], k, v)
      PROVE  p = LeafFor[Root][k]
  <2>1. node[p].leaf
    BY <1>3 DEF HasPair
  <2>2. HasKey(node[p], k)
    BY <1>2, <1>3, <2>1, LeafAnswers
  <2> QED BY <1>1, <2>1, <2>2 DEF FindsLeaf
<1>4. ASSUME NEW k \in Nat
      PROVE  /\ ValueAt(k) \in Nat \cup {None}
             /\ \A v \in Nat : InTree(k, v) <=> ValueAt(k) = v
  <2> DEFINE q == LeafFor[Root][k]
  <2>1. q \in Created /\ node[q].leaf
    BY <1>1 DEF FindsLeaf
  <2>2. ValueAt(k) = ValueIn(node[q], k)
    BY DEF ValueAt
  <2> HIDE DEF q
  <2>3. /\ ValueIn(node[q], k) \in Nat \cup {None}
        /\ \A v \in Nat : HasPair(node[q], k, v) <=> ValueIn(node[q], k) = v
    BY <1>2, <2>1, LeafAnswers
  <2>4. \A v \in Nat : InTree(k, v) <=> HasPair(node[q], k, v)
    BY <1>3, <2>1 DEF InTree, q
  <2> QED BY <2>2, <2>3, <2>4
<1> QED BY <1>3, <1>4 DEF Contents

(* A search that has come to its leaf sees what the map holds. *)
LEMMA AnswerIsValue ==
  ASSUME Arrives, NEW t \in Threads, pc[t] \in {"leaf", "write"}
  PROVE  ValueAt(Key(t)) = ValueIn(Here(t), Key(t))
BY DEF Arrives, ValueAt, Here

(* What a step does to the map follows from what it does to the pairs. *)
SameFor(k) == \A v \in Nat : InTree(k, v)' <=> InTree(k, v)
LEMMA SameValue ==
  ASSUME Contents, Contents', NEW k \in Nat, SameFor(k)
  PROVE  ValueAt(k)' = ValueAt(k)
<1>1. ValueAt(k) \in Nat \cup {None} /\ \A v \in Nat : InTree(k, v) <=> ValueAt(k) = v
  BY DEF Contents
<1>2. ValueAt(k)' \in Nat \cup {None} /\ \A v \in Nat : InTree(k, v)' <=> ValueAt(k)' = v
  BY DEF Contents
<1>3. \A v \in Nat : ValueAt(k) = v <=> ValueAt(k)' = v
  BY <1>1, <1>2 DEF SameFor
<1> QED BY <1>1, <1>2, <1>3

LEMMA NewValue ==
  ASSUME Contents', NEW k \in Nat, NEW v \in Nat, InTree(k, v)'
  PROVE  ValueAt(k)' = v
BY DEF Contents

LEMMA NoValue ==
  ASSUME Contents', NEW k \in Nat, \A v \in Nat : ~InTree(k, v)'
  PROVE  ValueAt(k)' = None
BY DEF Contents

(***************************************************************************)
(* What the steps do to the pairs.                                         *)
(***************************************************************************)
LEMMA HalvesHavePairs ==
  ASSUME NEW n, NEW pages, NodeOK(n, pages), Full(n), NEW k, NEW v
  PROVE  HasPair(n, k, v) <=> HasPair(Left(n), k, v) \/ HasPair(Right(n), k, v)
<1>1. CASE n \in LeafType /\ Sorted(n.keys, n.size)
  <2>1. n.leaf = TRUE /\ n.size = LeafN
    BY <1>1 DEF LeafType, Full
  <2>2. Left(n) = LeftLeaf(n) /\ Right(n) = RightLeaf(n)
    BY <2>1 DEF Left, Right
  <2>3. LeftLeaf(n).leaf = TRUE /\ RightLeaf(n).leaf = TRUE
    BY <1>1, <2>1, LeafHalves DEF LeafType
  <2>4. PairIn(n, k, v) <=> PairIn(LeftLeaf(n), k, v) \/ PairIn(RightLeaf(n), k, v)
    BY <1>1, <2>1, HalvesPairs
  <2> QED BY <2>1, <2>2, <2>3, <2>4 DEF HasPair
<1>2. CASE n \in InnerType
  <2>1. n.leaf = FALSE
    BY <1>2 DEF InnerType
  <2>2. Left(n).leaf = FALSE /\ Right(n).leaf = FALSE
    BY <1>2, <2>1 DEF Left, Right, LeftInner, RightInner, Inner, InnerType
  <2> QED BY <2>1, <2>2 DEF HasPair
<1> QED BY <1>1, <1>2 DEF NodeOK

LEMMA RootSplitPairs ==
  ASSUME PagesOK, NEW n, n = node[Root], Root \in Created, Full(n), NEW F, RootSplit(n, F), F \notin Created,
         F + 1 \notin Created, NEW k
  PROVE  SameFor(k)
<1> SUFFICES ASSUME NEW v \in Nat PROVE InTree(k, v)' <=> InTree(k, v)
  BY DEF SameFor
<1>1. HasPair(n, k, v) <=> HasPair(Left(n), k, v) \/ HasPair(Right(n), k, v)
  BY HalvesHavePairs DEF PagesOK
<1>2. /\ Created' = Created \cup {F, F + 1}
      /\ node'[Root] = NewRoot(Pivot(n), F + 1, F) /\ node'[F] = Right(n) /\ node'[F + 1] = Left(n)
      /\ \A p \in Created \ {Root} : node'[p] = node[p]
  BY DEF RootSplit
<1>3. ~HasPair(node'[Root], k, v)
  BY <1>2 DEF NewRoot, Inner, HasPair
<1>4. InTree(k, v)' <=> \E p \in Created' : HasPair(node'[p], k, v)
  BY DEF InTree, HasPair, PairIn, PairAt
<1>5. InTree(k, v) <=> \E p \in Created : HasPair(node[p], k, v)
  BY DEF InTree
<1> DEFINE G == F + 1
<1>6. /\ Created' = Created \cup {F, G} /\ node'[G] = Left(n)
  BY <1>2
<1> HIDE DEF G
<1>7. ASSUME NEW p \in Created', HasPair(node'[p], k, v)
      PROVE  \E q \in Created : HasPair(node[q], k, v)
  <2>1. CASE p = F \/ p = G
    BY <1>1, <1>2, <1>6, <1>7, <2>1
  <2>2. CASE p \in Created
    BY <1>2, <1>3, <1>7, <2>2
  <2> QED BY <1>6, <2>1, <2>2
<1>8. ASSUME NEW q \in Created, HasPair(node[q], k, v)
      PROVE  \E p \in Created' : HasPair(node'[p], k, v)
  <2>1. CASE q = Root
    BY <1>1, <1>2, <1>6, <1>8, <2>1
  <2>2. CASE q # Root
    BY <1>2, <1>6, <1>8, <2>2
  <2> QED BY <2>1, <2>2
<1> QED BY <1>4, <1>5, <1>7, <1>8

LEMMA ChildSplitPairs ==
  ASSUME PagesOK, NEW c \in Created, NEW n, n = node[c], Full(n), NEW q \in Created, q # c,
         ~node[q].leaf, NEW F, NEW i, ChildSplit(n, c, q, i, F), NEW k
  PROVE  SameFor(k)
<1> SUFFICES ASSUME NEW v \in Nat PROVE InTree(k, v)' <=> InTree(k, v)
  BY DEF SameFor
<1>1. HasPair(n, k, v) <=> HasPair(Left(n), k, v) \/ HasPair(Right(n), k, v)
  BY HalvesHavePairs DEF PagesOK
<1>2. /\ Created' = Created \cup {F}
      /\ node'[c] = Left(n) /\ node'[F] = Right(n)
      /\ node'[q] = WithPivot(node[q], i, Pivot(n), F)
      /\ \A p \in Created \ {c, q} : node'[p] = node[p]
  BY DEF ChildSplit
<1>3. ~HasPair(node'[q], k, v) /\ ~HasPair(node[q], k, v)
  BY <1>2 DEF WithPivot, Inner, HasPair
<1>4. InTree(k, v)' <=> \E p \in Created' : HasPair(node'[p], k, v)
  BY DEF InTree, HasPair, PairIn, PairAt
<1>5. InTree(k, v) <=> \E p \in Created : HasPair(node[p], k, v)
  BY DEF InTree
<1>7. ASSUME NEW p \in Created', HasPair(node'[p], k, v)
      PROVE  \E o \in Created : HasPair(node[o], k, v)
  <2>1. CASE p = F \/ p = c
    BY <1>1, <1>2, <1>7, <2>1
  <2>2. CASE p \in Created \ {c}
    BY <1>2, <1>3, <1>7, <2>2
  <2> QED BY <1>2, <2>1, <2>2
<1>8. ASSUME NEW o \in Created, HasPair(node[o], k, v)
      PROVE  \E p \in Created' : HasPair(node'[p], k, v)
  <2>1. CASE o = c
    BY <1>1, <1>2, <1>8, <2>1
  <2>2. CASE o # c
    BY <1>2, <1>3, <1>8, <2>2
  <2> QED BY <2>1, <2>2
<1> QED BY <1>4, <1>5, <1>7, <1>8

(* A step that changes one leaf. *)
LeafBecomes(q, m) ==
  Created' = Created /\ \A p \in Created : node'[p] = IF p = q THEN m ELSE node[p]
LEMMA LeafPairs ==
  ASSUME NEW q \in Created, NEW m, LeafBecomes(q, m), NEW k
  PROVE  /\ (\A v \in Nat : HasPair(m, k, v) <=> HasPair(node[q], k, v)) => SameFor(k)
         /\ \A v \in Nat : HasPair(m, k, v) => InTree(k, v)'
         /\ \A v \in Nat : InTree(k, v)' => HasPair(m, k, v) \/
              \E p \in Created \ {q} : HasPair(node[p], k, v)
<1>1. \A v : InTree(k, v)' <=> \E p \in Created' : HasPair(node'[p], k, v)
  BY DEF InTree, HasPair, PairIn, PairAt
<1>2. \A v : InTree(k, v) <=> \E p \in Created : HasPair(node[p], k, v)
  BY DEF InTree
<1>3. Created' = Created /\ \A p \in Created : node'[p] = IF p = q THEN m ELSE node[p]
  BY DEF LeafBecomes
<1>4. ASSUME \A v \in Nat : HasPair(m, k, v) <=> HasPair(node[q], k, v) PROVE SameFor(k)
  <2>1. ASSUME NEW v \in Nat PROVE InTree(k, v)' <=> InTree(k, v)
    <3>1. \A p \in Created : HasPair(node'[p], k, v) <=> HasPair(node[p], k, v)
      BY <1>3, <1>4
    <3> QED BY <1>1, <1>2, <1>3, <3>1
  <2> QED BY <2>1 DEF SameFor
<1>5. ASSUME NEW v \in Nat, HasPair(m, k, v) PROVE InTree(k, v)'
  BY <1>1, <1>3, <1>5
<1>6. ASSUME NEW v \in Nat, InTree(k, v)'
      PROVE  HasPair(m, k, v) \/ \E p \in Created \ {q} : HasPair(node[p], k, v)
  BY <1>1, <1>3, <1>6
<1> QED BY <1>4, <1>5, <1>6

(* The map afterwards: key k has value y, the others what they had. *)
Effect(k, y) == \A j \in Nat : ValueAt(j)' = IF j = k THEN y ELSE ValueAt(j)
NoEffect == \A j \in Nat : ValueAt(j)' = ValueAt(j)

(* The leaf m is the leaf n with y for k. *)
Writes(m, n, k, y) ==
  \A j, x \in Nat : HasPair(m, j, x) <=> (j = k /\ x = y) \/ (j # k /\ HasPair(n, j, x))
LEMMA LeafEffect ==
  ASSUME Contents, Contents', NEW k \in Nat, NEW q \in Created, q = LeafFor[Root][k],
         NEW m, LeafBecomes(q, m), NEW y \in Nat \cup {None}, Writes(m, node[q], k, y)
  PROVE  Effect(k, y)
<1> SUFFICES ASSUME NEW j \in Nat PROVE ValueAt(j)' = IF j = k THEN y ELSE ValueAt(j)
  BY DEF Effect
<1>1. \A x \in Nat :
        HasPair(m, j, x) <=> (j = k /\ x = y) \/ (j # k /\ HasPair(node[q], j, x))
  BY DEF Writes
<1>2. CASE j # k
  <2>1. SameFor(j)
    BY <1>1, <1>2, LeafPairs
  <2> QED BY <1>2, <2>1, SameValue
<1>3. CASE j = k /\ y \in Nat
  <2>1. InTree(j, y)'
    BY <1>1, <1>3, LeafPairs
  <2> QED BY <1>3, <2>1, NewValue
<1>4. CASE j = k /\ y \notin Nat
  <2>1. ASSUME NEW x \in Nat, InTree(j, x)' PROVE FALSE
    <3>1. ~HasPair(m, j, x)
      BY <1>1, <1>4
    <3>2. PICK p \in Created \ {q} : HasPair(node[p], j, x)
      BY <2>1, <3>1, LeafPairs
    <3> QED BY <1>4, <3>2 DEF Contents
  <2>2. ValueAt(j)' = None
    BY <2>1, NoValue
  <2> QED BY <1>4, <2>2
<1> QED BY <1>2, <1>3, <1>4

LEMMA QuietEffect ==
  ASSUME Contents, Contents', node' = node
  PROVE  NoEffect
<1>1. \A k, v : InTree(k, v)' <=> InTree(k, v)
  BY DEF InTree, HasPair, PairIn, PairAt, Created
<1>2. \A k \in Nat : SameFor(k)
  BY <1>1 DEF SameFor
<1> QED BY <1>2, SameValue DEF NoEffect

(* What the changes of a leaf do to its pairs. *)
LEMMA WithValueWrites ==
  ASSUME NEW n \in LeafType, Strict(n.keys, n.size), NEW k \in Nat, HasKey(n, k), NEW y \in Nat
  PROVE  Writes(WithValue(n, LowerBound(n.keys, n.size, k), y), n, k, y)
<1> DEFINE a == n.keys
           w == n.values
           z == n.size
           b == LowerBound(a, z, k)
           m == WithValue(n, b, y)
<1>1. /\ IsArray(a, LeafN) /\ IsArray(w, LeafN) /\ z \in 0 .. LeafN /\ LeafN \in Nat
      /\ n.leaf = TRUE /\ Strict(a, z)
  BY SizesAssumption DEF LeafType, IsArray
<1>2. m.leaf = TRUE /\ m.keys = a /\ m.size = z /\ m.values = [w EXCEPT ![b] = y]
  <2> HIDE DEF b
  <2> QED BY DEF WithValue, LeafType
<1>3. b \in 1 .. z /\ a[b] = k
  <2>1. Contains(a, z, k)
    BY DEF HasKey
  <2> HIDE DEF a, z
  <2>2. b \in 1 .. z + 1
    BY <1>1, LowerBoundBounds
  <2>3. b <= z /\ a[b] = k
    BY <2>1 DEF Contains
  <2> HIDE DEF b
  <2> QED BY <1>1, <2>2, <2>3
<1> HIDE DEF m, b
<1>4. \A j, x : HasPair(m, j, x) <=> PairAt(m.keys, m.values, m.size, j, x)
  BY <1>2 DEF HasPair, PairIn
<1>5. \A j, x : HasPair(n, j, x) <=> PairAt(a, w, z, j, x)
  BY <1>1 DEF HasPair, PairIn
<1> HIDE DEF a, w, z
<1>6. ASSUME NEW j, NEW x
      PROVE  HasPair(m, j, x) <=> (j = k /\ x = y) \/ (j # k /\ HasPair(n, j, x))
  <2> DEFINE u == [w EXCEPT ![b] = y]
  <2>1. PairAt(a, u, z, j, x) <=> (j = a[b] /\ x = y) \/ (j # a[b] /\ PairAt(a, w, z, j, x))
    BY <1>1, <1>3, PairsReplace
  <2>2. m.values = u
    BY <1>2
  <2> HIDE DEF u
  <2>3. HasPair(m, j, x) <=> PairAt(a, u, z, j, x)
    BY <1>2, <1>4, <2>2
  <2> QED BY <1>3, <1>5, <2>1, <2>3
<1>7. \A j, x : HasPair(m, j, x) <=> (j = k /\ x = y) \/ (j # k /\ HasPair(n, j, x))
  BY <1>6
<1> QED BY <1>7 DEF Writes, m, b, a, z

LEMMA WithPairWrites ==
  ASSUME NEW n \in LeafType, Strict(n.keys, n.size), NEW k \in Nat, ~HasKey(n, k), n.size < LeafN,
         NEW y \in Nat
  PROVE  Writes(WithPair(n, LowerBound(n.keys, n.size, k), k, y), n, k, y)
<1> DEFINE a == n.keys
           w == n.values
           z == n.size
           b == LowerBound(a, z, k)
           m == WithPair(n, b, k, y)
<1>1. /\ IsArray(a, LeafN) /\ IsArray(w, LeafN) /\ z \in 0 .. LeafN /\ LeafN \in Nat
      /\ n.leaf = TRUE /\ Strict(a, z) /\ z < LeafN
  BY SizesAssumption DEF LeafType, IsArray
<1>2. /\ m.leaf = TRUE /\ m.keys = InsertAt(a, z, b, k) /\ m.size = z + 1
      /\ m.values = InsertAt(w, z, b, y)
  <2> HIDE DEF b
  <2> QED BY DEF WithPair, Leaf
<1>3. \A j, x : HasPair(m, j, x) <=> PairAt(m.keys, m.values, m.size, j, x)
  <2> HIDE DEF m
  <2> QED BY <1>2 DEF HasPair, PairIn
<1>4. \A j, x : HasPair(n, j, x) <=> PairAt(a, w, z, j, x)
  BY <1>1 DEF HasPair, PairIn
<1>5. \A x \in Nat : ~HasPair(n, k, x)
  BY LeafAnswers
<1> HIDE DEF m, a, w, z
<1>6. b \in 1 .. z + 1 /\ z \in 0 .. LeafN - 1
  BY <1>1, LowerBoundBounds
<1> HIDE DEF b
<1>7. \A j, x : PairAt(InsertAt(a, z, b, k), InsertAt(w, z, b, y), z + 1, j, x)
                  <=> PairAt(a, w, z, j, x) \/ (j = k /\ x = y)
  BY <1>1, <1>6, PairsInsert
<1>8. \A j, x \in Nat : HasPair(m, j, x) <=> (j = k /\ x = y) \/ (j # k /\ HasPair(n, j, x))
  BY <1>2, <1>3, <1>4, <1>5, <1>7
<1> QED BY <1>8 DEF Writes, m, b, a, z

LEMMA WithoutPairWrites ==
  ASSUME NEW n \in LeafType, Strict(n.keys, n.size), NEW k \in Nat, HasKey(n, k)
  PROVE  Writes(WithoutPair(n, LowerBound(n.keys, n.size, k)), n, k, None)
<1> DEFINE a == n.keys
           w == n.values
           z == n.size
           b == LowerBound(a, z, k)
           m == WithoutPair(n, b)
<1>1. /\ IsArray(a, LeafN) /\ IsArray(w, LeafN) /\ z \in 0 .. LeafN /\ LeafN \in Nat
      /\ n.leaf = TRUE /\ Strict(a, z) /\ None \notin Nat
  BY SizesAssumption, ThreadsAssumption DEF LeafType, IsArray
<1>2. /\ m.leaf = TRUE /\ m.keys = EraseAt(a, z, b) /\ m.size = z - 1
      /\ m.values = EraseAt(w, z, b)
  <2> HIDE DEF b
  <2> QED BY DEF WithoutPair, Leaf
<1>3. b \in 1 .. z /\ a[b] = k
  <2>1. Contains(a, z, k)
    BY DEF HasKey
  <2> HIDE DEF a, z
  <2>2. b \in 1 .. z + 1
    BY <1>1, LowerBoundBounds
  <2>3. b <= z /\ a[b] = k
    BY <2>1 DEF Contains
  <2> HIDE DEF b
  <2> QED BY <1>1, <2>2, <2>3
<1> HIDE DEF m, b
<1>4. \A j, x : HasPair(m, j, x) <=> PairAt(m.keys, m.values, m.size, j, x)
  BY <1>2 DEF HasPair, PairIn
<1>5. \A j, x : HasPair(n, j, x) <=> PairAt(a, w, z, j, x)
  BY <1>1 DEF HasPair, PairIn
<1> HIDE DEF a, w, z
<1>6. \A j, x : PairAt(EraseAt(a, z, b), EraseAt(w, z, b), z - 1, j, x)
                  <=> PairAt(a, w, z, j, x) /\ j # a[b]
  BY <1>1, <1>3, PairsErase
<1>7. \A j, x \in Nat : HasPair(m, j, x) <=> (j = k /\ x = None) \/ (j # k /\ HasPair(n, j, x))
  BY <1>1, <1>2, <1>3, <1>4, <1>5, <1>6
<1> QED BY <1>7 DEF Writes, m, b, a, z

(***************************************************************************)
(* What the steps do to the map.                                           *)
(***************************************************************************)
LEMMA OverwriteEffect ==
  ASSUME TreeInv, SearchInv, SeesItsKey, Arrives, Contents, Contents', NEW t \in Threads,
         Overwrite(t)
  PROVE  Effect(Key(t), call[t].value)
<1>0. pc[t] = "write"
  BY DEF Overwrite, At
<1> DEFINE q == current[t]
           n == node[q]
           b == LowerBound(n.keys, n.size, Key(t))
           m == WithValue(n, b, call[t].value)
<1>1. keyIndex[t] = b
  BY <1>0, IndexOfHeldKey DEF Here
<1>2. /\ q \in Created /\ n \in LeafType /\ Key(t) \in Nat /\ call[t].value \in Nat
  BY <1>0, AtLeafFacts
<1>3. Strict(n.keys, n.size) /\ HasKey(n, Key(t))
  BY <1>2, StrictLeaf, OldKey DEF Here
<1>4. node' = [node EXCEPT ![q] = m]
  BY <1>1 DEF Overwrite
<1>5. Writes(m, n, Key(t), call[t].value)
  BY <1>2, <1>3, WithValueWrites
<1>6. q = LeafFor[Root][Key(t)]
  BY <1>0 DEF Arrives
<1> HIDE DEF m
<1>7. LeafBecomes(q, m)
  BY <1>4 DEF LeafBecomes, Created
<1> QED BY <1>2, <1>5, <1>6, <1>7, LeafEffect

LEMMA AddEffect ==
  ASSUME TreeInv, SearchInv, SeesItsKey, Arrives, Contents, Contents', NEW t \in Threads, Add(t)
  PROVE  Effect(Key(t), call[t].value)
<1>0. pc[t] = "write" /\ KeyIsNew(t)
  BY DEF Add, At
<1> DEFINE q == current[t]
           n == node[q]
           b == LowerBound(n.keys, n.size, Key(t))
           m == WithPair(n, b, Key(t), call[t].value)
<1>1. keyIndex[t] = b
  BY <1>0, IndexOfHeldKey DEF Here
<1>2. /\ q \in Created /\ n \in LeafType /\ Key(t) \in Nat /\ call[t].value \in Nat
      /\ n.size \in 0 .. LeafN /\ LeafN \in Nat
  BY <1>0, AtLeafFacts
<1>3. Strict(n.keys, n.size) /\ ~HasKey(n, Key(t))
  BY <1>0, <1>2, StrictLeaf, NewKey DEF Here
<1>4. n.size < LeafN
  <2>1. n.size # LeafN
    BY <1>0, <1>3, InCall DEF WriteOK, Key
  <2> HIDE DEF n
  <2> QED BY <1>2, <2>1
<1>5. node' = [node EXCEPT ![q] = m]
  BY <1>1 DEF Add
<1>6. Writes(m, n, Key(t), call[t].value)
  BY <1>2, <1>3, <1>4, WithPairWrites
<1>7. q = LeafFor[Root][Key(t)]
  BY <1>0 DEF Arrives
<1> HIDE DEF m
<1>8. LeafBecomes(q, m)
  BY <1>5 DEF LeafBecomes, Created
<1> QED BY <1>2, <1>6, <1>7, <1>8, LeafEffect

Updated(t) ==
  IF ValueAt(Key(t)) = None THEN ValueAt(Key(t)) ELSE ValueAt(Key(t)) + call[t].value
LEMMA UpdateEffect ==
  ASSUME TreeInv, SearchInv, Arrives, Contents, Contents', NEW t \in Threads, UpdateLeaf(t)
  PROVE  Effect(Key(t), Updated(t))
<1>0. pc[t] = "leaf"
  BY DEF UpdateLeaf, AtUnique, At
<1> DEFINE q == current[t]
           n == node[q]
           b == LowerBound(n.keys, n.size, Key(t))
           v == n.values[b] + call[t].value
           m == WithValue(n, b, v)
<1>1. /\ q \in Created /\ n \in LeafType /\ Key(t) \in Nat /\ call[t].value \in Nat
  BY <1>0, AtLeafFacts
<1>2. Strict(n.keys, n.size)
  BY <1>1, StrictLeaf
<1>3. /\ ValueAt(Key(t)) = ValueIn(n, Key(t))
      /\ HasKey(n, Key(t)) => ValueIn(n, Key(t)) = n.values[b]
      /\ ~HasKey(n, Key(t)) => ValueIn(n, Key(t)) = None
  BY <1>0, AnswerIsValue DEF Here, ValueIn
<1>4. CASE HasKey(n, Key(t))
  <2>1. n.values[b] \in Nat /\ None \notin Nat
    BY <1>1, <1>2, <1>3, <1>4, LeafAnswers, ThreadsAssumption
  <2>2. Updated(t) = v /\ v \in Nat
    BY <1>1, <1>3, <1>4, <2>1 DEF Updated
  <2>3. node' = [node EXCEPT ![q] = m]
    BY <1>4 DEF UpdateLeaf, Here, IndexOfKey
  <2> HIDE DEF v
  <2>4. Writes(m, n, Key(t), v)
    BY <1>1, <1>2, <1>4, <2>2, WithValueWrites
  <2>5. q = LeafFor[Root][Key(t)]
    BY <1>0 DEF Arrives
  <2> HIDE DEF m
  <2>6. LeafBecomes(q, m)
    BY <2>3 DEF LeafBecomes, Created
  <2> QED BY <1>1, <2>2, <2>4, <2>5, <2>6, LeafEffect
<1>5. CASE ~HasKey(n, Key(t))
  <2>1. node' = node
    BY <1>5 DEF UpdateLeaf, Here
  <2>2. Updated(t) = ValueAt(Key(t))
    BY <1>3, <1>5 DEF Updated
  <2> QED BY <2>1, <2>2, QuietEffect DEF Effect, NoEffect
<1> QED BY <1>4, <1>5

LEMMA EraseEffect ==
  ASSUME TreeInv, SearchInv, Arrives, Contents, Contents', NEW t \in Threads, EraseLeaf(t)
  PROVE  Effect(Key(t), None)
<1>0. pc[t] = "leaf"
  BY DEF EraseLeaf, AtUnique, At
<1> DEFINE q == current[t]
           n == node[q]
           b == LowerBound(n.keys, n.size, Key(t))
           m == WithoutPair(n, b)
<1>1. q \in Created /\ n \in LeafType /\ Key(t) \in Nat
  BY <1>0, AtLeafFacts
<1>2. Strict(n.keys, n.size)
  BY <1>1, StrictLeaf
<1>3. CASE HasKey(n, Key(t))
  <2>1. node' = [node EXCEPT ![q] = m]
    BY <1>3 DEF EraseLeaf, Here, IndexOfKey
  <2>2. Writes(m, n, Key(t), None)
    BY <1>1, <1>2, <1>3, WithoutPairWrites
  <2>3. q = LeafFor[Root][Key(t)]
    BY <1>0 DEF Arrives
  <2> HIDE DEF m
  <2>4. LeafBecomes(q, m)
    BY <2>1 DEF LeafBecomes, Created
  <2> QED BY <1>1, <2>2, <2>3, <2>4, LeafEffect
<1>4. CASE ~HasKey(n, Key(t))
  <2>1. node' = node
    BY <1>4 DEF EraseLeaf, Here
  <2>2. ValueAt(Key(t)) = None
    BY <1>0, <1>4, AnswerIsValue DEF Here, ValueIn
  <2> QED BY <2>1, <2>2, QuietEffect DEF Effect, NoEffect
<1> QED BY <1>3, <1>4

LEMMA RootSplitEffect ==
  ASSUME TreeInv, Contents, Contents', NEW t \in Threads, current[t] = Root, Full(node[Root]),
         SplitRoot(t)
  PROVE  NoEffect
<1> DEFINE n == node[Root]
           F == Fresh
           pivot == Pivot(n)
<1>1. /\ F \in Nat /\ F \notin Created /\ F + 1 \notin Created /\ Root \in Created
      /\ F # F + 1 /\ F # Root /\ F + 1 # Root
  BY FreshPage, RootCreated
<1>2. /\ node' = [p \in Created \cup {F, F + 1} |->
                IF p = Root THEN NewRoot(pivot, F + 1, F)
                ELSE IF p = F THEN Right(n)
                ELSE IF p = F + 1 THEN Left(n)
                ELSE node[p]]
  BY DEF SplitRoot, Here
<1>3. PagesOK /\ Full(n)
  BY DEF TreeInv
<1> HIDE DEF n, F, pivot
<1>4. RootSplit(n, F)
  <2>1. Created' = Created \cup {F, F + 1}
    BY <1>2 DEF Created
  <2>2. /\ node'[Root] = NewRoot(pivot, F + 1, F) /\ node'[F] = Right(n) /\ node'[F + 1] = Left(n)
        /\ \A p \in Created \ {Root} : node'[p] = node[p]
    BY <1>1, <1>2
  <2> QED BY <2>1, <2>2 DEF RootSplit, pivot
<1>5. n = node[Root]
  BY DEF n
<1>6. \A k \in Nat : SameFor(k)
  BY <1>1, <1>3, <1>4, <1>5, RootSplitPairs
<1> QED BY <1>6, SameValue DEF NoEffect

LEMMA ChildSplitEffect ==
  ASSUME TreeInv, Contents, Contents', NEW t \in Threads, pc[t] \in {"inner", "leaf"},
         parent[t] # None, Full(node[current[t]]), SplitChild(t)
  PROVE  NoEffect
<1> DEFINE c == current[t]
           q == parent[t]
           n == node[c]
           i == ChildIndex(node[q], Key(t))
           F == Fresh
           pivot == Pivot(n)
<1>1. F \in Nat /\ F \notin Created
  BY FreshPage
<1>2. /\ node' = [p \in Created \cup {F} |->
                IF p = c THEN Left(n)
                ELSE IF p = F THEN Right(n)
                ELSE IF p = q THEN WithPivot(node[p], i, pivot, F)
                ELSE node[p]]
  BY DEF SplitChild, Here
<1>3. /\ c \in Created /\ q \in Created /\ ~node[q].leaf /\ node[q].size < InnerN
      /\ PagesOK /\ Full(n) /\ n = node[c]
  BY InCall DEF ParentOK, CurrentOK, TreeInv
<1>4. c # q
  <2> SUFFICES ASSUME c = q PROVE FALSE
    OBVIOUS
  <2>1. node[q].size = InnerN
    BY <1>3 DEF Full
  <2> QED BY <1>3, <2>1, SizesAssumption
<1> HIDE DEF n, F, i, pivot, c, q
<1>5. ChildSplit(n, c, q, i, F)
  <2>1. Created' = Created \cup {F}
    BY <1>2 DEF Created
  <2>2. /\ node'[c] = Left(n) /\ node'[F] = Right(n)
        /\ node'[q] = WithPivot(node[q], i, pivot, F)
        /\ \A p \in Created \ {c, q} : node'[p] = node[p]
    BY <1>1, <1>2, <1>3, <1>4
  <2> QED BY <2>1, <2>2 DEF ChildSplit, pivot
<1>6. \A k \in Nat : SameFor(k)
  BY <1>3, <1>4, <1>5, ChildSplitPairs
<1> QED BY <1>6, SameValue DEF NoEffect

(***************************************************************************)
(* The tree implements the map.                                            *)
(***************************************************************************)
(* Between its calls a thread has none. *)
Idle == \A t \in Threads : pc[t] = "client" => call[t] = None

Held == [k \in Keys |-> ValueAt(k)]
LEMMA HeldIsMap ==
  /\ Held = [k \in Keys |-> ValueIn(node[LeafFor[Root][k]], k)]
  /\ Held' = [k \in Keys |-> ValueIn(node[LeafFor[Root][k]], k)]'
BY DEF Held, ValueAt

(* A step that answers a call is the moment at which the call takes effect. *)
LEMMA TakesEffect ==
  ASSUME TreeInv, NEW t \in Threads, pc[t] # "client", NEW r, Answer(t, r), NEW y,
         Effect(Key(t), y),
         IF call[t].op = "find" THEN r = ValueAt(Key(t)) ELSE r = None,
         call[t].op = "insert" => y = call[t].value,
         call[t].op = "update" => y = Updated(t),
         call[t].op = "erase" => y = None,
         call[t].op = "find" => y = ValueAt(Key(t))
  PROVE  Map!TakeEffect(t)
<1>1. /\ call[t] \in CallType /\ call[t] # None /\ Key(t) = call[t].key /\ Key(t) \in Keys
      /\ call[t].op \in {"insert", "update", "erase", "find"} /\ Keys \subseteq Nat
  BY InCall, ThreadsAssumption, KeysAssumption DEF StartOK, CallType, Key
<1>2. /\ call' = [call EXCEPT ![t] = None] /\ answer' = [answer EXCEPT ![t] = r]
  BY DEF Answer
<1>3. Held' = [Held EXCEPT ![Key(t)] = y]
  <2>1. Held' = [k \in Keys |-> ValueAt(k)']
    BY DEF Held
  <2>2. \A k \in Keys : ValueAt(k)' = IF k = Key(t) THEN y ELSE ValueAt(k)
    BY <1>1 DEF Effect
  <2> QED BY <2>1, <2>2 DEF Held
<1>4. Held[Key(t)] = ValueAt(Key(t))
  BY <1>1 DEF Held
<1>5. answer' = [answer EXCEPT ![t] = IF call[t].op = "find" THEN Held[call[t].key] ELSE None]
  BY <1>1, <1>2, <1>4
<1>6. Held' = CASE call[t].op = "insert" -> [Held EXCEPT ![call[t].key] = call[t].value]
                [] call[t].op = "update" ->
                     [Held EXCEPT ![call[t].key] = IF @ = None THEN @ ELSE @ + call[t].value]
                [] call[t].op = "erase"  -> [Held EXCEPT ![call[t].key] = None]
                [] call[t].op = "find"   -> Held
  <2>1. CASE call[t].op = "insert"
    BY <1>1, <1>3, <2>1
  <2>2. CASE call[t].op = "update"
    BY <1>1, <1>3, <1>4, <2>2 DEF Updated
  <2>3. CASE call[t].op = "erase"
    BY <1>1, <1>3, <2>3
  <2>4. CASE call[t].op = "find"
    <3>1. Held' = Held
      BY <1>1, <1>3, <1>4, <2>4 DEF Held
    <3> QED BY <2>4, <3>1
  <2> QED BY <1>1, <2>1, <2>2, <2>3, <2>4
<1> QED BY <1>1, <1>2, <1>5, <1>6, HeldIsMap
        DEF Map!TakeEffect, Map!Insert, Map!Update, Map!Erase

(* The other steps of a call leave the map alone. *)
LEMMA NoEffectMap ==
  ASSUME NoEffect, call' = call, answer' = answer
  PROVE  UNCHANGED Map!mapVars
<1>1. \A k \in Keys : ValueAt(k)' = ValueAt(k)
  BY KeysAssumption DEF NoEffect
<1>2. Held' = [k \in Keys |-> ValueAt(k)']
  BY DEF Held
<1>3. Held' = Held
  BY <1>1, <1>2 DEF Held
<1> QED BY <1>3, HeldIsMap DEF Map!mapVars

(* The steps of a call: those that answer it, and the others. *)
GoesOn(t) == /\ call' = call /\ answer' = answer /\ pc[t] # "client" /\ pc'[t] # "client"
             /\ \A u \in Threads \ {t} : pc'[u] = pc[u]
Answers(t) == Overwrite(t) \/ Add(t) \/ UpdateLeaf(t) \/ EraseLeaf(t) \/ FindLeaf(t)
LEMMA StepKinds ==
  ASSUME TreeInv, NEW t \in Threads, Steps(t), ~Answers(t)
  PROVE  GoesOn(t) /\ (node' = node \/ SplitInner(t) \/ SplitLeaf(t))
<1>0. DOMAIN pc = Threads
  BY DEF TreeInv, LocalTypes
<1>1. ASSUME NEW x \in {"root", "descend", "inner", "leaf", "write"}, Go(t, x), pc[t] # "client",
             UNCHANGED client
      PROVE  GoesOn(t)
  BY <1>0, <1>1 DEF GoesOn, Go, client
<1>2. CASE ReadHeader(t) \/ RepinRoot(t) \/ RetryExclusive(t)
  <2>1. node' = node /\ UNCHANGED client /\ Go(t, "root") /\ pc[t] # "client"
    BY <1>2 DEF ReadHeader, RepinRoot, RetryExclusive, AtLeaf, At, tree
  <2> QED BY <1>1, <2>1
<1>3. CASE PinRoot(t)
  <2>1. node' = node /\ UNCHANGED client /\ pc[t] # "client"
    BY <1>3 DEF PinRoot, At, tree
  <2>2. \E x \in {"leaf", "inner", "descend"} : Go(t, x)
    BY <1>3 DEF PinRoot
  <2> QED BY <1>1, <2>1, <2>2
<1>4. CASE PinChild(t)
  <2>1. node' = node /\ UNCHANGED client /\ pc[t] # "client"
    BY <1>4 DEF PinChild, At, tree
  <2>2. \E x \in {"leaf", "inner", "descend"} : Go(t, x)
    BY <1>4 DEF PinChild
  <2> QED BY <1>1, <2>1, <2>2
<1>5. CASE Passes(t)
  <2>1. node' = node /\ UNCHANGED client /\ pc[t] # "client" /\ Go(t, "descend")
    BY <1>5 DEF Passes, At, tree
  <2> QED BY <1>1, <2>1
<1>6. CASE SplitInner(t)
  <2>1. UNCHANGED client /\ pc[t] # "client" /\ Go(t, "descend")
    BY <1>6 DEF SplitInner, At
  <2> QED BY <1>1, <1>6, <2>1
<1>7. CASE KeepLeaf(t)
  <2>1. node' = node /\ UNCHANGED client /\ pc[t] # "client" /\ Go(t, "write")
    BY <1>7 DEF KeepLeaf, AtLeaf, At, tree
  <2> QED BY <1>1, <2>1
<1>8. CASE SplitLeaf(t)
  <2>1. UNCHANGED client /\ pc[t] # "client" /\ Go(t, "write")
    BY <1>8 DEF SplitLeaf, AtLeaf, At
  <2> QED BY <1>1, <1>8, <2>1
<1> QED BY <1>2, <1>3, <1>4, <1>5, <1>6, <1>7, <1>8 DEF Steps, Answers

LEMMA SplitEffect ==
  ASSUME TreeInv, Contents, Contents', NEW t \in Threads, SplitInner(t) \/ SplitLeaf(t)
  PROVE  NoEffect
<1>1. CASE SplitInner(t)
  <2>1. pc[t] = "inner" /\ Full(node[current[t]])
    BY <1>1 DEF SplitInner, At, HasRoom, Here
  <2>2. CASE parent[t] = None
    <3>1. current[t] = Root
      BY <2>1, <2>2, InCall DEF CurrentOK
    <3>2. SplitRoot(t)
      BY <1>1, <2>2 DEF SplitInner
    <3> QED BY <2>1, <3>1, <3>2, RootSplitEffect
  <2>3. CASE parent[t] # None
    <3>1. SplitChild(t)
      BY <1>1, <2>3 DEF SplitInner
    <3> QED BY <2>1, <2>3, <3>1, ChildSplitEffect
  <2> QED BY <2>2, <2>3
<1>2. CASE SplitLeaf(t)
  <2>1. pc[t] = "leaf" /\ Full(node[current[t]])
    BY <1>2 DEF SplitLeaf, AtLeaf, At, Here
  <2>2. CASE current[t] = Root
    <3>1. SplitRoot(t)
      BY <1>2, <2>2 DEF SplitLeaf, InRoot
    <3> QED BY <2>1, <2>2, <3>1, RootSplitEffect
  <2>3. CASE current[t] # Root
    <3>1. SplitChild(t) /\ exclusiveMode[t]
      BY <1>2, <2>3 DEF SplitLeaf, InRoot
    <3>2. parent[t] # None
      BY <2>1, <2>3, <3>1, InCall DEF CurrentOK
    <3> QED BY <2>1, <3>1, <3>2, ChildSplitEffect
  <2> QED BY <2>2, <2>3
<1> QED BY <1>1, <1>2

LEMMA AnswersMap ==
  ASSUME TreeInv, SearchInv, SeesItsKey, Arrives, Contents, Contents', NEW t \in Threads,
         Answers(t)
  PROVE  Map!TakeEffect(t)
<1>1. CASE Overwrite(t) \/ Add(t)
  <2>1. pc[t] = "write" /\ Answer(t, None)
    BY <1>1 DEF Overwrite, Add, At
  <2>2. call[t].op = "insert" /\ Effect(Key(t), call[t].value)
    BY <1>1, <2>1, InCall, OverwriteEffect, AddEffect DEF StartOK
  <2> QED BY <2>1, <2>2, TakesEffect
<1>2. CASE UpdateLeaf(t)
  <2>1. pc[t] = "leaf" /\ Answer(t, None) /\ call[t].op = "update" /\ Effect(Key(t), Updated(t))
    BY <1>2, UpdateEffect DEF UpdateLeaf, AtUnique, At, Op
  <2> QED BY <2>1, TakesEffect
<1>3. CASE EraseLeaf(t)
  <2>1. pc[t] = "leaf" /\ Answer(t, None) /\ call[t].op = "erase" /\ Effect(Key(t), None)
    BY <1>3, EraseEffect DEF EraseLeaf, AtUnique, At, Op
  <2> QED BY <2>1, TakesEffect
<1>4. CASE FindLeaf(t)
  <2>1. pc[t] = "leaf" /\ call[t].op = "find" /\ node' = node
        /\ Answer(t, ValueIn(Here(t), Key(t)))
    BY <1>4 DEF FindLeaf, At, Op, tree
  <2>2. ValueIn(Here(t), Key(t)) = ValueAt(Key(t))
    BY <2>1, AnswerIsValue
  <2>3. Effect(Key(t), ValueAt(Key(t)))
    BY <2>1, QuietEffect DEF Effect, NoEffect
  <2> QED BY <2>1, <2>2, <2>3, TakesEffect
<1> QED BY <1>1, <1>2, <1>3, <1>4 DEF Answers

(* A call begins. *)
LEMMA BeginMap ==
  ASSUME TreeInv, Idle, Contents, Contents', NEW t \in Threads, NEW c \in CallType, Begin(t, c)
  PROVE  Map!Begin(t)
<1>1. /\ pc[t] = "client" /\ call' = [call EXCEPT ![t] = c] /\ node' = node /\ answer' = answer
  BY DEF Begin, At, tree
<1>2. call[t] = None /\ call'[t] = c /\ c # None
  BY <1>1, ThreadsAssumption DEF Idle, TreeInv, LocalTypes
<1>3. Held' = Held
  <2>1. NoEffect
    BY <1>1, QuietEffect
  <2>2. Held' = [k \in Keys |-> ValueAt(k)'] /\ \A k \in Keys : ValueAt(k)' = ValueAt(k)
    BY <2>1, KeysAssumption DEF Held, NoEffect
  <2> QED BY <2>2 DEF Held
<1> QED BY <1>1, <1>2, <1>3, HeldIsMap DEF Map!Begin

LEMMA NextMap ==
  ASSUME TreeInv, SearchInv, SeesItsKey, Idle, Arrives, Contents, Contents', [Next]_vars
  PROVE  [Map!MapNext]_(Map!mapVars)
<1>1. ASSUME UNCHANGED <<node, call, answer>> PROVE UNCHANGED Map!mapVars
  BY <1>1, QuietEffect, NoEffectMap
<1>2. CASE Close \/ Reopen \/ UNCHANGED vars
  BY <1>1, <1>2 DEF Close, Reopen, vars, tree, client
<1>3. ASSUME NEW t \in Threads, Steps(t) PROVE [Map!MapNext]_(Map!mapVars)
  <2>1. CASE Answers(t)
    BY <2>1, AnswersMap DEF Map!MapNext
  <2>2. CASE ~Answers(t)
    <3>1. GoesOn(t) /\ (node' = node \/ SplitInner(t) \/ SplitLeaf(t))
      BY <1>3, <2>2, StepKinds
    <3>2. NoEffect
      BY <3>1, SplitEffect, QuietEffect
    <3> QED BY <3>1, <3>2, NoEffectMap DEF GoesOn
  <2> QED BY <2>1, <2>2
<1>4. ASSUME NEW t \in Threads, NEW c \in CallType, Begin(t, c) PROVE Map!MapNext
  BY <1>4, BeginMap DEF Map!MapNext
<1>5. ASSUME NEW t \in Threads, Load(t) PROVE Map!MapNext
  <2> DEFINE c == [op |-> "insert", key |-> Preload[loaded + 1], value |-> 1]
  <2>1. Begin(t, c) /\ loaded < Len(Preload) /\ loaded \in Nat
    BY <1>5 DEF Load, TreeInv, LocalTypes
  <2>2. Preload \in Seq(Keys)
    BY KeysAssumption
  <2>3. Preload[loaded + 1] \in Keys
    BY <2>1, <2>2
  <2>4. c \in CallType
    BY <2>3 DEF CallType
  <2> QED BY <1>4, <2>1, <2>4
<1>6. ASSUME NEW t \in Threads, NEW n \in DOMAIN Operations[t],
             NEW c \in Operations[t][n], Call(t, c)
      PROVE  Map!MapNext
  <2>1. Begin(t, c) /\ c \in CallType
    BY <1>6, OperationsAssumption DEF Call
  <2> QED BY <1>4, <2>1
<1> QED BY <1>2, <1>3, <1>5, <1>6 DEF Next

LEMMA IdleInit == Init => Idle
BY DEF Init, Idle

LEMMA IdleNext ==
  ASSUME TreeInv, Idle, [Next]_vars
  PROVE  Idle'
<1>0. DOMAIN pc = Threads /\ DOMAIN call = Threads
  BY DEF TreeInv, LocalTypes
<1>1. ASSUME UNCHANGED <<pc, call>> PROVE Idle'
  BY <1>1 DEF Idle
<1>2. CASE Close \/ Reopen \/ UNCHANGED vars
  BY <1>1, <1>2 DEF Close, Reopen, vars, client, locals
<1>3. ASSUME NEW t \in Threads, Steps(t) PROVE Idle'
  <2>1. CASE Answers(t)
    <3>1. PICK r : Answer(t, r)
      BY <2>1 DEF Answers, Overwrite, Add, UpdateLeaf, EraseLeaf, FindLeaf
    <3>2. /\ call' = [call EXCEPT ![t] = None] /\ pc' = [pc EXCEPT ![t] = "client"]
      BY <3>1 DEF Answer, Go
    <3> QED BY <1>0, <3>2 DEF Idle
  <2>2. CASE ~Answers(t)
    <3>1. GoesOn(t)
      BY <1>3, <2>2, StepKinds
    <3> QED BY <3>1 DEF GoesOn, Idle
  <2> QED BY <2>1, <2>2
<1>4. ASSUME NEW t \in Threads, NEW c, Begin(t, c) PROVE Idle'
  <2>1. call' = [call EXCEPT ![t] = c] /\ \E l \in {"header", "root"} : pc' = [pc EXCEPT ![t] = l]
    BY <1>4 DEF Begin, Go
  <2> QED BY <1>0, <2>1 DEF Idle
<1>5. ASSUME NEW t \in Threads, Load(t) PROVE Idle'
  BY <1>4, <1>5 DEF Load
<1>6. ASSUME NEW t \in Threads, NEW n \in DOMAIN Operations[t],
             NEW c \in Operations[t][n], Call(t, c)
      PROVE  Idle'
  BY <1>4, <1>6 DEF Call
<1> QED BY <1>2, <1>3, <1>5, <1>6 DEF Next

(* An empty leaf is an empty map. *)
LEMMA InitMap ==
  ASSUME Init, Contents
  PROVE  Map!MapInit
<1>1. node = [p \in {Root} |-> EmptyLeaf] /\ call = [t \in Threads |-> None]
      /\ answer = [t \in Threads |-> None]
  BY DEF Init
<1>2. ASSUME NEW k \in Keys PROVE ValueAt(k) = None
  <2>1. k \in Nat
    BY KeysAssumption
  <2>2. \A v \in Nat : ~InTree(k, v)
    <3>1. ASSUME NEW v \in Nat, NEW p \in Created PROVE ~HasPair(node[p], k, v)
      <4>1. node[p] = EmptyLeaf
        BY <1>1 DEF Created
      <4>2. EmptyLeaf.size = 0
        BY DEF EmptyLeaf, Leaf
      <4> QED BY <4>1, <4>2 DEF HasPair, PairIn, PairAt
    <3> QED BY <3>1 DEF InTree
  <2> QED BY <2>1, <2>2 DEF Contents
<1>3. Held = [k \in Keys |-> None]
  BY <1>2 DEF Held
<1> QED BY <1>1, <1>3, HeldIsMap DEF Map!MapInit

(* The B-tree is a map: each operation takes effect at one moment between   *)
(* its call and its answer, and a find answers what the map holds then, as  *)
(* long as an insert reads through keyIt whether its key is there.          *)
THEOREM IsMap == Spec /\ []SeesItsKey => ImplementsMap
<1>1. TreeInv /\ SearchInv => Arrives /\ Contents
  BY SearchFinds, ContentsOK
<1>2. Init /\ Contents => Map!MapInit
  BY InitMap
<1>3. /\ TreeInv /\ SearchInv /\ SeesItsKey /\ Idle /\ Arrives /\ Contents /\ Contents'
      /\ [Next]_vars
      => [Map!MapNext]_(Map!mapVars)
  BY NextMap
<1>4. Init => Idle
  BY IdleInit
<1>5. TreeInv /\ Idle /\ [Next]_vars => Idle'
  BY IdleNext
<1> QED BY <1>1, <1>2, <1>3, <1>4, <1>5, TreeInvariant, SearchInvariant, PTL
        DEF Spec, ImplementsMap, Map!MapSpec

(* For a single writer and any number of readers it is a map, whatever the  *)
(* tree goes through.                                                       *)
THEOREM SingleWriterMap ==
  ASSUME NEW w \in Threads, OnlyWriter(w)
  PROVE  Spec => ImplementsMap
<1>1. Spec => []SeesItsKey
  BY SingleWriterSees
<1> QED BY <1>1, IsMap, PTL

=============================================================================
