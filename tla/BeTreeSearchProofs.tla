-------------------------- MODULE BeTreeSearchProofs --------------------------
(***************************************************************************)
(* Theorems about the order of the B-epsilon-tree: the pages form a search *)
(* tree while threads split nodes and flush messages at once.  The         *)
(* invariant is SearchInv of BeTreeInv.  Every page has a home, the keys a *)
(* search for which comes to it; a split divides the home of a page        *)
(* between its halves, so the proof never follows a path through the tree, *)
(* and a step is checked at the pages it changes.  Two conditions exclude  *)
(* what breaks the tree: NothingForgotten, and a root whose pivots are not *)
(* a multiple of those its parts take (BeTree.h:374-405 loses a child).    *)
(***************************************************************************)
EXTENDS BeTreeRoomProofs

(***************************************************************************)
(* Pivots in order.                                                        *)
(***************************************************************************)
(* The index of a child is known by the pivots on both sides of it. *)
LEMMA IndexIs ==
  ASSUME NEW n, NEW L \in Nat, DOMAIN n.pivots = 1 .. L, NEW k, NEW y \in 1 .. L + 1,
         \A j \in 1 .. L : j < y <=> n.pivots[j] < k
  PROVE  ChildIndex(n, k) = y
<1>1. {j \in DOMAIN n.pivots : n.pivots[j] < k} = 1 .. y - 1
  <2> DEFINE p == n.pivots
  <2>1. \A j \in 1 .. L : j < y <=> p[j] < k
    OBVIOUS
  <2> HIDE DEF p
  <2>2. {j \in 1 .. L : p[j] < k} = {j \in 1 .. L : j < y}
    BY <2>1
  <2>3. {j \in 1 .. L : j < y} = 1 .. y - 1
    OBVIOUS
  <2> QED BY <2>2, <2>3 DEF p
<1>2. Cardinality(1 .. y - 1) = y - 1
  BY FS_Interval
<1>3. 1 + (y - 1) = y
  OBVIOUS
<1> QED BY <1>1, <1>2, <1>3 DEF ChildIndex

(* Where lower_bound leads to, by the pivots around the key. *)
LEMMA IndexOfChild ==
  ASSUME NEW n, NEW L \in Nat, DOMAIN n.pivots = 1 .. L, Increases(n.pivots),
         Range(n.pivots) \subseteq Nat, NEW k \in Nat
  PROVE  /\ ChildIndex(n, k) \in 1 .. L + 1
         /\ \A j \in 1 .. L : j < ChildIndex(n, k) <=> n.pivots[j] < k
         /\ \A j \in 1 .. L : j >= ChildIndex(n, k) <=> k <= n.pivots[j]
<1> DEFINE p == n.pivots
           Y == {y \in 1 .. L + 1 : y = L + 1 \/ k <= p[y]}
<1>1. DOMAIN p = 1 .. L /\ (\A i \in 1 .. L : p[i] \in Nat)
      /\ \A i, j \in 1 .. L : i < j => p[i] < p[j]
  BY DEF Range, Increases
<1> HIDE DEF p
<1>2. PICK y \in Y : \A x \in Y : y <= x
  <2>1. L + 1 \in Y /\ Y \subseteq Nat
    OBVIOUS
  <2> HIDE DEF Y
  <2> QED BY <2>1, LeastNat
<1>3. y \in 1 .. L + 1 /\ (y = L + 1 \/ k <= p[y])
  OBVIOUS
<1>4. ASSUME NEW j \in 1 .. L PROVE j < y <=> p[j] < k
  <2>1. CASE j < y
    <3>1. j \notin Y
      BY <1>2, <2>1
    <3>2. ~(k <= p[j])
      BY <3>1
    <3> QED BY <1>1, <2>1, <3>2
  <2>2. CASE ~(j < y)
    <3>1. y \in 1 .. L /\ k <= p[y]
      BY <1>3, <2>2
    <3>2. p[y] <= p[j]
      BY <1>1, <2>2, <3>1
    <3> QED BY <1>1, <2>2, <3>1, <3>2
  <2> QED BY <2>1, <2>2
<1>5. ChildIndex(n, k) = y
  BY <1>3, <1>4, IndexIs DEF p
<1>6. \A j \in 1 .. L : j >= y <=> k <= p[j]
  BY <1>1, <1>3, <1>4
<1> QED BY <1>3, <1>4, <1>5, <1>6 DEF p

(***************************************************************************)
(* insertPivots.                                                           *)
(***************************************************************************)
(* Where the sequences are that FlattenSeq puts one behind the other. *)
StartsAt(at, s, n) ==
  /\ at \in [1 .. n -> Nat] /\ at[1] = 0
  /\ \A i \in 1 .. n : i < n => at[i + 1] = at[i] + Len(s[i])
PartsAt(flat, at, s, n) ==
  /\ Len(flat) = at[n] + Len(s[n])
  /\ \A i \in 1 .. n : at[i] + Len(s[i]) <= Len(flat)
  /\ \A i \in 1 .. n : \A j \in 1 .. Len(s[i]) : flat[at[i] + j] = s[i][j]
  /\ \A x \in 1 .. Len(flat) : \E i \in 1 .. n : \E j \in 1 .. Len(s[i]) : x = at[i] + j
LEMMA FlattenedAt ==
  ASSUME NEW S, NEW n \in Nat \ {0}, NEW s \in [1 .. n -> Seq(S)], NEW at, StartsAt(at, s, n)
  PROVE  PartsAt(FlattenSeq(s), at, s, n)
<1>1. PICK f \in [1 .. n -> Seq(S)] : Flattened(f, s, n)
  BY Flattens
<1>0. \A i \in 1 .. n : at[i] \in Nat /\ Len(s[i]) \in Nat
  <2> TAKE i \in 1 .. n
  <2>1. s[i] \in Seq(S)
    OBVIOUS
  <2> QED BY <2>1, LenProperties DEF StartsAt
<1> DEFINE Bad == {m \in 1 .. n : ~PartsAt(f[m], at, s, m)}
<1>2. Bad = {}
  <2> SUFFICES ASSUME Bad # {} PROVE FALSE
    OBVIOUS
  <2>1. PICK m \in Bad : \A y \in Bad : m <= y
    <3>1. Bad \subseteq Nat
      OBVIOUS
    <3> HIDE DEF Bad
    <3> QED BY <3>1, LeastNat
  <2>2. m \in 1 .. n /\ ~PartsAt(f[m], at, s, m)
    OBVIOUS
  <2>3. CASE m = 1
    <3>1. f[1] = s[1] /\ at[1] = 0 /\ 1 \in 1 .. n /\ s[1] \in Seq(S)
      BY <1>1 DEF Flattened, StartsAt
    <3> DEFINE u == s[1]
    <3>2. Len(u) \in Nat /\ u \in Seq(S)
      BY <3>1, LenProperties
    <3>3. PartsAt(u, at, s, 1)
      <4>1. Len(u) = at[1] + Len(s[1])
        BY <3>1, <3>2
      <4>4. \A i \in 1 .. 1 : at[i] + Len(s[i]) <= Len(u)
        BY <3>1, <3>2
      <4>2. \A i \in 1 .. 1 : \A j \in 1 .. Len(s[i]) : u[at[i] + j] = s[i][j]
        <5>1. \A j \in 1 .. Len(s[1]) : at[1] + j = j
          BY <3>1, <3>2
        <5> QED BY <5>1
      <4>3. \A x \in 1 .. Len(u) : \E i \in 1 .. 1 : \E j \in 1 .. Len(s[i]) : x = at[i] + j
        <5>1. \A x \in 1 .. Len(u) : x \in 1 .. Len(s[1]) /\ x = at[1] + x
          BY <3>1, <3>2
        <5>2. 1 \in 1 .. 1
          OBVIOUS
        <5> QED BY <5>1, <5>2
      <4> QED BY <4>1, <4>2, <4>3, <4>4 DEF PartsAt
    <3> QED BY <2>2, <2>3, <3>1, <3>3
  <2>4. CASE m # 1
    <3>0. m \in Nat /\ m - 1 \in 1 .. n /\ m \in 2 .. n /\ (m - 1) + 1 = m /\ m - 1 < n
      BY <2>2, <2>4
    <3>1. PartsAt(f[m - 1], at, s, m - 1)
      <4>1. m - 1 \notin Bad
        <5> HIDE DEF Bad
        <5> QED BY <2>1, <3>0
      <4> QED BY <3>0, <4>1
    <3> DEFINE u == f[m - 1]
               v == s[m]
               a == at[m]
    <3>2. u \in Seq(S) /\ v \in Seq(S) /\ f[m] = u \o v /\ s[m - 1] \in Seq(S)
      BY <1>1, <2>2, <3>0 DEF Flattened
    <3>3. a \in Nat /\ a = at[m - 1] + Len(s[m - 1]) /\ Len(u) = a
      BY <2>2, <3>0, <3>1 DEF StartsAt, PartsAt
    <3>4. /\ Len(v) \in Nat /\ Len(u \o v) = a + Len(v)
          /\ \A x \in 1 .. a : (u \o v)[x] = u[x]
          /\ \A j \in 1 .. Len(v) : (u \o v)[a + j] = v[j]
      <4> HIDE DEF u, v, a
      <4>1. Len(v) \in Nat /\ Len(u \o v) = Len(u) + Len(v)
        BY <3>2, ConcatProperties, LenProperties
      <4>2. \A x \in 1 .. Len(u) + Len(v) : (u \o v)[x] = IF x <= Len(u) THEN u[x] ELSE v[x - Len(u)]
        BY <3>2, ConcatProperties
      <4>3. ASSUME NEW x \in 1 .. a PROVE (u \o v)[x] = u[x]
        <5> DEFINE b == Len(u)
                   c == Len(v)
        <5>0. b = a /\ a \in Nat /\ c \in Nat
          BY <3>3, <4>1
        <5> HIDE DEF b, c
        <5>1. x \in 1 .. b + c /\ x <= b
          BY <5>0
        <5> QED BY <4>2, <5>1 DEF b, c
      <4>4. ASSUME NEW j \in 1 .. Len(v) PROVE (u \o v)[a + j] = v[j]
        <5> DEFINE b == Len(u)
                   c == Len(v)
        <5>0. b = a /\ a \in Nat /\ c \in Nat /\ j \in 1 .. c
          BY <3>3, <4>1
        <5> HIDE DEF b, c
        <5>1. a + j \in 1 .. b + c /\ ~(a + j <= b) /\ (a + j) - b = j
          BY <5>0
        <5> QED BY <4>2, <5>1 DEF b, c
      <4> QED BY <3>3, <4>1, <4>3, <4>4
    <3> DEFINE w == u \o v
    <3>5. Len(w) = at[m] + Len(s[m])
      BY <3>4
    <3>6. /\ \A i \in 1 .. m - 1 : \A j \in 1 .. Len(s[i]) : u[at[i] + j] = s[i][j]
          /\ \A x \in 1 .. Len(u) : \E i \in 1 .. m - 1 : \E j \in 1 .. Len(s[i]) : x = at[i] + j
      BY <3>1 DEF PartsAt
    <3>7. ASSUME NEW i \in 1 .. m - 1, NEW j \in 1 .. Len(s[i])
          PROVE  at[i] + j \in 1 .. a
      <4>1. at[i] + Len(s[i]) <= a /\ at[i] \in Nat /\ Len(s[i]) \in Nat
        BY <1>0, <2>2, <3>0, <3>1, <3>3, SMTT(30) DEF PartsAt
      <4> DEFINE b == at[i]
                 c == Len(s[i])
      <4>2. b + c <= a /\ b \in Nat /\ c \in Nat /\ j \in 1 .. c /\ a \in Nat
        BY <3>3, <4>1
      <4> HIDE DEF b, c, a
      <4>3. b + j \in 1 .. a
        BY <4>2
      <4> QED BY <4>3 DEF b, c, a
    <3>8. \A i \in 1 .. m : \A j \in 1 .. Len(s[i]) : w[at[i] + j] = s[i][j]
      <4> SUFFICES ASSUME NEW i \in 1 .. m, NEW j \in 1 .. Len(s[i]) PROVE w[at[i] + j] = s[i][j]
        OBVIOUS
      <4>1. CASE i = m
        BY <3>4, <4>1
      <4>2. CASE i # m
        <5>1. i \in 1 .. m - 1
          BY <3>0, <4>2
        <5>2. at[i] + j \in 1 .. a
          BY <3>7, <5>1
        <5> QED BY <3>4, <3>6, <5>1, <5>2
      <4> QED BY <4>1, <4>2
    <3>9. \A x \in 1 .. Len(w) : \E i \in 1 .. m : \E j \in 1 .. Len(s[i]) : x = at[i] + j
      <4> SUFFICES ASSUME NEW x \in 1 .. Len(w)
                   PROVE \E i \in 1 .. m : \E j \in 1 .. Len(s[i]) : x = at[i] + j
        OBVIOUS
      <4>1. CASE x <= a
        <5>1. x \in 1 .. Len(u)
          BY <3>3, <4>1
        <5>2. PICK i \in 1 .. m - 1 : \E j \in 1 .. Len(s[i]) : x = at[i] + j
          BY <3>6, <5>1
        <5>3. i \in 1 .. m
          BY <3>0
        <5> QED BY <5>2, <5>3
      <4>2. CASE ~(x <= a)
        <5>1. x - a \in 1 .. Len(v) /\ x = a + (x - a)
          <6>1. Len(w) = a + Len(v) /\ Len(v) \in Nat /\ a \in Nat
            BY <3>3, <3>4
          <6> HIDE DEF w, v, a
          <6> QED BY <4>2, <6>1
        <5>2. m \in 1 .. m
          BY <3>0
        <5> QED BY <5>1, <5>2
      <4> QED BY <4>1, <4>2
    <3>11. \A i \in 1 .. m : at[i] + Len(s[i]) <= Len(w)
      <4> SUFFICES ASSUME NEW i \in 1 .. m PROVE at[i] + Len(s[i]) <= Len(w)
        OBVIOUS
      <4>1. CASE i = m
        <5>1. at[m] + Len(s[m]) \in Nat
          BY <3>3, <3>4, SMTT(30)
        <5> DEFINE c == at[m] + Len(s[m])
                   d == Len(w)
        <5>2. c \in Nat /\ d = c
          BY <3>5, <5>1
        <5> HIDE DEF c, d
        <5>3. c <= d
          BY <5>2
        <5> QED BY <4>1, <5>3 DEF c, d
      <4>2. CASE i # m
        <5>1. i \in 1 .. m - 1 /\ i \in 1 .. n
          BY <2>2, <3>0, <4>2
        <5>2. at[i] + Len(s[i]) <= a /\ at[i] \in Nat /\ Len(s[i]) \in Nat
          BY <1>0, <3>1, <3>3, <5>1 DEF PartsAt
        <5>3. Len(w) = a + Len(v) /\ Len(v) \in Nat /\ a \in Nat
          BY <3>3, <3>4
        <5> DEFINE b == at[i]
                   c == Len(s[i])
                   d == Len(w)
                   e == Len(v)
        <5>4. b + c <= a /\ b \in Nat /\ c \in Nat /\ d = a + e /\ e \in Nat /\ a \in Nat
          BY <5>2, <5>3
        <5> HIDE DEF a, b, c, d, e
        <5>5. b + c <= d
          BY <5>4
        <5> QED BY <5>5 DEF b, c, d
      <4> QED BY <4>1, <4>2
    <3>10. PartsAt(w, at, s, m)
      <4> HIDE DEF w
      <4> QED BY <3>5, <3>8, <3>9, <3>11 DEF PartsAt
    <3> QED BY <2>2, <3>2, <3>10
  <2> QED BY <2>3, <2>4
<1>3. PartsAt(f[n], at, s, n)
  <2>1. n \in 1 .. n
    OBVIOUS
  <2> QED BY <1>2, <2>1
<1> QED BY <1>1, <1>3 DEF Flattened

(* How many numbers of a set are smaller. *)
LEMMA RankStep ==
  ASSUME NEW S \in SUBSET Nat, IsFiniteSet(S), NEW i \in Nat, NEW j \in Nat, i < j
  PROVE  /\ Rank(S, i) \in Nat /\ Rank(S, j) \in Nat
         /\ Rank(S, i) + (IF i \in S THEN 1 ELSE 0) <= Rank(S, j)
         /\ j = i + 1 => Rank(S, j) = Rank(S, i) + (IF i \in S THEN 1 ELSE 0)
<1> DEFINE A == {x \in S : x < i}
           B == {x \in S : x < j}
           C == A \cup (S \cap {i})
<1>0. \A x \in S : x \in Nat
  OBVIOUS
<1>1. A \subseteq S /\ B \subseteq S /\ C \subseteq B /\ i \notin A
  <2>1. A \subseteq S /\ B \subseteq S /\ i \notin A
    OBVIOUS
  <2>2. ASSUME NEW x \in C PROVE x \in S /\ x < j
    <3>1. x \in S /\ (x < i \/ x = i)
      OBVIOUS
    <3> QED BY <1>0, <3>1
  <2> QED BY <2>1, <2>2
<1>2. j = i + 1 => C = B
  <2>1. ASSUME NEW x \in B, j = i + 1 PROVE x \in C
    <3>1. x \in S /\ x < i + 1
      BY <2>1
    <3>2. x < i \/ x = i
      BY <1>0, <3>1
    <3> QED BY <3>1, <3>2
  <2> QED BY <1>1, <2>1
<1>3. Rank(S, i) = Cardinality(A) /\ Rank(S, j) = Cardinality(B)
  BY DEF Rank
<1>4. i \in S => C = A \cup {i}
  OBVIOUS
<1>5. i \notin S => C = A
  OBVIOUS
<1> HIDE DEF A, B, C
<1>6. IsFiniteSet(A) /\ Cardinality(A) \in Nat /\ IsFiniteSet(B) /\ Cardinality(B) \in Nat
  BY <1>1, PartOfFinite
<1>7. Cardinality(C) <= Cardinality(B)
  BY <1>1, <1>6, PartOfFinite
<1>8. CASE i \in S
  <2>1. Cardinality(A \cup {i}) = Cardinality(A) + 1
    BY <1>1, <1>6, FS_AddElement
  <2> QED BY <1>2, <1>3, <1>4, <1>6, <1>7, <1>8, <2>1
<1>9. CASE i \notin S
  BY <1>2, <1>3, <1>5, <1>6, <1>7, <1>9
<1> QED BY <1>8, <1>9

(* Short sequences. *)
LEMMA JoinTwo ==
  ASSUME NEW a, NEW b
  PROVE  <<a>> \o <<b>> = <<a, b>> /\ <<>> \o <<b>> = <<b>> /\ <<a>> \o <<>> = <<a>>
<1> DEFINE S == {a, b}
           u == <<a>>
           v == <<b>>
           w == <<a, b>>
<1>1. u \in Seq(S) /\ v \in Seq(S) /\ w \in Seq(S)
  OBVIOUS
<1>2. Len(u) = 1 /\ Len(v) = 1 /\ Len(w) = 2 /\ u[1] = a /\ v[1] = b /\ w[1] = a /\ w[2] = b
  OBVIOUS
<1> HIDE DEF u, v, w
<1>3. u \o <<>> = u /\ <<>> \o v = v
  BY <1>1, ConcatEmptySeq
<1>4. /\ u \o v \in Seq(S) /\ Len(u \o v) = 2
      /\ \A i \in 1 .. 2 : (u \o v)[i] = IF i <= 1 THEN u[i] ELSE v[i - 1]
  <2>1. /\ u \o v \in Seq(S) /\ Len(u \o v) = Len(u) + Len(v)
        /\ \A i \in 1 .. Len(u) + Len(v) : (u \o v)[i] =
              IF i <= Len(u) THEN u[i] ELSE v[i - Len(u)]
    BY <1>1, ConcatProperties
  <2> QED BY <1>2, <2>1
<1>5. \A i \in 1 .. 2 : (u \o v)[i] = w[i]
  <2>1. (u \o v)[1] = a /\ (u \o v)[2] = b
    BY <1>2, <1>4
  <2> QED BY <1>2, <2>1
<1>6. u \o v = w
  <2> DEFINE z == u \o v
  <2>1. z \in Seq(S) /\ Len(z) = Len(w) /\ \A i \in 1 .. Len(z) : z[i] = w[i]
    BY <1>2, <1>4, <1>5
  <2> HIDE DEF z
  <2>2. z = w
    BY <1>1, <2>1, SeqEqual
  <2> QED BY <2>2 DEF z
<1> QED BY <1>3, <1>6 DEF u, v, w

(* A child and its pivot, and before that pivot the one of a split, take    *)
(* the places behind at[i].                                                 *)
Width(splits, i) == IF i \in DOMAIN splits THEN 2 ELSE 1
Placed(n, splits, new, at, m) ==
  /\ at \in [1 .. m -> Nat] /\ at[1] = 0
  /\ \A i \in 1 .. m : i < m => at[i + 1] = at[i] + Width(splits, i)
  /\ \A i, j \in 1 .. m : i < j => at[i] + Width(splits, i) <= at[j]
  /\ \A i \in 1 .. m : at[i] + 1 \in DOMAIN new.children /\ new.children[at[i] + 1] = n.children[i]
  /\ \A i \in DOMAIN splits :
       /\ at[i] + 2 \in DOMAIN new.children /\ new.children[at[i] + 2] = splits[i].page
       /\ at[i] + 1 \in DOMAIN new.pivots /\ new.pivots[at[i] + 1] = splits[i].pivot
  /\ \A i \in 1 .. m - 1 :
       /\ at[i] + Width(splits, i) \in DOMAIN new.pivots
       /\ new.pivots[at[i] + Width(splits, i)] = n.pivots[i]
  /\ \A x \in DOMAIN new.pivots :
       \/ \E i \in DOMAIN splits : x = at[i] + 1
       \/ \E i \in 1 .. m - 1 : x = at[i] + Width(splits, i)
LEMMA InsertedAt ==
  ASSUME NEW n, NEW below, BranchOK(n, below), NEW splits,
         n = Inner(n.pivots, n.children, n.upserts) \/ n = RootNode(n.pivots, n.children),
         DOMAIN splits \in SUBSET DOMAIN n.children
  PROVE  \E at : Placed(n, splits, InsertPivots(n, splits), at, Len(n.pivots) + 1)
<1> DEFINE m == Len(n.pivots) + 1
           D == DOMAIN splits
           S == Range(n.pivots) \cup {splits[i].pivot : i \in D}
           T == Range(n.children) \cup {splits[i].page : i \in D}
           first == [i \in DOMAIN n.children |->
              OneIf(i \in DOMAIN splits, splits[i].pivot) \o OneIf(i <= Len(n.pivots), n.pivots[i])]
           second == [i \in DOMAIN n.children |->
              <<n.children[i]>> \o OneIf(i \in DOMAIN splits, splits[i].page)]
           new == InsertPivots(n, splits)
           at == [i \in 1 .. m |-> i - 1 + Rank(D, i)]
<1>1. /\ Len(n.pivots) \in Nat /\ DOMAIN n.pivots = 1 .. Len(n.pivots)
      /\ DOMAIN n.children = 1 .. m /\ m \in Nat \ {0}
  BY BranchFacts
<1>2. new.pivots = FlattenSeq(first) /\ new.children = FlattenSeq(second)
  <2> DEFINE a == FlattenSeq(first)
             b == FlattenSeq(second)
  <2>1. new = [n EXCEPT !.pivots = a, !.children = b]
    BY DEF InsertPivots
  <2> HIDE DEF a, b, new
  <2>2. CASE n = Inner(n.pivots, n.children, n.upserts)
    <3>1. DOMAIN n = {"type", "pivots", "children", "upserts"}
      BY <2>2 DEF Inner
    <3> QED BY <2>1, <3>1 DEF a, b
  <2>3. CASE n = RootNode(n.pivots, n.children)
    <3>1. DOMAIN n = {"type", "pivots", "children"}
      BY <2>3 DEF RootNode
    <3> QED BY <2>1, <3>1 DEF a, b
  <2> QED BY <2>2, <2>3
<1>3. ASSUME NEW i \in 1 .. m
      PROVE  /\ first[i] \in Seq(S) /\ second[i] \in Seq(T)
             /\ Len(second[i]) = Width(splits, i)
             /\ Len(first[i]) = (IF i \in D THEN 1 ELSE 0) + (IF i < m THEN 1 ELSE 0)
             /\ second[i][1] = n.children[i]
             /\ i \in D => second[i][2] = splits[i].page /\ first[i][1] = splits[i].pivot
             /\ i < m => first[i][Width(splits, i)] = n.pivots[i]
  <2>1. first[i] = OneIf(i \in D, splits[i].pivot) \o OneIf(i <= Len(n.pivots), n.pivots[i])
        /\ second[i] = <<n.children[i]>> \o OneIf(i \in D, splits[i].page)
    BY <1>1
  <2>2. i <= Len(n.pivots) <=> i < m
    BY <1>1
  <2>3. n.children[i] \in T /\ (i < m => n.pivots[i] \in S)
        /\ (i \in D => splits[i].page \in T /\ splits[i].pivot \in S)
    BY <1>1, <2>2 DEF Range
  <2> DEFINE a == splits[i].pivot
             b == n.pivots[i]
             c == n.children[i]
             d == splits[i].page
  <2>4. /\ OneIf(i \in D, a) = IF i \in D THEN <<a>> ELSE <<>>
        /\ OneIf(i <= Len(n.pivots), b) = IF i < m THEN <<b>> ELSE <<>>
        /\ OneIf(i \in D, d) = IF i \in D THEN <<d>> ELSE <<>>
    BY <2>2 DEF OneIf
  <2> HIDE DEF a, b, c, d, first, second, S, T, m, D
  <2>5. /\ first[i] = (IF i \in D THEN <<a>> ELSE <<>>) \o (IF i < m THEN <<b>> ELSE <<>>)
        /\ second[i] = <<c>> \o (IF i \in D THEN <<d>> ELSE <<>>)
    BY <2>1, <2>4 DEF a, b, c, d, D
  <2>6. Width(splits, i) = IF i \in D THEN 2 ELSE 1
    BY DEF Width, D
  <2>7. c \in T /\ (i < m => b \in S) /\ (i \in D => d \in T /\ a \in S)
    BY <2>3 DEF a, b, c, d
  <2>8. CASE i \in D /\ i < m
    <3>1. first[i] = <<a, b>> /\ second[i] = <<c, d>>
      BY <2>5, <2>8, JoinTwo
    <3> QED BY <2>6, <2>7, <2>8, <3>1 DEF a, b, c, d
  <2>9. CASE i \in D /\ ~(i < m)
    <3>1. first[i] = <<a>> /\ second[i] = <<c, d>>
      BY <2>5, <2>9, JoinTwo
    <3> QED BY <2>6, <2>7, <2>9, <3>1 DEF a, b, c, d
  <2>10. CASE i \notin D /\ i < m
    <3>1. first[i] = <<b>> /\ second[i] = <<c>>
      BY <2>5, <2>10, JoinTwo
    <3> QED BY <2>6, <2>7, <2>10, <3>1 DEF a, b, c, d
  <2>11. CASE i \notin D /\ ~(i < m)
    <3>1. first[i] = <<>> /\ second[i] = <<c>>
      BY <2>5, <2>11
    <3> QED BY <2>6, <2>7, <2>11, <3>1 DEF a, b, c, d
  <2> QED BY <2>8, <2>9, <2>10, <2>11
<1>4. first \in [1 .. m -> Seq(S)] /\ second \in [1 .. m -> Seq(T)]
  <2>1. first = [i \in 1 .. m |-> first[i]] /\ second = [i \in 1 .. m |-> second[i]]
    BY <1>1
  <2> HIDE DEF first, second, S, T, m
  <2> QED BY <1>3, <2>1
<1>5. D \in SUBSET Nat /\ IsFiniteSet(D) /\ D \subseteq 1 .. m
  <2>1. D \in SUBSET (1 .. m) /\ IsFiniteSet(1 .. m)
    BY <1>1, FS_Interval
  <2> HIDE DEF D, m
  <2>2. IsFiniteSet(D)
    BY <2>1, FS_Subset
  <2> QED BY <2>1, <2>2
<1> HIDE DEF first, second, S, T, new, m, D
<1>6. \A i \in 1 .. m : Rank(D, i) \in Nat
  <2> TAKE i \in 1 .. m
  <2>1. i \in Nat /\ i + 1 \in Nat /\ i < i + 1
    BY <1>1
  <2> QED BY <1>5, <2>1, RankStep
<1>7. at \in [1 .. m -> Nat] /\ \A i \in 1 .. m : at[i] = i - 1 + Rank(D, i)
  <2>1. \A i \in 1 .. m : i - 1 + Rank(D, i) \in Nat
    BY <1>1, <1>6
  <2> QED BY <2>1
<1>8. \A i, j \in 1 .. m : i < j => at[i] + Width(splits, i) <= at[j]
                                   /\ (j = i + 1 => at[j] = at[i] + Width(splits, i))
  <2> SUFFICES ASSUME NEW i \in 1 .. m, NEW j \in 1 .. m, i < j
               PROVE  at[i] + Width(splits, i) <= at[j]
                      /\ (j = i + 1 => at[j] = at[i] + Width(splits, i))
    OBVIOUS
  <2>1. at[i] = i - 1 + Rank(D, i) /\ at[j] = j - 1 + Rank(D, j)
    BY <1>7
  <2>2. /\ Rank(D, i) \in Nat /\ Rank(D, j) \in Nat
        /\ Rank(D, i) + (IF i \in D THEN 1 ELSE 0) <= Rank(D, j)
        /\ j = i + 1 => Rank(D, j) = Rank(D, i) + (IF i \in D THEN 1 ELSE 0)
    <3>1. i \in Nat /\ j \in Nat
      BY <1>1
    <3> QED BY <1>5, <3>1, RankStep
  <2>3. Width(splits, i) = 1 + (IF i \in D THEN 1 ELSE 0)
    BY DEF Width, D
  <2> HIDE DEF at
  <2> QED BY <1>1, <2>1, <2>2, <2>3
<1>9. at[1] = 0
  <2>1. 1 \in 1 .. m
    BY <1>1
  <2>2. {x \in D : x < 1} = {}
    <3>1. \A x \in D : x \in 1 .. m /\ ~(x < 1)
      BY <1>1, <1>5
    <3> QED BY <3>1
  <2>3. Rank(D, 1) = 0
    BY <2>2, FS_EmptySet DEF Rank
  <2> QED BY <1>7, <2>1, <2>3
<1> HIDE DEF at
<1>18. \A i \in 1 .. m : i < m => at[i + 1] = at[i] + Width(splits, i)
  <2> TAKE i \in 1 .. m
  <2>1. i < m => i + 1 \in 1 .. m /\ i < i + 1
    BY <1>1
  <2> QED BY <1>8, <2>1
<1>10. StartsAt(at, second, m) /\ StartsAt(at, first, m)
  <2>2. \A i \in 1 .. m : i < m => Len(second[i]) = Width(splits, i) /\ Len(first[i]) = Width(splits, i)
    <3> TAKE i \in 1 .. m
    <3>1. Width(splits, i) = IF i \in D THEN 2 ELSE 1
      BY DEF Width, D
    <3> QED BY <1>3, <3>1
  <2> QED BY <1>7, <1>9, <1>18, <2>2 DEF StartsAt
<1>11. PartsAt(new.children, at, second, m) /\ PartsAt(new.pivots, at, first, m)
  <2>1. /\ m \in Nat \ {0} /\ second \in [1 .. m -> Seq(T)] /\ first \in [1 .. m -> Seq(S)]
        /\ new.children = FlattenSeq(second) /\ new.pivots = FlattenSeq(first)
    BY <1>1, <1>2, <1>4
  <2> HIDE DEF at
  <2>2. PartsAt(FlattenSeq(second), at, second, m)
    BY <1>10, <2>1, FlattenedAt
  <2>3. PartsAt(FlattenSeq(first), at, first, m)
    BY <1>10, <2>1, FlattenedAt
  <2> QED BY <2>1, <2>2, <2>3
<1>12. DOMAIN new.children = 1 .. Len(new.children) /\ DOMAIN new.pivots = 1 .. Len(new.pivots)
       /\ Len(new.children) \in Nat /\ Len(new.pivots) \in Nat
  <2>1. new.children \in Seq(T) /\ new.pivots \in Seq(S)
    BY <1>1, <1>2, <1>4, FlattenedType
  <2> QED BY <2>1, LenProperties
<1>13. ASSUME NEW i \in 1 .. m
       PROVE  at[i] + 1 \in DOMAIN new.children /\ new.children[at[i] + 1] = n.children[i]
  <2>1. 1 \in 1 .. Len(second[i]) /\ Len(second[i]) \in Nat
    BY <1>3 DEF Width
  <2>2. new.children[at[i] + 1] = second[i][1] /\ at[i] + Len(second[i]) <= Len(new.children)
    BY <1>11, <2>1 DEF PartsAt
  <2>3. at[i] \in Nat
    BY <1>7
  <2>4. at[i] + 1 \in 1 .. Len(new.children)
    BY <1>12, <2>1, <2>2, <2>3
  <2> QED BY <1>3, <1>12, <2>2, <2>4
<1>14. ASSUME NEW i \in D
       PROVE  /\ at[i] + 2 \in DOMAIN new.children /\ new.children[at[i] + 2] = splits[i].page
              /\ at[i] + 1 \in DOMAIN new.pivots /\ new.pivots[at[i] + 1] = splits[i].pivot
  <2>0. i \in 1 .. m /\ at[i] \in Nat
    BY <1>5, <1>7
  <2>1. 2 \in 1 .. Len(second[i]) /\ Len(second[i]) = 2
    <3>1. Len(second[i]) = 2
      BY <1>3, <2>0 DEF Width, D
    <3> QED BY <3>1
  <2>2. 1 \in 1 .. Len(first[i]) /\ Len(first[i]) \in {1, 2}
    <3>1. Len(first[i]) = 1 + (IF i < m THEN 1 ELSE 0)
      BY <1>3, <2>0
    <3> DEFINE l == Len(first[i])
    <3>2. l = 1 \/ l = 2
      BY <3>1
    <3> HIDE DEF l
    <3>3. 1 \in 1 .. l /\ l \in {1, 2}
      BY <3>2
    <3> QED BY <3>3 DEF l
  <2>3. new.children[at[i] + 2] = second[i][2] /\ at[i] + Len(second[i]) <= Len(new.children)
    BY <1>11, <2>0, <2>1 DEF PartsAt
  <2>4. new.pivots[at[i] + 1] = first[i][1] /\ at[i] + Len(first[i]) <= Len(new.pivots)
    BY <1>11, <2>0, <2>2 DEF PartsAt
  <2>5. at[i] + 2 \in 1 .. Len(new.children) /\ at[i] + 1 \in 1 .. Len(new.pivots)
    BY <1>12, <2>0, <2>1, <2>2, <2>3, <2>4, SMTT(30)
  <2> QED BY <1>3, <1>12, <2>0, <2>3, <2>4, <2>5
<1>15. ASSUME NEW i \in 1 .. m - 1
       PROVE  /\ at[i] + Width(splits, i) \in DOMAIN new.pivots
              /\ new.pivots[at[i] + Width(splits, i)] = n.pivots[i]
  <2> DEFINE w == Width(splits, i)
  <2>0. i \in 1 .. m /\ at[i] \in Nat /\ i < m
    BY <1>1, <1>7
  <2>1. w = IF i \in D THEN 2 ELSE 1
    BY DEF Width, D
  <2> HIDE DEF w
  <2>2. Len(first[i]) = w /\ w \in 1 .. Len(first[i]) /\ first[i][w] = n.pivots[i]
    BY <1>3, <2>0, <2>1 DEF w
  <2>3. new.pivots[at[i] + w] = first[i][w] /\ at[i] + Len(first[i]) <= Len(new.pivots)
    BY <1>11, <2>0, <2>2 DEF PartsAt
  <2>4. at[i] + w \in 1 .. Len(new.pivots)
    BY <1>12, <2>0, <2>1, <2>2, <2>3
  <2> QED BY <1>12, <2>2, <2>3, <2>4 DEF w
<1>16. ASSUME NEW x \in DOMAIN new.pivots
       PROVE  \/ \E i \in D : x = at[i] + 1
              \/ \E i \in 1 .. m - 1 : x = at[i] + Width(splits, i)
  <2>0. PICK i \in 1 .. m : \E j \in 1 .. Len(first[i]) : x = at[i] + j
    <3>1. x \in 1 .. Len(new.pivots)
      BY <1>12
    <3>2. \A z \in 1 .. Len(new.pivots) : \E i \in 1 .. m : \E j \in 1 .. Len(first[i]) : z = at[i] + j
      <4> HIDE DEF at
      <4> QED BY <1>11, Zenon DEF PartsAt
    <3> QED BY <3>1, <3>2
  <2>1. PICK j \in 1 .. Len(first[i]) : x = at[i] + j
    BY <2>0
  <2>2. Len(first[i]) = (IF i \in D THEN 1 ELSE 0) + (IF i < m THEN 1 ELSE 0)
        /\ Width(splits, i) = IF i \in D THEN 2 ELSE 1
    BY <1>3 DEF Width, D
  <2>3. CASE i \in D /\ j = 1
    BY <2>1, <2>3
  <2>4. CASE ~(i \in D /\ j = 1)
    <3>1. i < m /\ j = Width(splits, i)
      BY <2>2, <2>4
    <3>2. i \in 1 .. m - 1
      BY <1>1, <3>1
    <3> QED BY <2>1, <3>1, <3>2
  <2> QED BY <2>3, <2>4
<1>17. Placed(n, splits, new, at, m)
  BY <1>7, <1>8, <1>9, <1>18, <1>13, <1>14, <1>15, <1>16 DEF Placed, D
<1> QED BY <1>17 DEF m, new

(* A pivot that is inserted is a key of the child that is split, and not    *)
(* the last one.                                                            *)
Divides(n, i, pivot, top) ==
  /\ pivot \in Nat /\ ChildIndex(n, pivot) = i
  /\ top \in Nat /\ ChildIndex(n, top) = i /\ pivot < top
SplitsInside(n, splits) ==
  \A i \in DOMAIN splits : \E top \in Nat : Divides(n, i, splits[i].pivot, top)

(* Then the pivots stay in order, and only the keys above the pivot of a    *)
(* split lead to the new page.                                              *)
LEMMA InsertedIndex ==
  ASSUME NEW n, NEW below, BranchOK(n, below), NEW splits,
         n = Inner(n.pivots, n.children, n.upserts) \/ n = RootNode(n.pivots, n.children),
         DOMAIN splits \in SUBSET DOMAIN n.children,
         Increases(n.pivots), Range(n.pivots) \subseteq Nat, SplitsInside(n, splits)
  PROVE  LET new == InsertPivots(n, splits) IN
         /\ Increases(new.pivots)
         /\ Range(new.pivots) = Range(n.pivots) \cup {splits[i].pivot : i \in DOMAIN splits}
         /\ \A k \in Nat :
              LET i == ChildIndex(n, k) IN
              ChildOf(new, k) = IF i \in DOMAIN splits /\ k > splits[i].pivot
                                THEN splits[i].page ELSE n.children[i]
<1> DEFINE L == Len(n.pivots)
           m == L + 1
           D == DOMAIN splits
           new == InsertPivots(n, splits)
           p == n.pivots
           q == new.pivots
           w(i) == Width(splits, i)
<1>1. /\ L \in Nat /\ DOMAIN p = 1 .. L /\ DOMAIN n.children = 1 .. m
      /\ D \subseteq 1 .. m /\ m \in Nat /\ m - 1 = L
      /\ \A i \in 1 .. L : p[i] \in Nat
  BY BranchFacts DEF Range
<1>2. PICK at : Placed(n, splits, new, at, m)
  BY InsertedAt
<1>3. \E N \in Nat : DOMAIN q = 1 .. N
  <2>1. Branch(q, new.children, below \cup {splits[i].page : i \in D})
    <3>1. BranchOK(n, below \cup {splits[i].page : i \in D})
      BY BranchMonotonic
    <3>2. \A i \in D : splits[i].page \in below \cup {splits[j].page : j \in D}
      OBVIOUS
    <3> HIDE DEF q, new, D
    <3> QED BY <3>1, <3>2, InsertedShape DEF D, new, q
  <2> QED BY <2>1, LenProperties DEF Branch
<1> HIDE DEF new, D, m, p, q, L
<1>4. \A j, i \in 1 .. L : j < i => p[j] < p[i]
  BY <1>1 DEF Increases, p
<1>5. ASSUME NEW k \in Nat
      PROVE  /\ ChildIndex(n, k) \in 1 .. m
             /\ \A j \in 1 .. L : j < ChildIndex(n, k) <=> p[j] < k
             /\ \A j \in 1 .. L : j >= ChildIndex(n, k) <=> k <= p[j]
  <2>1. DOMAIN n.pivots = 1 .. L
    BY <1>1 DEF p
  <2> QED BY <1>1, <2>1, IndexOfChild DEF p, m
<1>6. ASSUME NEW i \in D
      PROVE  /\ splits[i].pivot \in Nat /\ i \in 1 .. m
             /\ \A j \in 1 .. L : j < i => p[j] < splits[i].pivot
             /\ \A j \in 1 .. L : j >= i => splits[i].pivot < p[j]
  <2> DEFINE s == splits[i].pivot
  <2>1. PICK top \in Nat : Divides(n, i, s, top)
    BY DEF SplitsInside, D
  <2> HIDE DEF s
  <2>2. s \in Nat /\ ChildIndex(n, s) = i /\ ChildIndex(n, top) = i /\ s < top
    BY <2>1 DEF Divides
  <2>3. \A j \in 1 .. L : j < i <=> p[j] < s
    BY <1>5, <2>2
  <2>4. \A j \in 1 .. L : j >= i <=> top <= p[j]
    BY <1>5, <2>2
  <2>5. \A j \in 1 .. L : j >= i => s < p[j]
    BY <1>1, <2>2, <2>4
  <2> QED BY <1>1, <2>2, <2>3, <2>5 DEF s
<1>7. \A i \in 1 .. m : at[i] \in Nat /\ w(i) = (IF i \in D THEN 2 ELSE 1) /\ w(i) \in {1, 2}
  BY <1>2 DEF Placed, Width, D
<1>8. \A i, j \in 1 .. m : i < j => at[i] + w(i) <= at[j]
  BY <1>2 DEF Placed
(* What is at a place: the pivot of a split, or one that was there. *)
<1> DEFINE ofSplit(x, i) == i \in D /\ x = at[i] + 1 /\ q[x] = splits[i].pivot
           ofOld(x, i) == i \in 1 .. L /\ x = at[i] + w(i) /\ q[x] = p[i]
<1>9. ASSUME NEW x \in DOMAIN q PROVE \E i \in 1 .. m : ofSplit(x, i) \/ ofOld(x, i)
  <2>1. \/ \E i \in D : x = at[i] + 1
        \/ \E i \in 1 .. L : x = at[i] + w(i)
    BY <1>1, <1>2 DEF Placed, q, D
  <2>2. CASE \E i \in D : x = at[i] + 1
    <3>1. PICK i \in D : x = at[i] + 1
      BY <2>2
    <3>2. q[x] = splits[i].pivot
      BY <1>2, <3>1 DEF Placed, q, D
    <3> QED BY <1>6, <3>1, <3>2
  <2>3. CASE \E i \in 1 .. L : x = at[i] + w(i)
    <3>1. PICK i \in 1 .. L : x = at[i] + w(i)
      BY <2>3
    <3>2. q[x] = p[i]
      BY <1>1, <1>2, <3>1 DEF Placed, q, p
    <3>3. i \in 1 .. m
      BY <1>1
    <3> QED BY <3>1, <3>2, <3>3
  <2> QED BY <2>1, <2>2, <2>3
<1>10. ASSUME NEW x, NEW i \in 1 .. m, ofSplit(x, i) \/ ofOld(x, i)
       PROVE  /\ q[x] \in Nat /\ x \in Nat /\ at[i] < x /\ x <= at[i] + w(i)
              /\ \A j \in 1 .. L : j < i => p[j] < q[x]
              /\ \A j \in 1 .. L : j >= i => q[x] <= p[j]
  <2>1. CASE ofSplit(x, i)
    <3>1. q[x] \in Nat /\ (\A j \in 1 .. L : j < i => p[j] < q[x])
      BY <1>6, <2>1
    <3>2. \A j \in 1 .. L : j >= i => q[x] <= p[j]
      <4> SUFFICES ASSUME NEW j \in 1 .. L, j >= i PROVE q[x] <= p[j]
        OBVIOUS
      <4>1. q[x] < p[j] /\ p[j] \in Nat
        BY <1>1, <1>6, <2>1
      <4> QED BY <3>1, <4>1
    <3>3. x \in Nat /\ at[i] < x /\ x <= at[i] + w(i)
      BY <1>7, <2>1
    <3> QED BY <3>1, <3>2, <3>3
  <2>2. CASE ofOld(x, i)
    <3>1. q[x] \in Nat /\ q[x] = p[i] /\ i \in 1 .. L
      BY <1>1, <2>2
    <3>2. \A j \in 1 .. L : j < i => p[j] < q[x]
      BY <1>4, <3>1
    <3>3. \A j \in 1 .. L : j >= i => q[x] <= p[j]
      <4> SUFFICES ASSUME NEW j \in 1 .. L, j >= i PROVE q[x] <= p[j]
        OBVIOUS
      <4>1. j = i \/ i < j
        BY <1>1, <3>1
      <4>2. p[i] <= p[j]
        BY <1>1, <1>4, <3>1, <4>1
      <4> QED BY <3>1, <4>2
    <3>4. x \in Nat /\ at[i] < x /\ x <= at[i] + w(i)
      BY <1>7, <2>2
    <3> QED BY <3>1, <3>2, <3>3, <3>4
  <2> QED BY <1>10, <2>1, <2>2
<1>11. Increases(q)
  <2> SUFFICES ASSUME NEW x \in DOMAIN q, NEW y \in DOMAIN q, x < y PROVE q[x] < q[y]
    BY DEF Increases
  <2>1. PICK i \in 1 .. m : ofSplit(x, i) \/ ofOld(x, i)
    BY <1>9
  <2>2. PICK j \in 1 .. m : ofSplit(y, j) \/ ofOld(y, j)
    BY <1>9
  <2>3. /\ q[x] \in Nat /\ x \in Nat /\ at[i] < x /\ x <= at[i] + w(i)
        /\ \A b \in 1 .. L : b >= i => q[x] <= p[b]
    BY <1>10, <2>1
  <2>4. /\ q[y] \in Nat /\ y \in Nat /\ at[j] < y /\ y <= at[j] + w(j)
        /\ \A b \in 1 .. L : b < j => p[b] < q[y]
    BY <1>10, <2>2
  <2>5. CASE i < j
    <3>1. i \in 1 .. L
      BY <1>1, <2>5
    <3>2. q[x] <= p[i] /\ p[i] < q[y] /\ p[i] \in Nat
      BY <1>1, <2>3, <2>4, <2>5, <3>1
    <3> QED BY <2>3, <2>4, <3>2
  <2>6. CASE j < i
    <3>1. at[j] + w(j) <= at[i] /\ at[i] \in Nat /\ at[j] + w(j) \in Nat
      BY <1>7, <1>8, <2>6
    <3> QED BY <2>3, <2>4, <3>1
  <2>7. CASE i = j
    <3>1. ~ofOld(x, i) /\ ~ofSplit(y, i)
      BY <1>7, <2>1, <2>2, <2>7
    <3>2. ofSplit(x, i) /\ ofOld(y, i)
      BY <2>1, <2>2, <2>7, <3>1
    <3>3. q[x] = splits[i].pivot /\ q[y] = p[i] /\ i \in 1 .. L /\ i \in D
      BY <3>2
    <3> QED BY <1>6, <3>3
  <2> HIDE DEF ofSplit, ofOld, w
  <2> QED BY <1>1, <2>5, <2>6, <2>7
<1>12. Range(q) = Range(p) \cup {splits[i].pivot : i \in D}
  <2>1. ASSUME NEW x \in DOMAIN q PROVE q[x] \in Range(p) \cup {splits[i].pivot : i \in D}
    <3>1. PICK i \in 1 .. m : ofSplit(x, i) \/ ofOld(x, i)
      BY <1>9
    <3>2. CASE ofSplit(x, i)
      BY <3>2
    <3>3. CASE ofOld(x, i)
      BY <1>1, <3>3 DEF Range
    <3> QED BY <3>1, <3>2, <3>3
  <2>2. ASSUME NEW i \in DOMAIN p PROVE p[i] \in Range(q)
    <3>1. at[i] + w(i) \in DOMAIN q /\ q[at[i] + w(i)] = p[i]
      BY <1>1, <1>2 DEF Placed, q, p
    <3> QED BY <3>1 DEF Range
  <2>3. ASSUME NEW i \in D PROVE splits[i].pivot \in Range(q)
    <3>1. at[i] + 1 \in DOMAIN q /\ q[at[i] + 1] = splits[i].pivot
      BY <1>2 DEF Placed, q, D
    <3> QED BY <3>1 DEF Range
  <2> HIDE DEF ofSplit, ofOld, w
  <2>4. \A v \in Range(q) : \E x \in DOMAIN q : v = q[x]
    BY DEF Range
  <2>5. \A v \in Range(p) : \E x \in DOMAIN p : v = p[x]
    BY DEF Range
  <2> QED BY <2>1, <2>2, <2>3, <2>4, <2>5
<1>13. ASSUME NEW k \in Nat, NEW i, i = ChildIndex(n, k)
       PROVE  ChildOf(new, k) = IF i \in D /\ k > splits[i].pivot THEN splits[i].page ELSE n.children[i]
  <2> DEFINE c == IF i \in D /\ k > splits[i].pivot THEN 2 ELSE 1
             y == at[i] + c
  <2>0. /\ i \in 1 .. m /\ i \in Nat
        /\ \A j \in 1 .. L : j < i <=> p[j] < k
        /\ \A j \in 1 .. L : j >= i <=> k <= p[j]
    <3>1. ChildIndex(n, k) \in 1 .. m
      BY <1>5
    <3>2. \A j \in 1 .. L : j < ChildIndex(n, k) <=> p[j] < k
      BY <1>5
    <3>3. \A j \in 1 .. L : j >= ChildIndex(n, k) <=> k <= p[j]
      BY <1>5
    <3>4. i \in 1 .. m
      BY <1>13, <3>1
    <3> QED BY <1>1, <1>13, <3>2, <3>3, <3>4
  <2>1. at[i] \in Nat /\ w(i) \in {1, 2} /\ c \in {1, 2} /\ c <= w(i) /\ y \in Nat
    BY <1>7, <2>0
  <2>2. ASSUME NEW x \in DOMAIN q PROVE x < y <=> q[x] < k
    <3>1. PICK j \in 1 .. m : ofSplit(x, j) \/ ofOld(x, j)
      BY <1>9
    <3>2. /\ q[x] \in Nat /\ x \in Nat /\ at[j] < x /\ x <= at[j] + w(j)
          /\ \A b \in 1 .. L : b < j => p[b] < q[x]
          /\ \A b \in 1 .. L : b >= j => q[x] <= p[b]
      BY <1>10, <3>1
    <3>3. CASE j < i
      <4>1. j \in 1 .. L /\ p[j] \in Nat
        BY <1>1, <2>0, <3>3
      <4>2. q[x] <= p[j] /\ p[j] < k
        BY <1>1, <2>0, <3>2, <3>3, <4>1
      <4>3. at[j] + w(j) <= at[i] /\ at[j] + w(j) \in Nat
        BY <1>7, <1>8, <2>0, <3>3
      <4>4. x < y
        BY <2>1, <3>2, <4>3
      <4>5. q[x] < k
        BY <3>2, <4>1, <4>2
      <4> QED BY <4>4, <4>5
    <3>4. CASE i < j
      <4>1. i \in 1 .. L /\ p[i] \in Nat
        BY <1>1, <2>0, <3>4
      <4>2. p[i] < q[x] /\ k <= p[i]
        BY <1>1, <2>0, <3>2, <3>4, <4>1
      <4>3. at[i] + w(i) <= at[j] /\ at[j] \in Nat
        BY <1>7, <1>8, <2>0, <3>4
      <4>4. ~(x < y)
        BY <2>1, <3>2, <4>3
      <4>5. ~(q[x] < k)
        BY <3>2, <4>1, <4>2
      <4> QED BY <4>4, <4>5
    <3>5. CASE i = j
      <4>1. CASE ofSplit(x, i)
        <5>1. i \in D /\ x = at[i] + 1 /\ q[x] = splits[i].pivot /\ splits[i].pivot \in Nat
          BY <1>6, <4>1
        <5>2. q[x] < k <=> c = 2
          BY <5>1
        <5>3. x < y <=> c = 2
          BY <2>1, <5>1
        <5> QED BY <5>2, <5>3
      <4>2. CASE ofOld(x, i)
        <5>1. i \in 1 .. L /\ x = at[i] + w(i) /\ q[x] = p[i] /\ p[i] \in Nat
          BY <1>1, <4>2
        <5>2. k <= p[i]
          BY <2>0, <5>1
        <5>3. ~(x < y)
          BY <2>1, <3>2, <5>1
        <5> QED BY <5>1, <5>2, <5>3
      <4> HIDE DEF ofSplit, ofOld, w
      <4> QED BY <3>1, <3>5, <4>1, <4>2
    <3> HIDE DEF ofSplit, ofOld, w, c, y
    <3> QED BY <1>1, <2>0, <3>3, <3>4, <3>5
  <2>3. new.children[y] = IF c = 2 THEN splits[i].page ELSE n.children[i]
    <3>1. c = 1 => new.children[at[i] + 1] = n.children[i]
      BY <1>2, <2>0 DEF Placed
    <3>2. c = 2 => new.children[at[i] + 2] = splits[i].page
      BY <1>2, <2>0 DEF Placed, D
    <3> HIDE DEF c
    <3> QED BY <2>1, <3>1, <3>2
  <2>4. PICK N \in Nat : DOMAIN q = 1 .. N
    BY <1>3
  <2>5. y \in 1 .. N + 1
    <3>1. CASE y = 1
      BY <3>1
    <3>2. CASE y # 1
      <4>1. y - 1 \in DOMAIN q
        <5>1. CASE c = 2
          <6>1. i \in D /\ y - 1 = at[i] + 1
            BY <2>1, <5>1
          <6> QED BY <1>2, <6>1 DEF Placed, q, D
        <5>2. CASE c = 1
          <6>1. at[i] # 0 /\ y - 1 = at[i]
            BY <2>1, <3>2, <5>2
          <6>2. i # 1
            <7>1. i = 1 => at[i] = 0
              BY <1>2 DEF Placed
            <7> QED BY <6>1, <7>1
          <6>3. i - 1 \in 1 .. L /\ i - 1 \in 1 .. m
            BY <1>1, <2>0, <6>2
          <6>4. at[i - 1] + w(i - 1) \in DOMAIN q
            BY <1>1, <1>2, <6>3 DEF Placed, q
          <6>5. (i - 1) + 1 = i /\ i - 1 < m
            BY <1>1, <2>0, <6>3
          <6>6. at[i] = at[i - 1] + w(i - 1)
            BY <1>2, <6>3, <6>5 DEF Placed
          <6> QED BY <6>1, <6>4, <6>6
        <5> HIDE DEF c
        <5> QED BY <2>1, <5>1, <5>2
      <4> HIDE DEF y
      <4> QED BY <2>1, <2>4, <4>1
    <3> QED BY <3>1, <3>2
  <2>6. ChildIndex(new, k) = y
    <3> HIDE DEF y
    <3>1. DOMAIN new.pivots = 1 .. N /\ \A j \in 1 .. N : j < y <=> new.pivots[j] < k
      BY <2>2, <2>4 DEF q
    <3> QED BY <2>4, <2>5, <3>1, IndexIs
  <2>7. c = 2 <=> (i \in D /\ k > splits[i].pivot)
    OBVIOUS
  <2> HIDE DEF c, y
  <2> QED BY <2>3, <2>6, <2>7 DEF ChildOf
<1>14. \A k \in Nat :
         ChildOf(new, k) = IF ChildIndex(n, k) \in D /\ k > splits[ChildIndex(n, k)].pivot
                           THEN splits[ChildIndex(n, k)].page ELSE n.children[ChildIndex(n, k)]
  BY <1>13
<1> QED BY <1>11, <1>12, <1>14 DEF q, p, D, new

(* The keys for which a search goes to the child at an index.              *)
LEMMA HomeOfChild ==
  ASSUME NEW n, NEW below, BranchOK(n, below), IsInjective(n.children),
         NEW own, NEW home, BranchOrdered(n, own, home), NEW i \in DOMAIN n.children
  PROVE  home[n.children[i]] = {k \in own : ChildIndex(n, k) = i}
<1>1. n.children[i] \in Range(n.children)
  BY DEF Range
<1>2. home[n.children[i]] = {k \in own : ChildOf(n, k) = n.children[i]}
  BY <1>1 DEF BranchOrdered
<1>3. \A k \in own : ChildOf(n, k) = n.children[i] <=> ChildIndex(n, k) = i
  <2> TAKE k \in own
  <2>1. ChildIndex(n, k) \in DOMAIN n.children
    BY ChildIndexType
  <2> QED BY <2>1 DEF ChildOf, IsInjective
<1> QED BY <1>2, <1>3

(* A node whose children are split hands on to the halves what went to the  *)
(* child, divided at the new pivot.                                         *)
DividedAt(n, splits, home, home2) ==
  /\ \A i \in DOMAIN n.children \ DOMAIN splits : home2[n.children[i]] = home[n.children[i]]
  /\ \A i \in DOMAIN splits :
       /\ splits[i].pivot \in home[n.children[i]]
       /\ \E top \in home[n.children[i]] : splits[i].pivot < top
       /\ home2[n.children[i]] = {k \in home[n.children[i]] : k <= splits[i].pivot}
       /\ home2[splits[i].page] = {k \in home[n.children[i]] : k > splits[i].pivot}
LEMMA InsertedOrdered ==
  ASSUME NEW n, NEW below, BranchOK(n, below), NEW splits,
         n = Inner(n.pivots, n.children, n.upserts) \/ n = RootNode(n.pivots, n.children),
         DOMAIN splits \in SUBSET DOMAIN n.children, IsInjective(n.children),
         \A i \in DOMAIN splits : splits[i].page \notin Range(n.children),
         \A i, j \in DOMAIN splits : splits[i].page = splits[j].page => i = j,
         NEW own \in SUBSET Nat, NEW home, BranchOrdered(n, own, home),
         NEW home2, DividedAt(n, splits, home, home2)
  PROVE  BranchOrdered(InsertPivots(n, splits), own, home2)
<1> DEFINE D == DOMAIN splits
           new == InsertPivots(n, splits)
           ch == n.children
           x(k) == ChildIndex(n, k)
<1>1. \A i \in DOMAIN ch : home[ch[i]] = {k \in own : x(k) = i}
  BY HomeOfChild
<1>2. D \subseteq DOMAIN ch /\ \A k : x(k) \in DOMAIN ch
  BY ChildIndexType
<1>3. SplitsInside(n, splits)
  <2> SUFFICES ASSUME NEW i \in D PROVE \E top \in Nat : Divides(n, i, splits[i].pivot, top)
    BY DEF SplitsInside
  <2>1. splits[i].pivot \in home[ch[i]] /\ \E top \in home[ch[i]] : splits[i].pivot < top
    BY DEF DividedAt
  <2>2. PICK top \in home[ch[i]] : splits[i].pivot < top
    BY <2>1
  <2>3. splits[i].pivot \in own /\ x(splits[i].pivot) = i /\ top \in own /\ x(top) = i
    BY <1>1, <1>2, <2>1, <2>2
  <2> QED BY <2>2, <2>3 DEF Divides
<1>4. Increases(n.pivots) /\ Range(n.pivots) \subseteq own
  BY DEF BranchOrdered
<1>5. /\ Increases(new.pivots)
      /\ Range(new.pivots) = Range(n.pivots) \cup {splits[i].pivot : i \in D}
      /\ \A k \in Nat : ChildOf(new, k) = IF x(k) \in D /\ k > splits[x(k)].pivot
                                          THEN splits[x(k)].page ELSE ch[x(k)]
  <2>1. Range(n.pivots) \subseteq Nat
    BY <1>4
  <2> HIDE DEF new, D, x
  <2> QED BY <1>3, <1>4, <2>1, InsertedIndex DEF new, D, x
<1>6. Range(new.children) = Range(ch) \cup {splits[i].page : i \in D}
  BY InsertedChildren
<1> HIDE DEF new, D, x
<1>7. Range(new.pivots) \subseteq own
  <2>1. \A i \in D : splits[i].pivot \in own
    BY <1>1, <1>2 DEF DividedAt, D
  <2> QED BY <1>4, <1>5, <2>1
<1>8. \A i \in D : splits[i].page \notin Range(ch) /\ \A j \in D : splits[i].page = splits[j].page => i = j
  BY DEF D
<1>9. \A i, j \in DOMAIN ch : ch[i] = ch[j] => i = j
  BY DEF IsInjective
<1>10. \A i \in DOMAIN ch : ch[i] \in Range(ch)
  BY DEF Range
<1>11. ASSUME NEW c \in Range(new.children) PROVE home2[c] = {k \in own : ChildOf(new, k) = c}
  <2>1. CASE c \in Range(ch)
    <3>1. PICK i \in DOMAIN ch : c = ch[i]
      BY <2>1 DEF Range
    <3>2. \A k \in own : ChildOf(new, k) = c <=> x(k) = i /\ ~(i \in D /\ k > splits[i].pivot)
      <4> TAKE k \in own
      <4>1. ChildOf(new, k) = IF x(k) \in D /\ k > splits[x(k)].pivot
                              THEN splits[x(k)].page ELSE ch[x(k)]
        BY <1>5
      <4> QED BY <1>2, <1>8, <1>9, <1>10, <3>1, <4>1
    <3>3. CASE i \in D
      <4>1. home2[c] = {k \in home[c] : k <= splits[i].pivot} /\ splits[i].pivot \in home[c]
        BY <3>1, <3>3 DEF DividedAt, D
      <4>2. home[c] = {k \in own : x(k) = i}
        BY <1>1, <3>1
      <4>3. \A k \in own : k \in Nat
        OBVIOUS
      <4>4. \A k \in own : ~(k > splits[i].pivot) <=> k <= splits[i].pivot
        <5> DEFINE s == splits[i].pivot
        <5>1. s \in Nat
          BY <4>1, <4>2
        <5> HIDE DEF s
        <5>2. \A k \in own : ~(k > s) <=> k <= s
          BY <4>3, <5>1
        <5> QED BY <5>2 DEF s
      <4> QED BY <3>2, <3>3, <4>1, <4>2, <4>4
    <3>4. CASE i \notin D
      <4>1. home2[c] = home[c]
        BY <3>1, <3>4 DEF DividedAt, D
      <4> QED BY <1>1, <3>1, <3>2, <3>4, <4>1
    <3> QED BY <3>3, <3>4
  <2>2. CASE c \notin Range(ch)
    <3>1. PICK i \in D : c = splits[i].page
      BY <1>6, <2>2
    <3>2. \A k \in own : ChildOf(new, k) = c <=> x(k) = i /\ k > splits[i].pivot
      <4> TAKE k \in own
      <4>1. ChildOf(new, k) = IF x(k) \in D /\ k > splits[x(k)].pivot
                              THEN splits[x(k)].page ELSE ch[x(k)]
        BY <1>5
      <4> QED BY <1>2, <1>8, <1>10, <3>1, <4>1
    <3>3. home2[c] = {k \in home[ch[i]] : k > splits[i].pivot}
      BY <3>1 DEF DividedAt, D
    <3>4. home[ch[i]] = {k \in own : x(k) = i}
      BY <1>1, <1>2
    <3> QED BY <3>2, <3>3, <3>4
  <2> QED BY <2>1, <2>2
<1> QED BY <1>5, <1>7, <1>11 DEF BranchOrdered, new

(***************************************************************************)
(* Pages that are written.                                                 *)
(***************************************************************************)
(* A node in place of another one with the same children, and the halves of *)
(* a node that is split.                                                    *)
Stands(n, own, home, m) ==
  /\ NodeOrdered(m, own, home) /\ Kids(m) = Kids(n) /\ (IsBranch(m) <=> IsBranch(n))
SplitInto(n, own, home, left, right, pivot) ==
  /\ pivot \in own /\ \E top \in own : pivot < top
  /\ NodeOrdered(left, {k \in own : k <= pivot}, home)
  /\ NodeOrdered(right, {k \in own : k > pivot}, home)
  /\ Kids(left) \cup Kids(right) = Kids(n)
  /\ (IsBranch(left) <=> IsBranch(n)) /\ (IsBranch(right) <=> IsBranch(n))

(* A node is ordered as long as its children have the homes they had. *)
LEMMA OrderedSame ==
  ASSUME NEW n, NEW own, NEW home, NodeOrdered(n, own, home), NEW home2,
         \A c \in Kids(n) : home2[c] = home[c]
  PROVE  NodeOrdered(n, own, home2)
BY DEF NodeOrdered, BranchOrdered, Kids
LEMMA LevelSame ==
  ASSUME NEW n, NEW h, NEW height, NodeLevel(n, h, height), NEW height2,
         \A c \in Kids(n) : height2[c] = height[c]
  PROVE  NodeLevel(n, h, height2)
BY DEF NodeLevel

LEMMA HomesWrite ==
  ASSUME TreeInv, NEW new, NEW k \in Nat, NewPages(new, k), node' = new ++ node,
         NEW home, HomesOK(home),
         NEW home2 \in [Created' -> SUBSET Nat], home2[Root] = Nat,
         \A p \in DOMAIN new : NodeOrdered(new[p], home2[p], home2),
         \A p \in Created \ DOMAIN new :
           home2[p] = home[p] /\ \A c \in Kids(node[p]) : home2[c] = home[c]
  PROVE  HomesOK(home2)'
<1>1. \A p \in DOMAIN new : node'[p] = new[p]
  BY WriteFacts
<1>2. \A p \in Created' \ DOMAIN new : node'[p] = node[p] /\ p \in Created
  BY WriteFacts
<1>3. ASSUME NEW p \in Created' PROVE NodeOrdered(node'[p], home2[p], home2)
  <2>1. CASE p \in DOMAIN new
    BY <1>1, <2>1
  <2>2. CASE p \notin DOMAIN new
    <3>1. node'[p] = node[p] /\ p \in Created \ DOMAIN new
      BY <1>2, <2>2
    <3>2. NodeOrdered(node[p], home[p], home)
      BY <3>1 DEF HomesOK
    <3>3. home2[p] = home[p] /\ \A c \in Kids(node[p]) : home2[c] = home[c]
      BY <3>1
    <3> QED BY <3>1, <3>2, <3>3, OrderedSame
  <2> QED BY <2>1, <2>2
<1>4. /\ home2 \in [Created' -> SUBSET Nat] /\ home2[Root] = Nat
      /\ \A p \in Created' : NodeOrdered(node'[p], home2[p], home2)
  BY <1>3
<1> QED BY <1>4 DEF HomesOK, Root, NodeOrdered, BranchOrdered

LEMMA HeightsWrite ==
  ASSUME TreeInv, NEW new, NEW k \in Nat, NewPages(new, k), node' = new ++ node,
         NEW height, HeightsOK(height),
         NEW height2 \in [Created' -> Nat],
         \A p \in DOMAIN new : NodeLevel(new[p], height2[p], height2),
         \A p \in Created \ DOMAIN new :
           height2[p] = height[p] /\ \A c \in Kids(node[p]) : height2[c] = height[c]
  PROVE  HeightsOK(height2)'
<1>1. \A p \in DOMAIN new : node'[p] = new[p]
  BY WriteFacts
<1>2. \A p \in Created' \ DOMAIN new : node'[p] = node[p] /\ p \in Created
  BY WriteFacts
<1>3. ASSUME NEW p \in Created' PROVE NodeLevel(node'[p], height2[p], height2)
  <2>1. CASE p \in DOMAIN new
    BY <1>1, <2>1
  <2>2. CASE p \notin DOMAIN new
    <3>1. node'[p] = node[p] /\ p \in Created \ DOMAIN new
      BY <1>2, <2>2
    <3>2. NodeLevel(node[p], height[p], height)
      BY <3>1 DEF HeightsOK
    <3>3. height2[p] = height[p] /\ \A c \in Kids(node[p]) : height2[c] = height[c]
      BY <3>1
    <3> QED BY <3>1, <3>2, <3>3, LevelSame
  <2> QED BY <2>1, <2>2
<1> QED BY <1>3 DEF HeightsOK, NodeLevel

(* No page is split: everything stays where it was. *)
LEMMA KeptPages ==
  ASSUME TreeInv, NEW new, NEW k \in Nat, NewPages(new, k), node' = new ++ node,
         DOMAIN new \subseteq Created, NEW home, HomesOK(home), ReachedOK, LevelsOK,
         \A p \in DOMAIN new : Stands(node[p], home[p], home, new[p])
  PROVE  HomesOK(home)' /\ ReachedOK' /\ LevelsOK'
<1>1. Created' = Created
  <2>1. Created \subseteq Created' /\ \A p \in Created' \ DOMAIN new : p \in Created
    BY WriteFacts
  <2> QED BY <2>1
<1>2. /\ \A p \in DOMAIN new : node'[p] = new[p]
      /\ \A p \in Created \ DOMAIN new : node'[p] = node[p]
  BY <1>1, WriteFacts
<1>3. HomesOK(home)'
  <2>1. home \in [Created' -> SUBSET Nat] /\ home[Root] = Nat
    BY <1>1 DEF HomesOK
  <2>2. \A p \in DOMAIN new : NodeOrdered(new[p], home[p], home)
    BY DEF Stands
  <2> QED BY <2>1, <2>2, HomesWrite
<1>4. LevelsOK'
  <2>1. PICK height \in [Created -> Nat] : HeightsOK(height)
    BY DEF LevelsOK
  <2>2. ASSUME NEW p \in DOMAIN new PROVE NodeLevel(new[p], height[p], height)
    <3>1. NodeLevel(node[p], height[p], height)
      BY <2>1 DEF HeightsOK
    <3>2. Kids(new[p]) = Kids(node[p]) /\ (IsBranch(new[p]) <=> IsBranch(node[p]))
      BY DEF Stands
    <3> QED BY <3>1, <3>2 DEF NodeLevel
  <2>3. height \in [Created' -> Nat]
    BY <1>1
  <2>4. HeightsOK(height)'
    BY <2>1, <2>2, <2>3, HeightsWrite
  <2> QED BY <2>3, <2>4 DEF LevelsOK
<1>5. \A p \in Created : Kids(node'[p]) = Kids(node[p])
  BY <1>2 DEF Stands
<1>6. ReachedOK'
  <2> SUFFICES ASSUME NEW c \in Created' \ {Root} PROVE \E p \in Created' : c \in Kids(node'[p])
    BY DEF ReachedOK, Root, Kids, IsBranch
  <2>1. PICK p \in Created : c \in Kids(node[p])
    BY <1>1 DEF ReachedOK
  <2> QED BY <1>1, <1>5, <2>1
<1> QED BY <1>3, <1>4, <1>6

(* Children of node h are split, or changed: what is written in their place *)
(* and beside them, and where keys belong then.                             *)
OrderedSplit(h, splits, new, home) ==
  /\ h \in DOMAIN new /\ new[h] = InsertPivots(node[h], splits)
  /\ DOMAIN splits \in SUBSET DOMAIN node[h].children
  /\ DOMAIN new \subseteq Created \cup {splits[i].page : i \in DOMAIN splits}
  /\ \A i \in DOMAIN splits : splits[i].page \in DOMAIN new /\ splits[i].page \notin Created
  /\ \A i, j \in DOMAIN splits : splits[i].page = splits[j].page => i = j
  /\ \A i \in DOMAIN splits :
       LET c == node[h].children[i] IN
       /\ c \in DOMAIN new
       /\ SplitInto(node[c], home[c], home, new[c], new[splits[i].page], splits[i].pivot)
  /\ \A p \in (DOMAIN new \cap Created) \ {h} :
       (\A i \in DOMAIN splits : node[h].children[i] # p) => Stands(node[p], home[p], home, new[p])
SplitHome(h, splits, home) ==
  [p \in Created \cup {splits[i].page : i \in DOMAIN splits} |->
     IF p \in Created
     THEN {k \in home[p] : \A i \in DOMAIN splits : node[h].children[i] = p => k <= splits[i].pivot}
     ELSE {k \in Nat : \E i \in DOMAIN splits : /\ splits[i].page = p /\ k > splits[i].pivot
                                                /\ k \in home[node[h].children[i]]}]

LEMMA SplitHomeIs ==
  ASSUME TreeInv, ParentsOK, NEW home, HomesOK(home), NEW h \in Created, IsBranch(node[h]),
         NEW splits, NEW new, OrderedSplit(h, splits, new, home),
         NEW home2, home2 = SplitHome(h, splits, home)
  PROVE  /\ home2 \in [Created \cup {splits[i].page : i \in DOMAIN splits} -> SUBSET Nat]
         /\ \A p \in Created : (\A i \in DOMAIN splits : node[h].children[i] # p) => home2[p] = home[p]
         /\ DividedAt(node[h], splits, home, home2)
<1> DEFINE D == DOMAIN splits
           ch == node[h].children
           m(i) == splits[i].pivot
<1>1. IsInjective(ch) /\ D \subseteq DOMAIN ch /\ (\A i \in DOMAIN ch : ch[i] \in Created)
  <2>1. Kids(node[h]) = Range(ch) /\ Kids(node[h]) \in SUBSET (Created \ {Root})
    BY BranchShape, KidsInTree
  <2>2. \A i \in DOMAIN ch : ch[i] \in Range(ch)
    BY DEF Range
  <2> QED BY <2>1, <2>2 DEF ParentsOK, OrderedSplit
<1>2. \A p \in Created : home[p] \in SUBSET Nat
  BY DEF HomesOK
<1>3. \A i \in D : /\ m(i) \in home[ch[i]] /\ \E top \in home[ch[i]] : m(i) < top
                   /\ splits[i].page \notin Created
  BY DEF OrderedSplit, SplitInto
<1>4. \A p \in Created : home2[p] = {k \in home[p] : \A i \in D : ch[i] = p => k <= m(i)}
  BY DEF SplitHome
<1>5. \A i \in D : home2[splits[i].page] =
         {k \in Nat : \E j \in D : splits[j].page = splits[i].page /\ k > m(j) /\ k \in home[ch[j]]}
  BY <1>3 DEF SplitHome
<1>6. home2 \in [Created \cup {splits[i].page : i \in D} -> SUBSET Nat]
  <2>1. \A p \in Created \cup {splits[i].page : i \in D} : home2[p] \in SUBSET Nat
    BY <1>2, <1>4, <1>5
  <2>2. home2 = [p \in Created \cup {splits[i].page : i \in D} |-> home2[p]]
    BY DEF SplitHome
  <2> QED BY <2>1, <2>2
<1>9. \A i, j \in D : splits[i].page = splits[j].page => i = j
  BY DEF OrderedSplit
<1> HIDE DEF D, m
<1>7. ASSUME NEW p \in Created, \A i \in D : ch[i] # p PROVE home2[p] = home[p]
  <2>1. \A k \in home[p] : \A i \in D : ch[i] = p => k <= m(i)
    BY <1>7
  <2> QED BY <1>4, <2>1
<1>8. ASSUME NEW i \in D
      PROVE  /\ home2[ch[i]] = {k \in home[ch[i]] : k <= m(i)}
             /\ home2[splits[i].page] = {k \in home[ch[i]] : k > m(i)}
  <2>1. \A j \in D : ch[j] = ch[i] <=> j = i
    BY <1>1 DEF IsInjective
  <2>2. home2[ch[i]] = {k \in home[ch[i]] : \A j \in D : ch[j] = ch[i] => k <= m(j)}
    BY <1>1, <1>4
  <2>3. \A j \in D : splits[j].page = splits[i].page <=> j = i
    BY <1>9
  <2>4. home[ch[i]] \in SUBSET Nat
    BY <1>1, <1>2
  <2>5. home2[splits[i].page] = {k \in Nat : k > m(i) /\ k \in home[ch[i]]}
    BY <1>5, <2>3
  <2> QED BY <2>1, <2>2, <2>4, <2>5
<1>10. ASSUME NEW i \in DOMAIN ch \ D PROVE home2[ch[i]] = home[ch[i]]
  <2>1. \A j \in D : ch[j] # ch[i]
    BY <1>1 DEF IsInjective
  <2> QED BY <1>1, <1>7, <2>1
<1> QED BY <1>3, <1>6, <1>7, <1>8, <1>10 DEF DividedAt, D, m

LEMMA SplitPages ==
  ASSUME TreeInv, ParentsOK, NEW new, NEW k \in Nat, NewPages(new, k), node' = new ++ node,
         NEW home, HomesOK(home), ReachedOK, LevelsOK, NEW h \in Created, IsBranch(node[h]),
         NEW splits, OrderedSplit(h, splits, new, home),
         NEW home2, home2 = SplitHome(h, splits, home)
  PROVE  HomesOK(home2)' /\ ReachedOK' /\ LevelsOK' /\ home2 \in [Created' -> SUBSET Nat]
<1> DEFINE D == DOMAIN splits
           ch == node[h].children
           pg(i) == splits[i].page
           R == {splits[i].page : i \in D}
<1>1. /\ IsInjective(ch) /\ D \subseteq DOMAIN ch /\ Kids(node[h]) = Range(ch)
      /\ \A i \in DOMAIN ch : ch[i] \in Created /\ ch[i] # Root /\ ch[i] # h /\ ch[i] \in Kids(node[h])
  <2>1. Kids(node[h]) = Range(ch) /\ Kids(node[h]) \in SUBSET (Created \ {Root})
    BY BranchShape, KidsInTree
  <2>2. \A i \in DOMAIN ch : ch[i] \in Range(ch)
    BY DEF Range
  <2> QED BY <2>1, <2>2 DEF ParentsOK, OrderedSplit
<1>2. /\ home2 \in [Created \cup R -> SUBSET Nat]
      /\ \A p \in Created : (\A i \in D : ch[i] # p) => home2[p] = home[p]
      /\ DividedAt(node[h], splits, home, home2)
  BY SplitHomeIs
<1>3. /\ Created \subseteq Created' /\ DOMAIN new \subseteq Created'
      /\ \A p \in DOMAIN new : node'[p] = new[p]
      /\ \A p \in Created' \ DOMAIN new : node'[p] = node[p] /\ p \in Created
  BY WriteFacts
<1>4. /\ DOMAIN new \subseteq Created \cup R /\ R \subseteq DOMAIN new /\ R \cap Created = {}
      /\ h \in DOMAIN new /\ \A i \in D : ch[i] \in DOMAIN new
      /\ \A i, j \in D : splits[i].page = splits[j].page => i = j
  BY DEF OrderedSplit
<1>5. Created' = Created \cup R
  BY <1>3, <1>4
<1>6. Root \in Created /\ Root \notin R
  BY <1>4, PageNumbers
(* Only children of h are divided, and h is none of them. *)
<1>7. \A p \in Created \ {h} : \A c \in Kids(node[p]) : c \in Created /\ \A i \in D : ch[i] # c
  <2> SUFFICES ASSUME NEW p \in Created \ {h}, NEW c \in Kids(node[p]) PROVE c \in Created /\ \A i \in D : ch[i] # c
    OBVIOUS
  <2>1. c \in Created /\ Kids(node[p]) \cap Kids(node[h]) = {}
    BY KidsInTree DEF ParentsOK
  <2> QED BY <1>1, <2>1
<1>8. PICK b \in BOOLEAN : BranchOK(node[h], Kin(b))
  BY BranchShape
<1>9. node[h] = RootNode(node[h].pivots, node[h].children) \/ node[h] = Inner(node[h].pivots, node[h].children, node[h].upserts)
  BY BranchShape
<1>10. \A i \in D : splits[i].page \notin Range(ch)
  BY <1>1, <1>4 DEF Range
<1>11. NodeOrdered(node[h], home[h], home) /\ home[h] \in SUBSET Nat
  BY DEF HomesOK
<1>12. BranchOrdered(new[h], home[h], home2)
  <2>1. BranchOrdered(node[h], home[h], home)
    BY <1>11 DEF NodeOrdered
  <2>2. new[h] = InsertPivots(node[h], splits) /\ D \in SUBSET DOMAIN ch
    BY DEF OrderedSplit
  <2>3. BranchOrdered(InsertPivots(node[h], splits), home[h], home2)
    BY <1>1, <1>2, <1>4, <1>8, <1>9, <1>10, <1>11, <2>1, <2>2, InsertedOrdered
  <2> QED BY <2>2, <2>3
<1>13. /\ Kids(new[h]) = Kids(node[h]) \cup R /\ IsBranch(new[h]) /\ new[h] # Zeros
       /\ new[h].type = node[h].type
       /\ new[h].type = "inner" => new[h].upserts = node[h].upserts
  <2>1. new[h] = InsertPivots(node[h], splits) /\ D \in SUBSET DOMAIN ch
    BY DEF OrderedSplit
  <2>2. Range(InsertPivots(node[h], splits).children) = Range(ch) \cup R
    BY <1>1, <1>4, <1>8, <1>9, <1>10, <2>1, InsertedChildren
  <2>3. BranchOK(node[h], Kin(b) \cup R)
    BY <1>8, BranchMonotonic
  <2>4. \A i \in D : splits[i].page \in Kin(b) \cup R
    OBVIOUS
  <2>5. /\ node[h] = Inner(node[h].pivots, ch, node[h].upserts) =>
             new[h] = Inner(new[h].pivots, new[h].children, node[h].upserts)
        /\ node[h] = RootNode(node[h].pivots, ch) => new[h] = RootNode(new[h].pivots, new[h].children)
    <3> DEFINE z == InsertPivots(node[h], splits)
    <3>1. /\ node[h] = Inner(node[h].pivots, ch, node[h].upserts) =>
               z = Inner(z.pivots, z.children, node[h].upserts)
          /\ node[h] = RootNode(node[h].pivots, ch) => z = RootNode(z.pivots, z.children)
      <4> HIDE DEF z, D, R
      <4> QED BY <1>9, <2>3, <2>4, InsertedShape DEF z, D
    <3> QED BY <2>1, <3>1
  <2>6. CASE node[h] = RootNode(node[h].pivots, ch)
    <3>1. new[h] = RootNode(new[h].pivots, new[h].children)
      BY <2>5, <2>6
    <3>2. new[h].type = "root" /\ node[h].type = "root"
      BY <2>6, <3>1 DEF RootNode
    <3> QED BY <1>1, <2>1, <2>2, <3>2 DEF Kids, IsBranch, Zeros
  <2>7. CASE node[h] = Inner(node[h].pivots, ch, node[h].upserts)
    <3>1. new[h] = Inner(new[h].pivots, new[h].children, node[h].upserts)
      BY <2>5, <2>7
    <3>2. new[h].type = "inner" /\ node[h].type = "inner" /\ new[h].upserts = node[h].upserts
      BY <2>7, <3>1 DEF Inner
    <3> QED BY <1>1, <2>1, <2>2, <3>2 DEF Kids, IsBranch, Zeros
  <2> QED BY <1>9, <2>6, <2>7
<1>14. NodeOrdered(new[h], home2[h], home2)
  <2>1. home2[h] = home[h]
    BY <1>1, <1>2
  <2>2. new[h].type = "inner" => DOMAIN new[h].upserts \subseteq home[h]
    BY <1>11, <1>13 DEF NodeOrdered
  <2>3. new[h].type # "leaf"
    BY <1>13 DEF IsBranch
  <2> QED BY <1>12, <1>13, <2>1, <2>2, <2>3 DEF NodeOrdered
(* What is written below h. *)

<1>15. ASSUME NEW i \in D
       PROVE  SplitInto(node[ch[i]], home[ch[i]], home, new[ch[i]], new[pg(i)], splits[i].pivot)
  BY DEF OrderedSplit
<1>16. ASSUME NEW p \in (DOMAIN new \cap Created) \ {h}, \A i \in D : ch[i] # p
       PROVE  Stands(node[p], home[p], home, new[p])
  BY <1>16 DEF OrderedSplit
<1>17. \A i \in D : /\ Kids(new[ch[i]]) \subseteq Kids(node[ch[i]])
                    /\ Kids(new[pg(i)]) \subseteq Kids(node[ch[i]])
                    /\ Kids(node[ch[i]]) = Kids(new[ch[i]]) \cup Kids(new[pg(i)])
                    /\ (IsBranch(new[ch[i]]) <=> IsBranch(node[ch[i]]))
                    /\ (IsBranch(new[pg(i)]) <=> IsBranch(node[ch[i]]))
  BY <1>15 DEF SplitInto
<1> HIDE DEF D, R, pg, ch
<1>18. ASSUME NEW p \in Created \ {h}, NEW c \in Kids(node[p]) PROVE home2[c] = home[c] /\ c \in Created
  BY <1>2, <1>7
<1>19. ASSUME NEW p \in DOMAIN new PROVE NodeOrdered(new[p], home2[p], home2)
  <2>1. CASE p = h
    BY <1>14, <2>1
  <2>2. CASE p # h /\ p \in Created /\ \A i \in D : ch[i] # p
    <3>1. Stands(node[p], home[p], home, new[p])
      BY <1>16, <2>2
    <3>2. home2[p] = home[p]
      BY <1>2, <2>2
    <3>3. \A c \in Kids(new[p]) : home2[c] = home[c]
      BY <1>18, <2>2, <3>1 DEF Stands
    <3> QED BY <3>1, <3>2, <3>3, OrderedSame DEF Stands
  <2>3. ASSUME NEW i \in D, p = ch[i] PROVE NodeOrdered(new[p], home2[p], home2)
    <3>1. SplitInto(node[p], home[p], home, new[p], new[pg(i)], splits[i].pivot)
      BY <1>15, <2>3
    <3>2. home2[p] = {x \in home[p] : x <= splits[i].pivot}
      BY <1>2, <2>3 DEF DividedAt, D, ch
    <3>3. p \in Created \ {h}
      BY <1>1, <2>3
    <3>4. \A c \in Kids(new[p]) : home2[c] = home[c]
      BY <1>17, <1>18, <2>3, <3>3
    <3> QED BY <3>1, <3>2, <3>4, OrderedSame DEF SplitInto
  <2>4. ASSUME NEW i \in D, p = pg(i) PROVE NodeOrdered(new[p], home2[p], home2)
    <3>1. SplitInto(node[ch[i]], home[ch[i]], home, new[ch[i]], new[p], splits[i].pivot)
      BY <1>15, <2>4
    <3>2. home2[p] = {x \in home[ch[i]] : x > splits[i].pivot}
      BY <1>2, <2>4 DEF DividedAt, D, ch, pg
    <3>3. ch[i] \in Created \ {h}
      BY <1>1
    <3>4. \A c \in Kids(new[p]) : home2[c] = home[c]
      BY <1>17, <1>18, <2>4, <3>3
    <3> QED BY <3>1, <3>2, <3>4, OrderedSame DEF SplitInto
  <2>5. p \in Created \/ \E i \in D : p = pg(i)
    BY <1>4 DEF R, pg
  <2> QED BY <2>1, <2>2, <2>3, <2>4, <2>5
<1>20. home2[Root] = Nat
  <2>1. \A i \in D : ch[i] # Root
    BY <1>1
  <2> QED BY <1>2, <1>6, <2>1 DEF HomesOK
<1>21. ASSUME NEW p \in Created \ DOMAIN new
       PROVE  p # h /\ home2[p] = home[p] /\ \A c \in Kids(node[p]) : home2[c] = home[c]
  <2>1. p # h /\ \A i \in D : ch[i] # p
    BY <1>4
  <2> QED BY <1>2, <1>18, <2>1
<1>22. HomesOK(home2)' /\ home2 \in [Created' -> SUBSET Nat]
  <2>1. home2 \in [Created' -> SUBSET Nat]
    BY <1>2, <1>5
  <2> QED BY <1>19, <1>20, <1>21, <2>1, HomesWrite
<1>23. LevelsOK'
  <2>1. PICK height \in [Created -> Nat] : HeightsOK(height)
    BY DEF LevelsOK
  <2> DEFINE of(p) == CHOOSE i \in D : pg(i) = p
  <2>0. PICK height2 : height2 = [p \in Created' |-> IF p \in Created THEN height[p] ELSE height[ch[of(p)]]]
    OBVIOUS
  <2>2. ASSUME NEW i \in D PROVE of(pg(i)) = i /\ ch[i] \in Created /\ pg(i) \in Created' /\ pg(i) \notin Created
    <3>1. \A j \in D : pg(j) = pg(i) <=> j = i
      BY <1>4 DEF pg
    <3> QED BY <1>1, <1>4, <1>5, <3>1 DEF pg, R
  <2>3. /\ \A p \in Created : height2[p] = height[p]
        /\ \A i \in D : height2[pg(i)] = height[ch[i]]
    BY <1>5, <2>0, <2>2
  <2>4. height2 \in [Created' -> Nat]
    <3>1. ASSUME NEW p \in Created' \ Created PROVE ch[of(p)] \in Created
      <4>1. PICK i \in D : p = pg(i)
        BY <1>5 DEF R, pg
      <4> QED BY <2>2, <4>1
    <3> QED BY <2>0, <3>1
  <2> HIDE DEF of
  <2>5. \A p \in Created \ {h} : \A c \in Kids(node[p]) : height2[c] = height[c]
    BY <1>18, <2>3
  <2>6. \A p \in Created : NodeLevel(node[p], height[p], height)
    BY <2>1 DEF HeightsOK
  <2>7. ASSUME NEW p \in DOMAIN new PROVE NodeLevel(new[p], height2[p], height2)
    <3>1. CASE p = h
      <4>1. \A c \in Kids(node[h]) : height[c] + 1 = height[h] /\ c \in Created
        <5>1. Kids(node[h]) \in SUBSET (Created \ {Root})
          BY KidsInTree
        <5> QED BY <2>6, <5>1 DEF NodeLevel
      <4>2. ASSUME NEW c \in Kids(new[h]) PROVE height2[c] + 1 = height2[h]
        <5>1. CASE c \in Kids(node[h])
          BY <2>3, <4>1, <5>1
        <5>2. CASE c \notin Kids(node[h])
          <6>1. PICK i \in D : c = pg(i)
            BY <1>13, <5>2 DEF R, pg
          <6>2. height2[c] = height[ch[i]] /\ ch[i] \in Kids(node[h])
            BY <1>1, <2>3, <6>1
          <6> QED BY <2>3, <4>1, <6>2
        <5> QED BY <5>1, <5>2
      <4> QED BY <1>13, <3>1, <4>2 DEF NodeLevel
    <3>2. CASE p # h /\ p \in Created /\ \A i \in D : ch[i] # p
      <4>1. Stands(node[p], home[p], home, new[p])
        BY <1>16, <3>2
      <4> QED BY <2>3, <2>5, <2>6, <3>2, <4>1 DEF Stands, NodeLevel
    <3>3. ASSUME NEW i \in D, p \in {ch[i], pg(i)} PROVE NodeLevel(new[p], height2[p], height2)
      <4>1. ch[i] \in Created \ {h} /\ height2[p] = height[ch[i]]
        BY <1>1, <2>3, <3>3
      <4>2. Kids(new[p]) \subseteq Kids(node[ch[i]]) /\ (IsBranch(new[p]) <=> IsBranch(node[ch[i]]))
        BY <1>17, <3>3
      <4> QED BY <2>5, <2>6, <4>1, <4>2 DEF NodeLevel
    <3>5. p \in Created \/ \E i \in D : p = pg(i)
      BY <1>4 DEF R, pg
    <3> QED BY <3>1, <3>2, <3>3, <3>5
  <2>8. ASSUME NEW p \in Created \ DOMAIN new
        PROVE  height2[p] = height[p] /\ \A c \in Kids(node[p]) : height2[c] = height[c]
    BY <1>21, <2>3, <2>5
  <2>9. HeightsOK(height2)'
    BY <2>1, <2>4, <2>7, <2>8, HeightsWrite
  <2> QED BY <2>4, <2>9 DEF LevelsOK
<1>24. ReachedOK'
  <2> SUFFICES ASSUME NEW c \in Created' \ {Root} PROVE \E p \in Created' : c \in Kids(node'[p])
    BY DEF ReachedOK, Root, Kids, IsBranch
  <2>1. CASE c \in R
    BY <1>3, <1>4, <1>13, <2>1
  <2>2. CASE c \in Created
    <3>1. PICK p \in Created : c \in Kids(node[p])
      BY <2>2 DEF ReachedOK
    <3>2. CASE p \notin DOMAIN new
      BY <1>3, <3>1, <3>2
    <3>3. CASE p = h
      BY <1>3, <1>4, <1>13, <3>1, <3>3
    <3>4. CASE p \in DOMAIN new /\ p # h /\ \A i \in D : ch[i] # p
      <4>1. Stands(node[p], home[p], home, new[p])
        BY <1>16, <3>4
      <4> QED BY <1>3, <3>1, <3>4, <4>1 DEF Stands
    <3>5. ASSUME NEW i \in D, p = ch[i], p \in DOMAIN new PROVE \E q \in Created' : c \in Kids(node'[q])
      <4>1. c \in Kids(new[ch[i]]) \/ c \in Kids(new[pg(i)])
        BY <1>17, <3>1, <3>5
      <4>2. pg(i) \in DOMAIN new
        BY <1>4 DEF R, pg
      <4> QED BY <1>3, <3>5, <4>1, <4>2
    <3> QED BY <3>2, <3>3, <3>4, <3>5
  <2> QED BY <1>5, <2>1, <2>2
<1> QED BY <1>22, <1>23, <1>24

(***************************************************************************)
(* Steps and SearchInv.                                                    *)
(***************************************************************************)
(* What PlaceOK says of the other threads is about the same. *)
Elsewhere(t) ==
  \A u \in Threads \ {t} :
    pc'[u] = pc[u] /\ call'[u] = call[u] /\ current'[u] = current[u] /\ queue'[u] = queue[u]

(* The child of the root a search for a key comes to is where it belongs.   *)
LEMMA HomeBelow ==
  ASSUME TreeInv, NEW home, HomesOK(home), NEW p \in Created, IsBranch(node[p]),
         NEW k \in home[p]
  PROVE  /\ ChildOf(node[p], k) \in Created \ {Root} /\ k \in home[ChildOf(node[p], k)]
         /\ k \in Nat
<1> DEFINE c == ChildOf(node[p], k)
<1>1. c \in Created \ {Root} /\ c \in Range(node[p].children)
  BY ChildInTree
<1>2. BranchOrdered(node[p], home[p], home) /\ home[p] \in SUBSET Nat
  BY DEF HomesOK, NodeOrdered
<1>3. home[c] = {j \in home[p] : ChildOf(node[p], j) = c}
  BY <1>1, <1>2 DEF BranchOrdered
<1> QED BY <1>1, <1>2, <1>3

(* Steps that change no node. *)
LEMMA QuietSearch ==
  ASSUME TreeInv, SearchInv, NEW t \in Threads, node' = node, Elsewhere(t),
         queue'[t] \in {queue[t], <<>>},
         pc'[t] = "target" => /\ IsBranch(node[Root]) /\ Key(t)' \in Nat
                              /\ current'[t] = ChildOf(node[Root], Key(t)')
  PROVE  SearchInv'
<1>1. ReachedOK' /\ LevelsOK' /\ Created' = Created
  BY DEF SearchInv, ReachedOK, LevelsOK, HeightsOK, Created
<1>2. PICK home \in [Created -> SUBSET Nat] : HomesOK(home) /\ \A u \in Threads : PlaceOK(u, home)
  BY DEF SearchInv, OrderOK
<1>3. HomesOK(home)'
  BY <1>1, <1>2 DEF HomesOK
<1>4. ASSUME NEW u \in Threads \ {t} PROVE PlaceOK(u, home)'
  BY <1>2 DEF PlaceOK, Elsewhere, Key
<1>5. PlaceOK(t, home)'
  <2>1. \A e \in Range(queue'[t]) : DOMAIN e.messages \subseteq home[e.page]
    <3>1. CASE queue'[t] = queue[t]
      BY <1>2, <3>1 DEF PlaceOK
    <3>2. CASE queue'[t] = <<>>
      BY <3>2, EmptyQueue
    <3> QED BY <3>1, <3>2
  <2>2. pc'[t] = "target" => Key(t)' \in home[current'[t]]
    <3>1. ASSUME pc'[t] = "target", NEW k, k = Key(t)' PROVE k \in home[current'[t]]
      <4>1. Root \in Created /\ k \in home[Root]
        BY <1>2, <3>1, PageNumbers DEF HomesOK
      <4>2. k \in home[ChildOf(node[Root], k)]
        BY <1>2, <3>1, <4>1, HomeBelow
      <4> QED BY <3>1, <4>2
    <3> QED BY <3>1
  <2> QED BY <2>1, <2>2 DEF PlaceOK, Key
<1>6. OrderOK'
  <2>1. \A u \in Threads : PlaceOK(u, home)'
    BY <1>4, <1>5
  <2> QED BY <1>1, <1>2, <1>3, <2>1 DEF OrderOK
<1> QED BY <1>1, <1>6 DEF SearchInv

LEMMA BeginSearch ==
  ASSUME TreeInv, SearchInv, NEW t \in Threads, NEW c, Begin(t, c)
  PROVE  SearchInv'
<1>1. LocalTypes /\ node' = node /\ queue' = queue /\ current' = current
  BY DEF TreeInv, Begin, tree
<1>2. pc'[t] \in {"pinRoot", "header"} /\ Elsewhere(t)
  BY <1>1 DEF Begin, Go, LocalTypes, Elsewhere
<1> QED BY <1>1, <1>2, QuietSearch

LEMMA ReadHeaderSearch ==
  ASSUME TreeInv, SearchInv, NEW t \in Threads, ReadHeader(t) PROVE SearchInv'
<1>1. LocalTypes /\ node' = node /\ queue' = queue /\ current' = current /\ call' = call
  BY DEF TreeInv, ReadHeader, tree, client
<1>2. pc'[t] = "pinRoot" /\ Elsewhere(t)
  BY <1>1 DEF ReadHeader, Go, LocalTypes, Elsewhere
<1> QED BY <1>1, <1>2, QuietSearch

LEMMA PinRootSearch ==
  ASSUME TreeInv, SearchInv, NEW t \in Threads, PinRoot(t) PROVE SearchInv'
<1>1. LocalTypes /\ node' = node /\ queue' = queue /\ call' = call
  BY DEF TreeInv, PinRoot, tree, client
<1>2. pc'[t] = "root" /\ Elsewhere(t)
  BY <1>1 DEF PinRoot, Go, LocalTypes, Elsewhere
<1> QED BY <1>1, <1>2, QuietSearch

LEMMA RetrySearch ==
  ASSUME TreeInv, SearchInv, NEW t \in Threads, Retry(t) PROVE SearchInv'
<1>1. LocalTypes /\ node' = node /\ queue' = queue /\ current' = current /\ call' = call
  BY DEF TreeInv, Retry, tree, client
<1>2. pc'[t] = "pinRoot" /\ Elsewhere(t)
  BY <1>1 DEF Retry, Go, LocalTypes, Elsewhere
<1> QED BY <1>1, <1>2, QuietSearch

(* The target is where the key belongs. *)
LEMMA PinTargetSearch ==
  ASSUME TreeInv, RoomInv, SearchInv, NEW t \in Threads, PinTarget(t) PROVE SearchInv'
<1>1. LocalTypes /\ node' = node /\ queue' = queue /\ call' = call /\ pc[t] = "root" /\ ~IsLeaf(Root)
  BY DEF TreeInv, PinTarget, tree, client, AtRoot, At
<1>2. current[t] = Root /\ IsBranch(node[Root])
  BY <1>1, AtRootFacts
<1>3. current'[t] = ChildOf(node[Root], Key(t)) /\ Elsewhere(t)
  BY <1>1, <1>2 DEF PinTarget, Go, LocalTypes, Elsewhere, Here
<1>4. Key(t) \in Nat
  <2>1. CallOK(t)
    BY DEF RoomInv
  <2> QED BY <1>1, <2>1, KeysAssumption DEF CallOK, CallType, Key
<1>5. Key(t)' = Key(t)
  BY <1>1 DEF Key
<1> QED BY <1>1, <1>2, <1>3, <1>4, <1>5, QuietSearch

LEMMA PinFlushChildSearch ==
  ASSUME TreeInv, SearchInv, NEW t \in Threads, NEW i, PinFlushChild(t, i) PROVE SearchInv'
<1>1. LocalTypes /\ node' = node /\ queue' = queue /\ current' = current /\ call' = call
  BY DEF TreeInv, PinFlushChild, tree, client
<1>2. pc'[t] \in {"flush", "failed"} /\ Elsewhere(t)
  BY <1>1 DEF PinFlushChild, Go, LocalTypes, Elsewhere
<1> QED BY <1>1, <1>2, QuietSearch

(* Answers and failures. *)
LEMMA AnswerElsewhere ==
  ASSUME TreeInv, NEW t \in Threads, NEW r, Answer(t, r)
  PROVE  Elsewhere(t) /\ pc'[t] = "client" /\ queue'[t] = <<>>
<1>1. LocalTypes
  BY DEF TreeInv
<1> QED BY <1>1 DEF Answer, Go, LocalTypes, Elsewhere

LEMMA QuietAnswerSearch ==
  ASSUME TreeInv, SearchInv, NEW t \in Threads, NEW r, Answer(t, r), UNCHANGED tree PROVE SearchInv'
<1>1. node' = node
  BY DEF tree
<1> QED BY <1>1, AnswerElsewhere, QuietSearch

LEMMA FailSearch ==
  ASSUME TreeInv, SearchInv, NEW t \in Threads, Fail(t) PROVE SearchInv'
<1>1. LocalTypes /\ node' = node /\ queue' = queue /\ current' = current /\ call' = call
  BY DEF TreeInv, Fail, tree, client
<1>2. pc'[t] = "failed" /\ Elsewhere(t)
  BY <1>1 DEF Fail, Go, LocalTypes, Elsewhere
<1> QED BY <1>1, <1>2, QuietSearch

LEMMA FindOnSearch ==
  ASSUME TreeInv, SearchInv, NEW t \in Threads, NEW p, UNCHANGED tree,
         current' = [current EXCEPT ![t] = p], Go(t, "find"), UNCHANGED <<client, exclusiveMode, mode, queue>>
  PROVE  SearchInv'
<1>1. LocalTypes /\ node' = node /\ queue' = queue /\ call' = call
  BY DEF TreeInv, tree, client
<1>2. pc'[t] = "find" /\ Elsewhere(t)
  BY <1>1 DEF Go, LocalTypes, Elsewhere
<1> QED BY <1>1, <1>2, QuietSearch

LEMMA FindChildSearch ==
  ASSUME TreeInv, SearchInv, NEW t \in Threads, FindChild(t) PROVE SearchInv'
<1> DEFINE p == ChildOf(Here(t), Key(t))
           sum == accumulated[t]
           upserts == node[p].upserts
           value == ValueIn(node[p].pairs, Key(t))
           found == IF Key(t) \in DOMAIN upserts THEN upserts[Key(t)].type ELSE "nothing"
<1>1. UNCHANGED tree
  BY DEF FindChild
<1>2. IF IsLeaf(p)
      THEN IF value # None THEN Answer(t, value + sum)
           ELSE IF sum = 0 THEN Answer(t, None) ELSE Fail(t)
      ELSE IF node[p] = Zeros THEN Fail(t)
      ELSE CASE found = "insert" -> Answer(t, upserts[Key(t)].value + sum)
             [] found = "erase" -> Answer(t, None)
             [] OTHER ->
                  /\ current' = [current EXCEPT ![t] = p]
                  /\ Go(t, "find")
                  /\ UNCHANGED <<client, exclusiveMode, mode, queue>>
  BY DEF FindChild
<1> HIDE DEF p, sum, upserts, value, found
<1>3. \/ \E r : Answer(t, r)
      \/ Fail(t)
      \/ /\ current' = [current EXCEPT ![t] = p] /\ Go(t, "find")
         /\ UNCHANGED <<client, exclusiveMode, mode, queue>>
  BY <1>2
<1> QED BY <1>1, <1>3, QuietAnswerSearch, FailSearch, FindOnSearch

(* Steps of nobody. *)
LEMMA AloneSearch ==
  ASSUME TreeInv, SearchInv, node' = node, call' = call, UNCHANGED locals PROVE SearchInv'
<1>1. pc' = pc /\ current' = current /\ queue' = queue
  BY DEF locals
<1>2. ReachedOK' /\ LevelsOK' /\ Created' = Created
  BY DEF SearchInv, ReachedOK, LevelsOK, HeightsOK, Created
<1>3. PICK home \in [Created -> SUBSET Nat] : HomesOK(home) /\ \A u \in Threads : PlaceOK(u, home)
  BY DEF SearchInv, OrderOK
<1>4. HomesOK(home)'
  BY <1>2, <1>3 DEF HomesOK
<1>5. \A u \in Threads : PlaceOK(u, home)'
  BY <1>1, <1>3 DEF PlaceOK, Key
<1>6. OrderOK'
  BY <1>2, <1>3, <1>4, <1>5 DEF OrderOK
<1> QED BY <1>2, <1>6 DEF SearchInv

(***************************************************************************)
(* Leaves and messages.                                                    *)
(***************************************************************************)
LEMMA HalfDomains ==
  ASSUME NEW f, NEW k
  PROVE  /\ DOMAIN UpTo(f, k) = {j \in DOMAIN f : j <= k}
         /\ DOMAIN Above(f, k) = {j \in DOMAIN f : j > k}
BY DEF UpTo, Above, Restrict
LEMMA ApplyDomain ==
  ASSUME NEW f, NEW m
  PROVE  DOMAIN Apply(f, m) \subseteq DOMAIN f \cup DOMAIN m
BY DEF Apply
LEMMA RestrictDomainIs ==
  ASSUME NEW f, NEW S
  PROVE  DOMAIN Restrict(f, S) = S
BY DEF Restrict
LEMMA MergeDomain ==
  ASSUME NEW f, NEW g
  PROVE  DOMAIN MergeUpserts(f, g) = DOMAIN f \cup DOMAIN g
BY DEF MergeUpserts

(* Four keys in two arrays have more than one greater or equal to their     *)
(* median: it is not the greatest of them.                                  *)
LEMMA MedianInside ==
  ASSUME NEW P \in SUBSET Nat, NEW M \in SUBSET Nat, IsFiniteSet(P), IsFiniteSet(M),
         Cardinality(P) + Cardinality(M) >= 4
  PROVE  LET k == FindMedianKey(P, M) IN
         k \in P \cup M /\ k \in Nat /\ \E top \in P \cup M : k < top
<1> DEFINE m == FindMedianKey(P, M)
           middle == (Cardinality(P) + Cardinality(M) + 1) \div 2
           K == {k \in P \cup M : Cardinality({j \in P : j <= k}) + Cardinality({j \in M : j <= k}) >= middle}
           T == P \cup M
           a == Cardinality(P)
           b == Cardinality(M)
<1>1. IsFiniteSet(T) /\ T \in SUBSET Nat /\ a \in Nat /\ b \in Nat
  BY UnionOfFinite
<1>2. middle \in Nat /\ middle + 2 <= a + b
  <2> DEFINE c == a + b
  <2>1. c \in Nat /\ c >= 4 /\ middle = (c + 1) \div 2
    BY <1>1
  <2> HIDE DEF c, middle
  <2>2. middle \in Nat /\ middle + 2 <= c
    BY <2>1
  <2> QED BY <2>2 DEF c, middle
<1>3. T # {}
  <2>1. SUFFICES ASSUME T = {} PROVE FALSE
    OBVIOUS
  <2>2. P = {} /\ M = {}
    BY <2>1
  <2>3. a = 0 /\ b = 0
    BY <2>2, FS_EmptySet
  <2> QED BY <2>3
<1>4. m \in Nat /\ m \in T
  BY <1>3, MedianHalves
<1>5. m = Min(K)
  BY DEF FindMedianKey
<1> HIDE DEF middle, m
<1>6. SUFFICES ASSUME \A x \in T : ~(m < x) PROVE FALSE
  BY <1>4 DEF m
<1>7. \A x \in T : x <= m
  <2> TAKE x \in T
  <2>1. x \in Nat /\ ~(m < x)
    BY <1>1, <1>6
  <2> QED BY <1>4, <2>1
<1> DEFINE U == T \ {m}
<1>8. U # {}
  <2>1. SUFFICES ASSUME U = {} PROVE FALSE
    OBVIOUS
  <2>2. P \in SUBSET {m} /\ M \in SUBSET {m}
    BY <2>1
  <2>3. IsFiniteSet({m}) /\ Cardinality({m}) = 1
    BY FS_Singleton
  <2>4. a <= 1 /\ b <= 1
    BY <2>2, <2>3, PartOfFinite
  <2> QED BY <1>1, <2>4
<1>9. U \in SUBSET Nat /\ IsFiniteSet(U)
  <2>1. U \in SUBSET T
    OBVIOUS
  <2> HIDE DEF U, T
  <2> QED BY <1>1, <2>1, PartOfFinite
<1>10. PICK g \in U : \A x \in U : x <= g
  <2> HIDE DEF U
  <2> QED BY <1>8, <1>9, GreatestNat
<1>11. g \in Nat /\ g \in T /\ g < m
  BY <1>1, <1>4, <1>7, <1>10
<1>12. ASSUME NEW S \in SUBSET T, IsFiniteSet(S)
       PROVE  /\ Cardinality({j \in S : j <= g}) >= Cardinality(S) - 1
              /\ Cardinality({j \in S : j <= g}) \in Nat /\ Cardinality(S) \in Nat
  <2> DEFINE A == {j \in S : j <= g}
  <2>1. A \in SUBSET S /\ S \ A \in SUBSET {m}
    <3>1. \A x \in S \ A : x = m
      BY <1>10
    <3> QED BY <3>1
  <2> HIDE DEF A
  <2>2. IsFiniteSet({m}) /\ Cardinality({m}) = 1
    BY FS_Singleton
  <2>3. Cardinality(S \ A) <= 1 /\ Cardinality(S \ A) \in Nat
    BY <2>1, <2>2, PartOfFinite
  <2>4. Cardinality(A) \in Nat /\ Cardinality(S) \in Nat /\ Cardinality(S \ A) = Cardinality(S) - Cardinality(A)
    BY <1>12, <2>1, PartOfFinite
  <2> QED BY <2>3, <2>4 DEF A
<1>13. g \in K
  <2> DEFINE c == Cardinality({j \in P : j <= g})
             d == Cardinality({j \in M : j <= g})
  <2>1. c >= a - 1 /\ c \in Nat /\ d >= b - 1 /\ d \in Nat
    <3>1. P \in SUBSET T /\ M \in SUBSET T
      OBVIOUS
    <3> HIDE DEF T
    <3> QED BY <1>12, <3>1
  <2> HIDE DEF c, d, a, b
  <2>2. c + d >= middle
    BY <1>1, <1>2, <2>1
  <2> QED BY <1>11, <2>2 DEF c, d
<1>14. K \subseteq Nat
  BY <1>1
<1>15. PICK y \in K : \A x \in K : y <= x
  <2> HIDE DEF K
  <2> QED BY <1>13, <1>14, LeastNat
<1>16. \A x \in K : m <= x
  <2> HIDE DEF K
  <2> QED BY <1>5, <1>15 DEF Min
<1>17. m <= g
  <2> HIDE DEF K
  <2> QED BY <1>13, <1>16
<1> QED BY <1>4, <1>11, <1>17

(* A leaf that takes messages about keys from its home, and the halves of   *)
(* one that is split.                                                       *)
LEMMA LeafStands ==
  ASSUME NEW n, n.type = "leaf", NEW own, NEW home, NodeOrdered(n, own, home),
         NEW m, DOMAIN m \subseteq own
  PROVE  Stands(n, own, home, Leaf(Apply(n.pairs, m)))
<1>1. DOMAIN Apply(n.pairs, m) \subseteq own
  BY ApplyDomain DEF NodeOrdered
<1> QED BY <1>1 DEF Stands, NodeOrdered, Leaf, Kids, IsBranch, Zeros

LEMMA LeafSplitInto ==
  ASSUME NEW n, n.type = "leaf", NEW own, own \in SUBSET Nat, NEW home, NodeOrdered(n, own, home),
         NEW m, DOMAIN m \subseteq own, IsFiniteSet(DOMAIN n.pairs), IsFiniteSet(DOMAIN m),
         Size(n.pairs) + Size(m) >= 4
  PROVE  LET k == LeafMedian(n.pairs, m) IN
         /\ SplitInto(n, own, home, Leaf(Apply(UpTo(n.pairs, k), UpTo(m, k))),
                      Leaf(Apply(Above(n.pairs, k), Above(m, k))), k)
         /\ k \in Nat
<1> DEFINE k == LeafMedian(n.pairs, m)
           P == DOMAIN n.pairs
           M == DOMAIN m
           l == Leaf(Apply(UpTo(n.pairs, k), UpTo(m, k)))
           r == Leaf(Apply(Above(n.pairs, k), Above(m, k)))
<1>1. P \subseteq own /\ M \subseteq own
  BY DEF NodeOrdered
<1>2. k \in own /\ k \in Nat /\ \E top \in own : k < top
  <2>1. P \in SUBSET Nat /\ M \in SUBSET Nat /\ Cardinality(P) + Cardinality(M) >= 4
    BY <1>1 DEF Size
  <2>2. k \in P \cup M /\ k \in Nat /\ \E top \in P \cup M : k < top
    <3>1. FindMedianKey(P, M) = k
      BY DEF LeafMedian
    <3> HIDE DEF k, P, M
    <3>2. IsFiniteSet(P) /\ IsFiniteSet(M)
      BY DEF P, M
    <3> QED BY <2>1, <3>1, <3>2, MedianInside
  <2> QED BY <1>1, <2>2
<1> HIDE DEF k
<1>3. /\ DOMAIN Apply(UpTo(n.pairs, k), UpTo(m, k)) \subseteq {x \in own : x <= k}
      /\ DOMAIN Apply(Above(n.pairs, k), Above(m, k)) \subseteq {x \in own : x > k}
  <2>1. /\ DOMAIN Apply(UpTo(n.pairs, k), UpTo(m, k)) \subseteq {x \in P : x <= k} \cup {x \in M : x <= k}
        /\ DOMAIN Apply(Above(n.pairs, k), Above(m, k)) \subseteq {x \in P : x > k} \cup {x \in M : x > k}
    <3> DEFINE A == UpTo(n.pairs, k)
               B == UpTo(m, k)
               C == Above(n.pairs, k)
               D == Above(m, k)
    <3>1. DOMAIN A = {x \in P : x <= k} /\ DOMAIN B = {x \in M : x <= k}
      BY HalfDomains
    <3>2. DOMAIN C = {x \in P : x > k} /\ DOMAIN D = {x \in M : x > k}
      BY HalfDomains
    <3> HIDE DEF A, B, C, D
    <3>3. DOMAIN Apply(A, B) \subseteq DOMAIN A \cup DOMAIN B
      BY ApplyDomain
    <3>4. DOMAIN Apply(C, D) \subseteq DOMAIN C \cup DOMAIN D
      BY ApplyDomain
    <3>5. DOMAIN Apply(A, B) \subseteq {x \in P : x <= k} \cup {x \in M : x <= k}
      BY <3>1, <3>3
    <3>6. DOMAIN Apply(C, D) \subseteq {x \in P : x > k} \cup {x \in M : x > k}
      BY <3>2, <3>4
    <3> QED BY <3>5, <3>6 DEF A, B, C, D
  <2> QED BY <1>1, <2>1
<1>4. ASSUME NEW f, NEW A, DOMAIN f \subseteq A
      PROVE  NodeOrdered(Leaf(f), A, home) /\ Kids(Leaf(f)) = {} /\ ~IsBranch(Leaf(f))
  BY <1>4 DEF NodeOrdered, Leaf, Kids, IsBranch, Zeros
<1>5. Kids(n) = {} /\ ~IsBranch(n)
  BY DEF Kids, IsBranch
<1>6. SplitInto(n, own, home, l, r, k)
  BY <1>2, <1>3, <1>4, <1>5 DEF SplitInto
<1> QED BY <1>2, <1>6 DEF k

(* The estimate that splits a leaf counts no more than is there.            *)
LEMMA SplitsLarge ==
  ASSUME NEW f, PairsTyped(f), NEW m, Typed(m), NeedsSplit(f, m)
  PROVE  /\ Size(f) + Size(m) >= 4 /\ IsFiniteSet(DOMAIN f) /\ IsFiniteSet(DOMAIN m)
<1>1. PICK k \in DOMAIN m : FutureSize(f, UpTo(m, k)) > LeafN
  BY DEF NeedsSplit
<1> DEFINE g == UpTo(m, k)
           known == {x \in DOMAIN f : x = Min(DOMAIN f)}
           inserts == {x \in DOMAIN g : g[x].type = "insert"}
           deletes == {x \in DOMAIN g : g[x].type = "erase"}
           come == inserts \ known
           gone == deletes \cap known
           P == DOMAIN f
           M == DOMAIN m
<1>2. FutureSize(f, g) = Cardinality(P) + Cardinality(come) - Cardinality(gone)
  BY DEF FutureSize, Size
<1>3. IsFiniteSet(P) /\ IsFiniteSet(M)
  BY FiniteKeys DEF PairsTyped, Typed
<1>4. come \in SUBSET M /\ gone \in SUBSET P
  <2>1. DOMAIN g \subseteq M
    BY HalfDomains
  <2> HIDE DEF g
  <2> QED BY <2>1
<1> HIDE DEF come, gone, P, M
<1>5. /\ Cardinality(P) \in Nat /\ Cardinality(M) \in Nat /\ Cardinality(gone) \in Nat
      /\ Cardinality(come) \in Nat /\ Cardinality(come) <= Cardinality(M)
  BY <1>3, <1>4, PartOfFinite
<1>6. LeafN \in Nat /\ LeafN >= 3
  BY SizesAssumption
<1>7. Cardinality(P) + Cardinality(M) >= 4
  BY <1>1, <1>2, <1>5, <1>6
<1> QED BY <1>3, <1>7 DEF Size, P, M

(***************************************************************************)
(* Inner nodes that are split.                                             *)
(***************************************************************************)
(* Some of the pivots of a node and the children around them lead the keys  *)
(* between the pivots outside where the whole node does.                    *)
SegmentHome(n, own, a, b) == {k \in own : ChildIndex(n, k) \in a + 1 .. b + 1}
SegmentKids(n, a, b) == {n.children[i] : i \in a + 1 .. b + 1}
IsSegment(part, n, a, b) ==
  /\ a <= b /\ b <= Len(n.pivots)
  /\ part.pivots = SubSeq(n.pivots, a + 1, b)
  /\ part.children = SubSeq(n.children, a + 1, b + 1)
SegmentOK(part, n, own, home, a, b) ==
  /\ BranchOrdered(part, SegmentHome(n, own, a, b), home)
  /\ Range(part.children) = SegmentKids(n, a, b)
  /\ \A k \in SegmentHome(n, own, a, b) : ChildOf(part, k) = ChildOf(n, k)
LEMMA SegmentOrdered ==
  ASSUME NEW n, NEW below, BranchOK(n, below), IsInjective(n.children),
         NEW own, own \in SUBSET Nat, NEW home, BranchOrdered(n, own, home),
         NEW a \in Nat, NEW b \in Nat, NEW part, IsSegment(part, n, a, b)
  PROVE  SegmentOK(part, n, own, home, a, b)
<1> DEFINE c == part.children
           p == part.pivots
           L == Len(n.pivots)
           mine == {k \in own : ChildIndex(n, k) \in a + 1 .. b + 1}
           d == b - a
<1>a. /\ a <= b /\ b <= Len(n.pivots)
      /\ part.pivots = SubSeq(n.pivots, a + 1, b)
      /\ part.children = SubSeq(n.children, a + 1, b + 1)
  BY DEF IsSegment
<1>1. /\ DOMAIN n.pivots = 1 .. L /\ L \in Nat
      /\ DOMAIN n.children = 1 .. L + 1
      /\ \A i \in 1 .. L + 1 : n.children[i] \in below
  BY BranchFacts
<1>2. \A i \in a + 1 .. b : n.pivots[i] \in Range(n.pivots)
  <2> SUFFICES ASSUME NEW i \in a + 1 .. b PROVE n.pivots[i] \in Range(n.pivots)
    OBVIOUS
  <2>1. i \in DOMAIN n.pivots
    BY <1>a, <1>1
  <2> QED BY <2>1 DEF Range
<1>3. /\ p \in Seq(Range(n.pivots))
      /\ Len(p) = IF a + 1 <= b THEN b - (a + 1) + 1 ELSE 0
      /\ \A i \in 1 .. b - (a + 1) + 1 : p[i] = n.pivots[a + 1 + i - 1]
  BY <1>a, <1>2, SubSeqProperties
<1>4. \A i \in a + 1 .. b + 1 : n.children[i] \in below /\ i \in DOMAIN n.children
  BY <1>a, <1>1, SMTT(30)
<1>5. /\ c \in Seq(below)
      /\ Len(c) = IF a + 1 <= b + 1 THEN b + 1 - (a + 1) + 1 ELSE 0
      /\ \A i \in 1 .. b + 1 - (a + 1) + 1 : c[i] = n.children[a + 1 + i - 1]
  BY <1>a, <1>4, SubSeqProperties
<1> HIDE DEF p, c, L
<1>6. d \in Nat /\ DOMAIN p = 1 .. d /\ DOMAIN c = 1 .. d + 1
  <2>1. DOMAIN c = 1 .. Len(c) /\ DOMAIN p = 1 .. Len(p)
    BY <1>3, <1>5, LenProperties
  <2>2. Len(p) = d /\ Len(c) = d + 1
    BY <1>a, <1>3, <1>5
  <2> QED BY <2>1, <2>2
<1>7. \A i \in 1 .. d : a + i \in a + 1 .. b /\ p[i] = n.pivots[a + i]
  <2>1. ASSUME NEW i \in 1 .. d PROVE a + i \in a + 1 .. b /\ p[i] = n.pivots[a + i]
    <3>1. i \in 1 .. b - (a + 1) + 1 /\ a + 1 + i - 1 = a + i /\ a + i \in a + 1 .. b
      OBVIOUS
    <3> QED BY <1>3, <3>1
  <2> QED BY <2>1
<1>8. \A i \in 1 .. d + 1 : a + i \in a + 1 .. b + 1 /\ c[i] = n.children[a + i]
  <2>1. ASSUME NEW i \in 1 .. d + 1 PROVE a + i \in a + 1 .. b + 1 /\ c[i] = n.children[a + i]
    <3>1. i \in 1 .. b + 1 - (a + 1) + 1 /\ a + 1 + i - 1 = a + i /\ a + i \in a + 1 .. b + 1
      OBVIOUS
    <3> QED BY <1>5, <3>1
  <2> QED BY <2>1
<1>9. Increases(n.pivots) /\ Range(n.pivots) \subseteq own /\ Range(n.pivots) \subseteq Nat
      /\ \A i \in 1 .. L : n.pivots[i] \in own /\ n.pivots[i] \in Nat
  <2>1. Increases(n.pivots) /\ Range(n.pivots) \subseteq own
    BY DEF BranchOrdered
  <2> QED BY <1>1, <2>1 DEF Range
<1>10. ASSUME NEW k \in Nat
       PROVE  /\ ChildIndex(n, k) \in 1 .. L + 1
              /\ \A j \in 1 .. L : j < ChildIndex(n, k) <=> n.pivots[j] < k
  BY <1>1, <1>9, IndexOfChild
<1>11. Range(c) = {n.children[i] : i \in a + 1 .. b + 1}
  <2>1. \A x \in Range(c) : \E i \in 1 .. d + 1 : x = c[i]
    BY <1>6 DEF Range
  <2>2. ASSUME NEW i \in a + 1 .. b + 1 PROVE n.children[i] \in Range(c)
    <3>1. i - a \in 1 .. d + 1 /\ a + (i - a) = i
      OBVIOUS
    <3>2. c[i - a] = n.children[i]
      BY <1>8, <3>1
    <3> QED BY <1>6, <3>1, <3>2 DEF Range
  <2>3. ASSUME NEW x \in Range(c) PROVE x \in {n.children[i] : i \in a + 1 .. b + 1}
    <3>1. PICK i \in 1 .. d + 1 : x = c[i]
      BY <2>1
    <3>2. x = n.children[a + i] /\ a + i \in a + 1 .. b + 1
      BY <1>8, <3>1
    <3> QED BY <3>2
  <2> QED BY <2>2, <2>3
<1>12. ASSUME NEW k \in own, ChildIndex(n, k) \in a + 1 .. b + 1
       PROVE  ChildOf(part, k) = ChildOf(n, k)
  <2> DEFINE x == ChildIndex(n, k)
             y == x - a
  <2>1. x \in a + 1 .. b + 1 /\ k \in Nat
    BY <1>12
  <2>2. \A j \in 1 .. L : j < x <=> n.pivots[j] < k
    BY <1>10, <2>1
  <2> HIDE DEF x
  <2>3. y \in 1 .. d + 1 /\ a + y = x
    BY <2>1
  <2>4. \A j \in 1 .. d : j < y <=> p[j] < k
    <3> SUFFICES ASSUME NEW j \in 1 .. d PROVE j < y <=> p[j] < k
      OBVIOUS
    <3>1. a + j \in 1 .. L /\ p[j] = n.pivots[a + j]
      <4>1. a + j \in a + 1 .. b /\ p[j] = n.pivots[a + j] /\ b <= L
        BY <1>a, <1>7 DEF L
      <4> QED BY <1>1, <4>1
    <3>2. a + j < x <=> p[j] < k
      BY <2>2, <3>1
    <3>3. a + j < x <=> j < y
      BY <2>1
    <3> QED BY <3>2, <3>3
  <2>5. ChildIndex(part, k) = y
    <3> HIDE DEF y, d
    <3> QED BY <1>6, <2>3, <2>4, IndexIs DEF p
  <2>6. c[y] = n.children[x]
    BY <1>8, <2>3
  <2> QED BY <2>5, <2>6 DEF ChildOf, c, x
<1>13. Increases(p)
  <2> SUFFICES ASSUME NEW i \in 1 .. d, NEW j \in 1 .. d, i < j PROVE p[i] < p[j]
    BY <1>6 DEF Increases
  <2>1. a + i \in DOMAIN n.pivots /\ a + j \in DOMAIN n.pivots /\ a + i < a + j
    <3>1. a + i \in a + 1 .. b /\ a + j \in a + 1 .. b /\ b <= L
      BY <1>a, <1>7 DEF L
    <3> QED BY <1>1, <3>1
  <2>2. n.pivots[a + i] < n.pivots[a + j]
    BY <1>9, <2>1 DEF Increases
  <2> QED BY <1>7, <2>2
<1>14. Range(p) \subseteq mine
  <2> SUFFICES ASSUME NEW i \in 1 .. d PROVE p[i] \in mine
    BY <1>6 DEF Range
  <2>1. a + i \in a + 1 .. b /\ p[i] = n.pivots[a + i] /\ a + i \in 1 .. L
    <3>1. a + i \in a + 1 .. b /\ p[i] = n.pivots[a + i] /\ b <= L
      BY <1>a, <1>7 DEF L
    <3> QED BY <1>1, <3>1
  <2>2. p[i] \in own /\ p[i] \in Nat
    BY <1>9, <2>1
  <2>3. \A j \in 1 .. L : j < a + i <=> n.pivots[j] < p[i]
    <3> SUFFICES ASSUME NEW j \in 1 .. L PROVE j < a + i <=> n.pivots[j] < p[i]
      OBVIOUS
    <3>1. j < a + i => n.pivots[j] < p[i]
      BY <1>1, <1>9, <2>1 DEF Increases
    <3>2. a + i < j => p[i] < n.pivots[j]
      BY <1>1, <1>9, <2>1 DEF Increases
    <3>3. j = a + i => n.pivots[j] = p[i]
      BY <2>1
    <3>4. n.pivots[j] \in Nat
      BY <1>9
    <3> QED BY <2>1, <2>2, <3>1, <3>2, <3>3, <3>4
  <2>4. a + i \in 1 .. L + 1
    BY <1>1, <2>1
  <2>5. ChildIndex(n, p[i]) = a + i
    BY <1>1, <2>3, <2>4, IndexIs
  <2> QED BY <2>1, <2>2, <2>5
<1>15. ASSUME NEW x \in Range(c) PROVE home[x] = {k \in mine : ChildOf(part, k) = x}
  <2>1. PICK i \in a + 1 .. b + 1 : x = n.children[i]
    BY <1>11
  <2>2. home[x] = {k \in own : ChildIndex(n, k) = i}
    BY <1>4, <2>1, HomeOfChild
  <2>3. \A k \in mine : ChildOf(part, k) = x <=> ChildIndex(n, k) = i
    <3> TAKE k \in mine
    <3>1. ChildOf(part, k) = n.children[ChildIndex(n, k)]
      BY <1>12 DEF ChildOf
    <3> QED BY <1>4, <2>1, <3>1 DEF IsInjective
  <2> QED BY <2>1, <2>2, <2>3
<1>16. BranchOrdered(part, mine, home)
  BY <1>13, <1>14, <1>15 DEF BranchOrdered, p, c
<1> QED BY <1>11, <1>12, <1>16 DEF c, SegmentHome, SegmentKids, SegmentOK

(* The halves of an inner node divide its home at the pivot between them.   *)
TwoPivots(n) == Len(n.pivots) >= 2
LEMMA InnerSplitInto ==
  ASSUME NEW n, NEW below, InnerOK(n, below), IsInjective(n.children), TwoPivots(n),
         NEW own \in SUBSET Nat, NEW home, NodeOrdered(n, own, home),
         NEW m, Kids(n) = Kids(m), IsBranch(m)
  PROVE  /\ SplitInto(m, own, home, LeftInner(n), RightInner(n), InnerPivot(n))
         /\ InnerPivot(n) \in Nat
<1> DEFINE L == Len(n.pivots)
           s == SplitIndex(n)
           v == InnerPivot(n)
           l == LeftInner(n)
           r == RightInner(n)
<1>1. BranchOK(n, below) /\ n.type = "inner" /\ IsBranch(n)
  BY DEF InnerOK, IsBranch
<1>2. BranchOrdered(n, own, home) /\ DOMAIN n.upserts \subseteq own
  BY <1>1 DEF NodeOrdered
<1>3. /\ L \in Nat /\ L >= 2 /\ DOMAIN n.pivots = 1 .. L /\ DOMAIN n.children = 1 .. L + 1
      /\ Len(n.children) = L + 1
  BY <1>1, BranchFacts, LenProperties DEF TwoPivots, BranchOK
<1>4. s \in 1 .. L - 1 /\ s \in Nat /\ s = (s - 1) + 1 /\ s - 1 \in Nat
  <2>1. s = (L - 1) \div 2 + 1
    BY DEF SplitIndex
  <2> HIDE DEF L, s
  <2> QED BY <1>3, <2>1
<1>5. v = n.pivots[s]
  BY DEF InnerPivot
<1>6. Increases(n.pivots) /\ Range(n.pivots) \subseteq own /\ Range(n.pivots) \subseteq Nat
  BY <1>2 DEF BranchOrdered
<1>7. v \in own /\ v \in Nat /\ \E top \in own : v < top
  <2>1. s \in DOMAIN n.pivots /\ s + 1 \in DOMAIN n.pivots /\ s < s + 1
    BY <1>3, <1>4
  <2>2. n.pivots[s] \in Range(n.pivots) /\ n.pivots[s + 1] \in Range(n.pivots)
    BY <2>1 DEF Range
  <2>3. n.pivots[s] < n.pivots[s + 1]
    BY <1>6, <2>1 DEF Increases
  <2> QED BY <1>5, <1>6, <2>2, <2>3
<1>8. \A k \in own : /\ ChildIndex(n, k) \in 1 .. L + 1
                     /\ ChildIndex(n, k) <= s <=> k <= v
  <2> SUFFICES ASSUME NEW k \in own
               PROVE  ChildIndex(n, k) \in 1 .. L + 1 /\ (ChildIndex(n, k) <= s <=> k <= v)
    OBVIOUS
  <2>1. ChildIndex(n, k) \in 1 .. L + 1
    BY <1>3, <1>6, IndexOfChild
  <2>2. \A j \in 1 .. L : j >= ChildIndex(n, k) <=> k <= n.pivots[j]
    BY <1>3, <1>6, IndexOfChild
  <2>3. s \in 1 .. L
    BY <1>3, <1>4
  <2>4. s >= ChildIndex(n, k) <=> k <= v
    BY <1>5, <2>2, <2>3
  <2> QED BY <1>4, <2>1, <2>4
<1> HIDE DEF v
<1>9. {k \in own : ChildIndex(n, k) \in 0 + 1 .. (s - 1) + 1} = {k \in own : k <= v}
  <2>1. \A k \in own : ChildIndex(n, k) \in 0 + 1 .. (s - 1) + 1 <=> k <= v
    <3> TAKE k \in own
    <3> DEFINE x == ChildIndex(n, k)
    <3>1. x \in 1 .. L + 1 /\ (x <= s <=> k <= v)
      BY <1>8
    <3> HIDE DEF x, s, L
    <3>2. x \in 0 + 1 .. (s - 1) + 1 <=> k <= v
      BY <1>3, <1>4, <3>1
    <3> QED BY <3>2 DEF x
  <2> QED BY <2>1
<1>10. {k \in own : ChildIndex(n, k) \in s + 1 .. L + 1} = {k \in own : k > v}
  <2>1. \A k \in own : ChildIndex(n, k) \in s + 1 .. L + 1 <=> k > v
    <3> TAKE k \in own
    <3> DEFINE x == ChildIndex(n, k)
    <3>1. x \in 1 .. L + 1 /\ (x <= s <=> k <= v) /\ k \in Nat
      BY <1>8
    <3> HIDE DEF x, s, L
    <3>2. x \in s + 1 .. L + 1 <=> k > v
      BY <1>3, <1>4, <1>7, <3>1
    <3> QED BY <3>2 DEF x
  <2> QED BY <2>1
<1>11. /\ l.type = "inner" /\ l.upserts = UpTo(n.upserts, v)
       /\ l.pivots = SubSeq(n.pivots, 0 + 1, s - 1) /\ l.children = SubSeq(n.children, 0 + 1, (s - 1) + 1)
  BY <1>4 DEF LeftInner, Inner, v
<1>12. /\ r.type = "inner" /\ r.upserts = Above(n.upserts, v)
       /\ r.pivots = SubSeq(n.pivots, s + 1, L) /\ r.children = SubSeq(n.children, s + 1, L + 1)
  BY <1>3 DEF RightInner, Inner, v
<1> HIDE DEF l, r, s, L
<1>13. /\ BranchOrdered(l, {k \in own : ChildIndex(n, k) \in 0 + 1 .. (s - 1) + 1}, home)
       /\ Range(l.children) = {n.children[i] : i \in 0 + 1 .. (s - 1) + 1}
  <2>1. PICK a \in Nat, b \in Nat : a = 0 /\ b = s - 1
    BY <1>4
  <2>2. a <= b /\ b <= Len(n.pivots)
    BY <1>3, <1>4, <2>1 DEF L
  <2>3. l.pivots = SubSeq(n.pivots, a + 1, b) /\ l.children = SubSeq(n.children, a + 1, b + 1)
    BY <1>11, <2>1
  <2>4. SegmentOK(l, n, own, home, a, b)
    <3>1. BranchOK(n, below) /\ BranchOrdered(n, own, home) /\ own \in SUBSET Nat
      BY <1>1, <1>2
    <3>2. IsSegment(l, n, a, b)
      BY <2>2, <2>3 DEF IsSegment
    <3> QED BY <3>1, <3>2, SegmentOrdered
  <2> QED BY <2>1, <2>4 DEF SegmentHome, SegmentKids, SegmentOK
<1>14. /\ BranchOrdered(r, {k \in own : ChildIndex(n, k) \in s + 1 .. L + 1}, home)
       /\ Range(r.children) = {n.children[i] : i \in s + 1 .. L + 1}
  <2>1. s <= L /\ L <= Len(n.pivots) /\ L \in Nat /\ s \in Nat
    BY <1>3, <1>4 DEF L
  <2>4. SegmentOK(r, n, own, home, s, L)
    <3>1. BranchOK(n, below) /\ BranchOrdered(n, own, home) /\ own \in SUBSET Nat
      BY <1>1, <1>2
    <3>2. s <= L /\ L <= Len(n.pivots) /\ L \in Nat /\ s \in Nat
      BY <2>1
    <3>3. r.pivots = SubSeq(n.pivots, s + 1, L) /\ r.children = SubSeq(n.children, s + 1, L + 1)
      BY <1>12
    <3>4. IsSegment(r, n, s, L) /\ L \in Nat /\ s \in Nat
      BY <3>2, <3>3 DEF IsSegment
    <3> QED BY <3>1, <3>4, SegmentOrdered
  <2> QED BY <2>4 DEF SegmentHome, SegmentKids, SegmentOK
<1>15. DOMAIN l.upserts \subseteq {k \in own : k <= v} /\ DOMAIN r.upserts \subseteq {k \in own : k > v}
  <2> DEFINE u == n.upserts
  <2>1. DOMAIN l.upserts = {j \in DOMAIN u : j <= v} /\ DOMAIN r.upserts = {j \in DOMAIN u : j > v}
    <3>1. l.upserts = UpTo(u, v) /\ r.upserts = Above(u, v)
      BY <1>11, <1>12
    <3> HIDE DEF u
    <3>2. DOMAIN UpTo(u, v) = {j \in DOMAIN u : j <= v}
      BY HalfDomains
    <3>3. DOMAIN Above(u, v) = {j \in DOMAIN u : j > v}
      BY HalfDomains
    <3> QED BY <3>1, <3>2, <3>3
  <2>2. DOMAIN u \subseteq own
    BY <1>2
  <2> QED BY <2>1, <2>2
<1>16. NodeOrdered(l, {k \in own : k <= v}, home) /\ NodeOrdered(r, {k \in own : k > v}, home)
  <2> DEFINE low == {k \in own : k <= v}
             high == {k \in own : k > v}
  <2>1. BranchOrdered(l, low, home) /\ BranchOrdered(r, high, home)
    BY <1>9, <1>10, <1>13, <1>14
  <2>2. l.type = "inner" /\ DOMAIN l.upserts \subseteq low /\ l # Zeros
    BY <1>11, <1>15 DEF Zeros
  <2>3. r.type = "inner" /\ DOMAIN r.upserts \subseteq high /\ r # Zeros
    BY <1>12, <1>15 DEF Zeros
  <2> HIDE DEF low, high
  <2>4. NodeOrdered(l, low, home)
    BY <2>1, <2>2 DEF NodeOrdered
  <2>5. NodeOrdered(r, high, home)
    BY <2>1, <2>3 DEF NodeOrdered
  <2> QED BY <2>4, <2>5 DEF low, high
<1>17. Kids(l) \cup Kids(r) = Kids(n)
  <2>1. Kids(l) = Range(l.children) /\ Kids(r) = Range(r.children) /\ Kids(n) = Range(n.children)
    BY <1>1, <1>11, <1>12 DEF Kids, IsBranch
  <2>2. Range(n.children) = {n.children[i] : i \in 1 .. L + 1}
    BY <1>3 DEF Range
  <2>3. \A i : i \in 1 .. L + 1 <=> i \in 0 + 1 .. (s - 1) + 1 \/ i \in s + 1 .. L + 1
    BY <1>3, <1>4
  <2>4. {n.children[i] : i \in 1 .. L + 1} =
          {n.children[i] : i \in 0 + 1 .. (s - 1) + 1} \cup {n.children[i] : i \in s + 1 .. L + 1}
    BY <2>3
  <2> QED BY <1>13, <1>14, <2>1, <2>2, <2>4
<1>18. IsBranch(l) /\ IsBranch(r)
  BY <1>11, <1>12 DEF IsBranch
<1>19. SplitInto(m, own, home, l, r, v)
  BY <1>7, <1>16, <1>17, <1>18 DEF SplitInto
<1> QED BY <1>7, <1>19 DEF v, l, r

(***************************************************************************)
(* Steps that write pages: what the others rely on is about pages they     *)
(* have locked, and those keep their homes.                                *)
(***************************************************************************)
HomesPlaces(home) == HomesOK(home) /\ \A u \in Threads : PlaceOK(u, home)
LEMMA OrderStep ==
  ASSUME TreeInv, RoomInv, NEW t \in Threads, Elsewhere(t), NEW home, HomesPlaces(home),
         NEW home2, HomesOK(home2)', PlaceOK(t, home2)',
         \A p \in Created : access[t][p] # "write" => home2[p] = home[p]
  PROVE  OrderOK'
<1>1. ASSUME NEW u \in Threads \ {t} PROVE PlaceOK(u, home2)'
  <2>1. PlaceOK(u, home)
    BY DEF HomesPlaces
  <2>2. pc'[u] = pc[u] /\ call'[u] = call[u] /\ current'[u] = current[u] /\ queue'[u] = queue[u]
    BY DEF Elsewhere
  <2>3. ASSUME NEW p \in Created, access[u][p] = "write" PROVE home2[p] = home[p]
    <3>1. p \in AllPages /\ t \in Threads \ {u}
      BY PageNumbers
    <3>2. access[t][p] = "none"
      BY <2>3, <3>1 DEF TreeInv, LocksOK
    <3> QED BY <3>2
  <2>4. pc'[u] = "target" => Key(u)' \in home2[current'[u]]
    <3> SUFFICES ASSUME pc[u] = "target" PROVE Key(u)' \in home2[current'[u]]
      BY <2>2
    <3>1. Key(u)' = Key(u)
      BY <2>2 DEF Key
    <3>2. Key(u) \in home[current[u]]
      BY <2>1 DEF PlaceOK
    <3>3. current[u] \in Created /\ access[u][current[u]] = "write"
      BY AtTargetFacts
    <3> QED BY <2>2, <2>3, <3>1, <3>2, <3>3
  <2>5. ASSUME NEW e \in Range(queue'[u]) PROVE DOMAIN e.messages \subseteq home2[e.page]
    <3>1. e \in Range(queue[u])
      BY <2>2
    <3>2. DOMAIN e.messages \subseteq home[e.page]
      BY <2>1, <3>1 DEF PlaceOK
    <3>3. PICK i \in DOMAIN queue[u] : e = queue[u][i]
      BY <3>1 DEF Range
    <3>4. EntryFits(u, queue[u][i])
      BY DEF RoomInv, QueueFits
    <3>5. e.page \in Created /\ access[u][e.page] = "write"
      BY <3>3, <3>4 DEF EntryFits
    <3> QED BY <2>3, <3>2, <3>5
  <2> QED BY <2>4, <2>5 DEF PlaceOK
<1>2. \A u \in Threads : PlaceOK(u, home2)'
  BY <1>1
<1>3. home2 \in [Created' -> SUBSET Nat]
  BY DEF HomesOK
<1> QED BY <1>2, <1>3 DEF OrderOK

(* Every page that is written stays what it was for the order of the tree.  *)
LEMMA KeptSearch ==
  ASSUME TreeInv, RoomInv, SearchInv, NEW t \in Threads, Elsewhere(t),
         NEW new, NEW k \in Nat, NewPages(new, k), node' = new ++ node, DOMAIN new \subseteq Created,
         NEW home, HomesPlaces(home), PlaceOK(t, home)',
         \A p \in DOMAIN new : Stands(node[p], home[p], home, new[p])
  PROVE  SearchInv'
<1>1. HomesOK(home) /\ ReachedOK /\ LevelsOK
  BY DEF HomesPlaces, SearchInv
<1>2. HomesOK(home)' /\ ReachedOK' /\ LevelsOK'
  BY <1>1, KeptPages
<1>3. OrderOK'
  BY <1>2, OrderStep
<1> QED BY <1>2, <1>3 DEF SearchInv

(* Some children of page h are split. *)
LEMMA SplitSearch ==
  ASSUME TreeInv, RoomInv, SearchInv, NEW t \in Threads, Elsewhere(t),
         NEW new, NEW k \in Nat, NewPages(new, k), Locked(t, new), node' = new ++ node,
         NEW h \in Created, IsBranch(node[h]),
         NEW home, HomesPlaces(home), NEW splits, OrderedSplit(h, splits, new, home),
         NEW home2, home2 = SplitHome(h, splits, home), PlaceOK(t, home2)'
  PROVE  SearchInv'
<1>1. HomesOK(home) /\ ReachedOK /\ LevelsOK /\ ParentsOK
  BY DEF HomesPlaces, SearchInv, RoomInv
<1>2. HomesOK(home2)' /\ ReachedOK' /\ LevelsOK'
  BY <1>1, SplitPages
<1>3. ASSUME NEW p \in Created, access[t][p] # "write" PROVE home2[p] = home[p]
  <2>1. p \notin DOMAIN new
    BY <1>3 DEF Locked
  <2>2. \A i \in DOMAIN splits : node[h].children[i] # p
    BY <2>1 DEF OrderedSplit
  <2>3. HomesOK(home) /\ ParentsOK
    BY <1>1
  <2>4. /\ home2 \in [Created \cup {splits[i].page : i \in DOMAIN splits} -> SUBSET Nat]
        /\ \A q \in Created : (\A i \in DOMAIN splits : node[h].children[i] # q) => home2[q] = home[q]
        /\ DividedAt(node[h], splits, home, home2)
    BY <2>3, SplitHomeIs, SMTT(30)
  <2> QED BY <2>2, <2>4
<1>4. OrderOK'
  BY <1>2, <1>3, OrderStep
<1> QED BY <1>2, <1>4 DEF SearchInv

(* A thread that answers relies on nothing any more. *)
LEMMA AnswerPlace ==
  ASSUME TreeInv, NEW t \in Threads, NEW r, Answer(t, r)
  PROVE  Elsewhere(t) /\ \A home : PlaceOK(t, home)'
BY AnswerElsewhere DEF PlaceOK, Range
LEMMA SearchPicks ==
  ASSUME SearchInv PROVE \E home \in [Created -> SUBSET Nat] : HomesPlaces(home)
BY DEF SearchInv, OrderOK, HomesPlaces

(***************************************************************************)
(* The steps that take one message.                                        *)
(***************************************************************************)
LEMMA LeafTakesSearch ==
  ASSUME TreeInv, RoomInv, SearchInv, NEW t \in Threads, pc[t] # "client", Upserting(t),
         NEW p \in Created, IsLeaf(p), Change(t, Only(p, Leaf(Apply(node[p].pairs, Alone(t))))),
         \A home : HomesPlaces(home) => Key(t) \in home[p]
  PROVE  SearchInv'
<1> DEFINE leaf == Leaf(Apply(node[p].pairs, Alone(t)))
           new == Only(p, leaf)
<1>1. PICK home \in [Created -> SUBSET Nat] : HomesPlaces(home)
  BY SearchPicks
<1>2. DOMAIN new = {p} /\ new[p] = leaf /\ leaf.type = "leaf"
  BY DEF Only, Leaf
<1>3. node' = new ++ node /\ Answer(t, None)
  BY DEF Change, Write
<1>4. DOMAIN Alone(t) \subseteq home[p]
  BY <1>1 DEF Alone
<1>5. NodeOrdered(node[p], home[p], home) /\ node[p].type = "leaf"
  BY <1>1 DEF HomesPlaces, HomesOK, IsLeaf
<1>6. Stands(node[p], home[p], home, leaf)
  BY <1>4, <1>5, LeafStands
<1> HIDE DEF leaf
<1>7. ~IsInner(p)
  BY DEF IsInner, IsLeaf
<1>8. NewPages(new, 0)
  <2> HIDE DEF new
  <2> QED BY <1>2, <1>7, SamePages
<1>9. Elsewhere(t) /\ PlaceOK(t, home)'
  BY <1>3, AnswerPlace
<1> HIDE DEF new
<1>10. \A q \in DOMAIN new : Stands(node[q], home[q], home, new[q])
  BY <1>2, <1>6
<1>11. DOMAIN new \subseteq Created /\ 0 \in Nat
  BY <1>2
<1> QED BY <1>1, <1>3, <1>8, <1>9, <1>10, <1>11, KeptSearch

LEMMA RootLeafKeepsSearch ==
  ASSUME TreeInv, RoomInv, SearchInv, NEW t \in Threads, RootLeafKeeps(t)
  PROVE  SearchInv'
<1>1. /\ pc[t] = "root" /\ Upserting(t) /\ IsLeaf(Root)
      /\ Change(t, Only(Root, Leaf(Apply(Here(t).pairs, Alone(t)))))
  BY DEF RootLeafKeeps, At
<1>2. current[t] = Root /\ Root \in Created
  BY <1>1, AtRootFacts, PageNumbers
<1>3. Change(t, Only(Root, Leaf(Apply(node[Root].pairs, Alone(t)))))
  BY <1>1, <1>2 DEF Here
<1>4. ASSUME NEW home, HomesPlaces(home) PROVE Key(t) \in home[Root]
  <2>1. home[Root] = Nat
    BY <1>4 DEF HomesPlaces, HomesOK
  <2>2. Key(t) \in Keys
    BY <1>1, AloneFacts
  <2> QED BY <2>1, <2>2, KeysAssumption
<1> QED BY <1>1, <1>2, <1>3, <1>4, LeafTakesSearch

LEMMA TargetLeafKeepsSearch ==
  ASSUME TreeInv, RoomInv, SearchInv, NEW t \in Threads, TargetLeafKeeps(t)
  PROVE  SearchInv'
<1>1. /\ pc[t] = "target" /\ IsLeaf(current[t])
      /\ Change(t, Only(current[t], Leaf(Apply(Here(t).pairs, Alone(t)))))
  BY DEF TargetLeafKeeps, AtLeaf, At
<1>2. current[t] \in Created /\ Upserting(t)
  BY <1>1, AtTargetFacts, TargetUpserts
<1>3. Change(t, Only(current[t], Leaf(Apply(node[current[t]].pairs, Alone(t)))))
  BY <1>1 DEF Here
<1>4. ASSUME NEW home, HomesPlaces(home) PROVE Key(t) \in home[current[t]]
  BY <1>1, <1>4 DEF HomesPlaces, PlaceOK
<1> QED BY <1>1, <1>2, <1>3, <1>4, LeafTakesSearch

(* Only the messages of an inner node change. *)
LEMMA InnerStands ==
  ASSUME NEW n, NEW below, InnerOK(n, below), NEW own, NEW home, NodeOrdered(n, own, home),
         NEW m, InnerOK(m, below), m.pivots = n.pivots, m.children = n.children,
         DOMAIN m.upserts \subseteq own
  PROVE  Stands(n, own, home, m)
<1>1. n.type = "inner" /\ m.type = "inner"
  BY DEF InnerOK
<1>2. IsBranch(n) /\ IsBranch(m) /\ m # Zeros
  BY <1>1 DEF IsBranch, Zeros
<1>3. BranchOrdered(n, own, home)
  BY <1>2 DEF NodeOrdered
<1>4. \A k : ChildOf(m, k) = ChildOf(n, k)
  BY DEF ChildOf, ChildIndex
<1>5. BranchOrdered(m, own, home)
  BY <1>3, <1>4 DEF BranchOrdered
<1>6. Kids(m) = Kids(n)
  BY <1>2 DEF Kids
<1> QED BY <1>1, <1>2, <1>5, <1>6 DEF Stands, NodeOrdered

LEMMA StoreUpsertSearch ==
  ASSUME TreeInv, RoomInv, SearchInv, NEW t \in Threads, StoreUpsert(t)
  PROVE  SearchInv'
<1> DEFINE p == current[t]
           u == MergeUpserts(Alone(t), Here(t).upserts)
           m == WithUpserts(node[p], u)
           new == Only(p, m)
<1>1. /\ pc[t] = "target" /\ IsInner(p)
      /\ Change(t, Only(p, [Here(t) EXCEPT !.upserts = MergeUpserts(Alone(t), @)]))
  BY DEF StoreUpsert, AtInner, At
<1>2. p \in Created \ {Root} /\ access[t][p] = "write"
  BY <1>1, AtTargetFacts
<1>3. m = [Here(t) EXCEPT !.upserts = MergeUpserts(Alone(t), @)]
  BY DEF WithUpserts, Here
<1>4. node' = new ++ node /\ Answer(t, None)
  BY <1>1, <1>3 DEF Change, Write
<1>5. PICK home \in [Created -> SUBSET Nat] : HomesPlaces(home)
  BY SearchPicks
<1>6. InnerOK(node[p], Created \ {Root}) /\ NodeOrdered(node[p], home[p], home)
  BY <1>1, <1>2, <1>5, PageShape DEF HomesPlaces, HomesOK
<1>7. DOMAIN u \subseteq home[p]
  <2>1. Key(t) \in home[p]
    BY <1>1, <1>5 DEF HomesPlaces, PlaceOK
  <2>2. DOMAIN node[p].upserts \subseteq home[p]
    BY <1>6 DEF NodeOrdered, InnerOK
  <2>3. DOMAIN Alone(t) = {Key(t)}
    BY DEF Alone
  <2>4. DOMAIN u = DOMAIN Alone(t) \cup DOMAIN node[p].upserts
    BY MergeDomain DEF Here
  <2> QED BY <2>1, <2>2, <2>3, <2>4
<1> HIDE DEF u
<1>8. InnerOK(m, Created \ {Root}) /\ m.pivots = node[p].pivots /\ m.children = node[p].children
  BY <1>6, WithUpsertsShape
<1>9. m.upserts = u
  BY <1>6 DEF WithUpserts, InnerOK, Inner
<1> HIDE DEF m
<1>10. Stands(node[p], home[p], home, m)
  BY <1>6, <1>7, <1>8, <1>9, InnerStands
<1>11. DOMAIN new = {p} /\ new[p] = m
  BY DEF Only
<1>12. NewPages(new, 0)
  BY <1>1, <1>2, <1>4, InnerWritten DEF m
<1>13. Elsewhere(t) /\ PlaceOK(t, home)'
  BY <1>4, AnswerPlace
<1> HIDE DEF new, p
<1>14. \A q \in DOMAIN new : Stands(node[q], home[q], home, new[q])
  BY <1>10, <1>11
<1>15. DOMAIN new \subseteq Created /\ 0 \in Nat
  BY <1>2, <1>11
<1> QED BY <1>4, <1>5, <1>12, <1>13, <1>14, <1>15, KeptSearch

(***************************************************************************)
(* Steps that flush the target.                                            *)
(***************************************************************************)
LEMMA RemovalsInside ==
  ASSUME NEW blocks, NEW needed, NEW max, NEW removed \in Removals(blocks, needed, max)
  PROVE  removed \subseteq UNION blocks
<1> DEFINE before(T, last) == UNION (T \ {last})
           taken(T, last) ==
             before(T, last) \cup Smallest(last, max - Cardinality(before(T, last)))
           chosen(T, last) ==
             /\ \A X \in T, Y \in blocks \ T : Cardinality(X) >= Cardinality(Y)
             /\ \A X \in T : Cardinality(X) >= Cardinality(last)
             /\ Cardinality(before(T, last)) < needed
             /\ Cardinality(UNION T) >= needed \/ T = blocks
           all(T) == {taken(T, last) : last \in {X \in T : chosen(T, X)}}
<1>1. removed \in UNION {all(T) : T \in SUBSET blocks}
  BY Zenon DEF Removals
<1>2. PICK T \in SUBSET blocks : removed \in all(T)
  <2> HIDE DEF all
  <2> QED BY <1>1
<1>3. PICK last \in T : removed = taken(T, last)
  <2> HIDE DEF chosen, taken
  <2> QED BY <1>2
<1>4. Smallest(last, max - Cardinality(before(T, last))) \subseteq last
  BY DEF Smallest
<1>5. last \subseteq UNION blocks /\ before(T, last) \subseteq UNION blocks
  OBVIOUS
<1> DEFINE B == before(T, last)
           S == Smallest(last, max - Cardinality(B))
<1>6. removed = B \cup S
  BY <1>3
<1> HIDE DEF S, B
<1> QED BY <1>4, <1>5, <1>6 DEF S, B

(* What is kept of a buffer and what is removed from it are messages for    *)
(* keys that were in the buffer or have been added.                         *)
LEMMA KeepKeys ==
  ASSUME NEW n, NEW below, InnerOK(n, below), NEW additional, NEW removed
  PROVE  /\ DOMAIN Keep(n, additional, removed).upserts \subseteq DOMAIN n.upserts \cup DOMAIN additional
         /\ Keep(n, additional, removed).pivots = n.pivots
         /\ Keep(n, additional, removed).children = n.children
<1> DEFINE u == Restrict(Together(n, additional), DOMAIN Together(n, additional) \ removed)
<1>1. Keep(n, additional, removed) = WithUpserts(n, u)
  BY DEF Keep, WithUpserts
<1>2. DOMAIN u \subseteq DOMAIN Together(n, additional)
  BY RestrictDomainIs
<1>3. DOMAIN Together(n, additional) = DOMAIN n.upserts \cup DOMAIN additional
  BY MergeDomain DEF Together
<1> HIDE DEF u
<1>4. WithUpserts(n, u).upserts = u
  BY DEF WithUpserts, InnerOK, Inner
<1>5. WithUpserts(n, u).pivots = n.pivots /\ WithUpserts(n, u).children = n.children
  BY WithUpsertsShape
<1> QED BY <1>1, <1>2, <1>3, <1>4, <1>5
LEMMA RemovedKeys ==
  ASSUME NEW n, NEW below, InnerOK(n, below), NEW additional, NEW removed \in Removed(n, additional)
  PROVE  DOMAIN Restrict(Together(n, additional), removed) \subseteq DOMAIN n.upserts \cup DOMAIN additional
<1> DEFINE m == Together(n, additional)
<1>1. BranchOK(n, below)
  BY DEF InnerOK
<1>2. DOMAIN m = DOMAIN n.upserts \cup DOMAIN additional
  BY MergeDomain DEF Together
<1>3. removed \subseteq UNION Blocks(n, m)
  BY RemovalsInside DEF Removed
<1> HIDE DEF m
<1>4. UNION Blocks(n, m) = DOMAIN m
  BY <1>1, BlocksPartition
<1>5. DOMAIN Restrict(m, removed) = removed
  BY RestrictDomainIs
<1> QED BY <1>2, <1>3, <1>4, <1>5 DEF m

LEMMA ContinuePlace ==
  ASSUME TreeInv, NEW t \in Threads, NEW q, Continue(t, q)
  PROVE  Elsewhere(t) /\ pc'[t] # "target" /\ queue'[t] = q
<1>1. LocalTypes
  BY DEF TreeInv
<1>2. CASE q = <<>>
  BY <1>2, AnswerElsewhere DEF Continue
<1>3. CASE q # <<>>
  BY <1>1, <1>3 DEF Continue, Flushes, Go, Elsewhere, LocalTypes, client
<1> QED BY <1>2, <1>3

LEMMA FlushTargetSearch ==
  ASSUME TreeInv, RoomInv, SearchInv, NEW t \in Threads, FlushTarget(t)
  PROVE  SearchInv'
<1> DEFINE c == current[t]
           n == node[c]
<1>1. AtInner(t) /\ ~Stores(t)
  BY DEF FlushTarget
<1>2. PICK removed \in Removed(Here(t), Alone(t)) :
        /\ Write(Only(c, Keep(Here(t), Alone(t), removed)))
        /\ Continue(t, Entry(c, Restrict(Together(Here(t), Alone(t)), removed)))
  BY DEF FlushTarget
<1> DEFINE kept == Keep(n, Alone(t), removed)
           out == Restrict(Together(n, Alone(t)), removed)
           upserts == Restrict(Together(n, Alone(t)), DOMAIN Together(n, Alone(t)) \ removed)
           new == Only(c, kept)
           newQueue == Entry(c, out)
<1>3. /\ pc[t] = "target" /\ c \in Created \ {Root} /\ IsInner(c)
      /\ access[t][c] = "write" /\ Here(t) = n
      /\ \E b \in BOOLEAN : InnerOK(n, Kin(b)) /\ InnerOK(kept, Kin(b))
  BY <1>1, <1>2, TargetKeeps
<1>4. Write(new) /\ Continue(t, newQueue) /\ node' = new ++ node
  BY <1>2, <1>3 DEF Write
<1>5. kept = WithUpserts(n, upserts)
  BY DEF Keep, WithUpserts
<1>6. PICK home \in [Created -> SUBSET Nat] : HomesPlaces(home)
  BY SearchPicks
<1>7. PICK below : InnerOK(n, below) /\ InnerOK(kept, below)
  BY <1>3
<1>8. /\ DOMAIN kept.upserts \subseteq DOMAIN n.upserts \cup DOMAIN Alone(t)
      /\ kept.pivots = n.pivots /\ kept.children = n.children
  BY <1>7, KeepKeys
<1>9. DOMAIN out \subseteq DOMAIN n.upserts \cup DOMAIN Alone(t)
  BY <1>2, <1>3, <1>7, RemovedKeys
<1> HIDE DEF upserts, kept, out, n
<1>10. n = node[c] /\ NodeOrdered(n, home[c], home)
  BY <1>3, <1>6 DEF n, HomesPlaces, HomesOK
<1>11. DOMAIN n.upserts \cup DOMAIN Alone(t) \subseteq home[c]
  <2>1. Key(t) \in home[c]
    BY <1>3, <1>6 DEF HomesPlaces, PlaceOK
  <2>2. DOMAIN n.upserts \subseteq home[c]
    BY <1>7, <1>10 DEF NodeOrdered, InnerOK
  <2> QED BY <2>1, <2>2 DEF Alone
<1>12. Stands(n, home[c], home, kept)
  <2>1. DOMAIN kept.upserts \subseteq home[c]
    BY <1>8, <1>11
  <2> HIDE DEF c
  <2> QED BY <1>7, <1>8, <1>10, <2>1, InnerStands
<1>13. DOMAIN new = {c} /\ new[c] = kept
  BY DEF Only
<1>14. NewPages(new, 0)
  BY <1>3, <1>4, <1>5, <1>10, <1>13, InnerWritten
<1> HIDE DEF new, c
<1>15. Elsewhere(t) /\ pc'[t] # "target" /\ queue'[t] = newQueue
  <2> HIDE DEF newQueue
  <2> QED BY <1>4, ContinuePlace
<1>16. PlaceOK(t, home)'
  <2>1. \A e \in Range(newQueue) : e.page = c /\ e.messages = out
    BY EntryRoom
  <2> HIDE DEF newQueue
  <2>2. \A e \in Range(newQueue) : DOMAIN e.messages \subseteq home[e.page]
    BY <1>9, <1>11, <2>1
  <2> QED BY <1>15, <2>2 DEF PlaceOK
<1>17. \A q \in DOMAIN new : Stands(node[q], home[q], home, new[q])
  BY <1>10, <1>12, <1>13
<1>18. DOMAIN new \subseteq Created /\ 0 \in Nat
  BY <1>3, <1>13
<1> QED BY <1>4, <1>6, <1>14, <1>15, <1>16, <1>17, <1>18, KeptSearch

(***************************************************************************)
(* Steps that split the target.                                            *)
(***************************************************************************)
(* Keys stay at home in a half of a child, on its side of the pivot.        *)
LEMMA SplitHomeTakes ==
  ASSUME NEW h, NEW splits, NEW new, NEW home, OrderedSplit(h, splits, new, home),
         NEW home2, home2 = SplitHome(h, splits, home), NEW k \in Nat
  PROVE  /\ \A p \in Created :
              /\ k \in home[p]
              /\ \A i \in DOMAIN splits : node[h].children[i] = p => k <= splits[i].pivot
              => k \in home2[p]
         /\ \A i \in DOMAIN splits :
              k \in home[node[h].children[i]] /\ k > splits[i].pivot => k \in home2[splits[i].page]
<1> DEFINE D == DOMAIN splits
           ch == node[h].children
           m(i) == splits[i].pivot
<1>1. \A i \in D : splits[i].page \notin Created
  BY DEF OrderedSplit
<1>2. \A p \in Created : home2[p] = {j \in home[p] : \A i \in D : ch[i] = p => j <= m(i)}
  BY DEF SplitHome
<1>3. \A i \in D : home2[splits[i].page] =
         {j \in Nat : \E x \in D : splits[x].page = splits[i].page /\ j > m(x) /\ j \in home[ch[x]]}
  BY <1>1 DEF SplitHome
<1> HIDE DEF D, m, ch
<1>4. ASSUME NEW p \in Created, k \in home[p], \A i \in D : ch[i] = p => k <= m(i) PROVE k \in home2[p]
  BY <1>2, <1>4
<1>5. ASSUME NEW i \in D, k \in home[ch[i]], k > m(i) PROVE k \in home2[splits[i].page]
  BY <1>3, <1>5
<1> QED BY <1>4, <1>5 DEF D, m, ch

LEMMA TargetSplitSearch ==
  ASSUME TreeInv, RoomInv, SearchInv, NEW t \in Threads, pc[t] = "target", exclusiveMode[t],
         NEW left, NEW right, NEW pivot, NEW i, i = ChildIndex(node[Root], Key(t)),
         NEW new, new = TargetHalves(t, i, pivot, left, right), NewPages(new, 1), Locked(t, new),
         node' = new ++ node, DOMAIN new = {Root, current[t], Fresh},
         new[current[t]] = left, new[Fresh] = right,
         NEW home, HomesPlaces(home),
         SplitInto(node[current[t]], home[current[t]], home, left, right, pivot),
         Elsewhere(t), pc'[t] # "target",
         \A e \in Range(queue'[t]) :
           /\ DOMAIN e.messages \subseteq home[current[t]]
           /\ \/ e.page = current[t] /\ \A k \in DOMAIN e.messages : k <= pivot
              \/ e.page = Fresh /\ \A k \in DOMAIN e.messages : k > pivot
  PROVE  SearchInv'
<1> DEFINE F == Fresh
           c == current[t]
           splits == Only(i, [pivot |-> pivot, page |-> F])
           r == node[Root]
<1>1. ~IsLeaf(Root) /\ c \in Created \ {Root} /\ c \in Range(r.children)
  BY AtTargetFacts
<1>2. /\ F \notin Created /\ F # Root /\ Root \in Created /\ F # c
  BY <1>1, PageNumbers
<1>3. IsBranch(r)
  BY <1>1, RootShape
<1>4. i \in DOMAIN r.children
  BY <1>2, <1>3, ChildInTree
<1>5. DOMAIN splits = {i} /\ splits[i].page = F /\ splits[i].pivot = pivot
  BY DEF Only
<1>6. new[Root] = InsertPivots(r, splits)
  <2> DEFINE m == InsertPivots(r, splits)
  <2>1. new = Only(Root, m) ++ Only(c, left) ++ Only(F, right)
    BY DEF TargetHalves
  <2>2. c # Root /\ F # Root /\ F # c
    BY <1>1, <1>2
  <2> HIDE DEF m, c, F, splits, r
  <2>3. new[Root] = m
    BY <2>1, <2>2, OverIs DEF Over, Only
  <2> QED BY <2>3 DEF m
<1> HIDE DEF splits
<1>7. r.children[i] = c
  <2>1. Key(t) \in home[c]
    BY DEF HomesPlaces, PlaceOK
  <2>2. BranchOrdered(r, home[Root], home)
    BY <1>2, <1>3 DEF HomesPlaces, HomesOK, NodeOrdered
  <2>3. home[c] = {k \in home[Root] : ChildOf(r, k) = c}
    BY <1>1, <2>2 DEF BranchOrdered
  <2> QED BY <2>1, <2>3 DEF ChildOf
<1>8. OrderedSplit(Root, splits, new, home)
  <2>1. Root \in DOMAIN new /\ new[Root] = InsertPivots(node[Root], splits)
    BY <1>6
  <2>2. DOMAIN splits \in SUBSET DOMAIN node[Root].children
    BY <1>4, <1>5
  <2>3. DOMAIN new \subseteq Created \cup {splits[j].page : j \in DOMAIN splits}
    BY <1>1, <1>2, <1>5
  <2>4. /\ \A j \in DOMAIN splits : splits[j].page \in DOMAIN new /\ splits[j].page \notin Created
        /\ \A j, l \in DOMAIN splits : splits[j].page = splits[l].page => j = l
    BY <1>2, <1>5
  <2>5. ASSUME NEW j \in DOMAIN splits
        PROVE  LET d == node[Root].children[j] IN
               /\ d \in DOMAIN new
               /\ SplitInto(node[d], home[d], home, new[d], new[splits[j].page], splits[j].pivot)
    <3>1. j = i
      BY <1>5
    <3> QED BY <1>5, <1>7, <3>1
  <2>6. \A p \in (DOMAIN new \cap Created) \ {Root} : p = c
    BY <1>2
  <2> HIDE DEF r
  <2> QED BY <1>5, <1>7, <2>1, <2>2, <2>3, <2>4, <2>5, <2>6 DEF OrderedSplit, r
<1>9. PICK home2 : home2 = SplitHome(Root, splits, home)
  OBVIOUS
<1>10. ASSUME NEW e \in Range(queue'[t]) PROVE DOMAIN e.messages \subseteq home2[e.page]
  <2> SUFFICES ASSUME NEW k \in DOMAIN e.messages PROVE k \in home2[e.page]
    OBVIOUS
  <2>1. k \in home[c] /\ home[c] \in SUBSET Nat
    BY <1>1, <1>10 DEF HomesPlaces, HomesOK
  <2>2. k \in Nat
    BY <2>1
  <2>3. CASE e.page = c /\ \A j \in DOMAIN e.messages : j <= pivot
    <3>1. k <= pivot
      BY <2>3
    <3>2. \A j \in DOMAIN splits : node[Root].children[j] = c => k <= splits[j].pivot
      BY <1>5, <3>1
    <3>3. k \in home2[c]
      BY <1>1, <1>8, <1>9, <2>1, <2>2, <3>2, SplitHomeTakes
    <3> QED BY <2>3, <3>3
  <2>4. CASE e.page = F /\ \A j \in DOMAIN e.messages : j > pivot
    <3>1. k > pivot
      BY <2>4
    <3>2. i \in DOMAIN splits /\ k \in home[node[Root].children[i]] /\ k > splits[i].pivot
      BY <1>5, <1>7, <2>1, <3>1
    <3>3. k \in home2[splits[i].page]
      BY <1>8, <1>9, <2>2, <3>2, SplitHomeTakes
    <3> QED BY <1>5, <2>4, <3>3
  <2> QED BY <1>10, <2>3, <2>4
<1>11. PlaceOK(t, home2)'
  BY <1>10 DEF PlaceOK
<1>12. 1 \in Nat
  OBVIOUS
<1> HIDE DEF r, c, F
<1> QED BY <1>2, <1>3, <1>8, <1>9, <1>11, <1>12, SplitSearch DEF r

LEMMA TargetLeafSplitsSearch ==
  ASSUME TreeInv, RoomInv, SearchInv, NEW t \in Threads, TargetLeafSplits(t)
  PROVE  SearchInv'
<1> DEFINE c == current[t]
           F == Fresh
           n == node[c]
           f == n.pairs
           m == Alone(t)
           median == LeafMedian(f, m)
           left == Leaf(Apply(UpTo(f, median), UpTo(m, median)))
           right == Leaf(Apply(Above(f, median), Above(m, median)))
           i == ChildIndex(node[Root], Key(t))
           new == TargetHalves(t, i, median, left, right)
<1>1. pc[t] = "target" /\ IsLeaf(c) /\ exclusiveMode[t] /\ F <= MaxPages /\ Answer(t, None)
      /\ LeafIsFull(f)
  BY DEF TargetLeafSplits, AtLeaf, At, LeafMustSplit, Here
<1>2. node' = new ++ node
  BY DEF TargetLeafSplits, Here, Write, TargetHalves
<1>3. /\ c \in Created \ {Root} /\ access[t][c] = "write" /\ ~IsInner(c) /\ IsInner(c) = FALSE
      /\ ~IsLeaf(Root) /\ n.type = "leaf"
  BY <1>1, AtTargetFacts DEF IsLeaf, IsInner
<1>4. /\ F \notin Created /\ F # Root /\ F \in Nat /\ Root \in Created
  BY PageNumbers
<1>5. Half(t, c, left, IsInner(c)) /\ Half(t, F, right, IsInner(c))
  BY <1>3, <1>4, HalfIsLeaf
<1>6. PICK home \in [Created -> SUBSET Nat] : HomesPlaces(home)
  BY SearchPicks
<1>7. NodeOrdered(n, home[c], home) /\ Key(t) \in home[c] /\ home[c] \in SUBSET Nat
  BY <1>1, <1>3, <1>6 DEF HomesPlaces, HomesOK, PlaceOK
<1>8. SplitInto(n, home[c], home, left, right, median)
  <2>1. PairsTyped(f) /\ Size(f) = LeafN
    BY <1>1, <1>3, LeafFacts DEF LeafIsFull
  <2>2. Typed(m) /\ Size(m) = 1 /\ DOMAIN m = {Key(t)}
    BY <1>1, TargetUpserts, AloneFacts
  <2>3. IsFiniteSet(DOMAIN f) /\ IsFiniteSet(DOMAIN m)
    BY <2>1, <2>2, FiniteKeys DEF PairsTyped, Typed
  <2> HIDE DEF n, f, m
  <2>4. Size(n.pairs) + Size(m) >= 4
    BY <2>1, <2>2, SizesAssumption DEF f
  <2>5. DOMAIN m \subseteq home[c]
    BY <1>7, <2>2
  <2>6. IsFiniteSet(DOMAIN n.pairs)
    BY <2>3 DEF f
  <2> HIDE DEF c
  <2>7. LET k == LeafMedian(n.pairs, m) IN
         /\ SplitInto(n, home[c], home, Leaf(Apply(UpTo(n.pairs, k), UpTo(m, k))),
                      Leaf(Apply(Above(n.pairs, k), Above(m, k))), k)
         /\ k \in Nat
    BY <1>3, <1>7, <2>3, <2>4, <2>5, <2>6, LeafSplitInto
  <2> QED BY <2>7 DEF f
<1> HIDE DEF median, left, right, i
<1>9. /\ NewPages(new, 1) /\ Locked(t, new) /\ DOMAIN new = {Root, current[t], Fresh}
      /\ new[current[t]] = left /\ new[Fresh] = right
  <2>1. new = TargetHalves(t, i, median, left, right)
    OBVIOUS
  <2>2. pc[t] = "target" /\ exclusiveMode[t] /\ Fresh <= MaxPages
    BY <1>1
  <2>3. Half(t, current[t], left, IsInner(current[t])) /\ Half(t, Fresh, right, IsInner(current[t]))
    BY <1>5
  <2> HIDE DEF new, c, F
  <2> QED BY <1>2, <2>1, <2>2, <2>3, TargetSplit
<1>10. Elsewhere(t) /\ pc'[t] # "target" /\ queue'[t] = <<>>
  BY <1>1, AnswerElsewhere
<1>11. \A e \in Range(queue'[t]) : FALSE
  BY <1>10 DEF Range
<1>12. new = TargetHalves(t, i, median, left, right) /\ i = ChildIndex(node[Root], Key(t))
  BY DEF i
<1>13. SplitInto(node[current[t]], home[current[t]], home, left, right, median)
  BY <1>8
<1> HIDE DEF new, c, F, n
<1> QED BY <1>1, <1>2, <1>6, <1>9, <1>10, <1>11, <1>12, <1>13, TargetSplitSearch

LEMMA SplitEntriesKeys ==
  ASSUME NEW left, NEW right, NEW pivot, NEW messages
  PROVE  \A e \in Range(SplitEntries(left, right, pivot, messages)) :
           /\ DOMAIN e.messages \subseteq DOMAIN messages
           /\ \/ e.page = left /\ \A k \in DOMAIN e.messages : k <= pivot
              \/ e.page = right /\ \A k \in DOMAIN e.messages : k > pivot
<1> DEFINE a == Entry(left, UpTo(messages, pivot))
           b == Entry(right, Above(messages, pivot))
<1>1. /\ a \in Seq(Range(a)) /\ \A e \in Range(a) : e.page = left /\ e.messages = UpTo(messages, pivot)
  BY EntryRoom
<1>2. /\ b \in Seq(Range(b)) /\ \A e \in Range(b) : e.page = right /\ e.messages = Above(messages, pivot)
  BY EntryRoom
<1>3. SplitEntries(left, right, pivot, messages) = a \o b
  BY DEF SplitEntries
<1> HIDE DEF a, b
<1>4. Range(a \o b) \subseteq Range(a) \cup Range(b)
  <2> DEFINE S == Range(a) \cup Range(b)
  <2>1. a \in Seq(S) /\ b \in Seq(S)
    BY <1>1, <1>2, SeqMonotonic
  <2> HIDE DEF S
  <2>2. a \o b \in Seq(S)
    BY <2>1, ConcatProperties
  <2>3. \A i \in DOMAIN (a \o b) : (a \o b)[i] \in S
    BY <2>2, ElementOfSeq, LenProperties
  <2>4. Range(a \o b) \subseteq S
    BY <2>3 DEF Range
  <2> QED BY <2>4 DEF S
<1>5. /\ DOMAIN UpTo(messages, pivot) = {j \in DOMAIN messages : j <= pivot}
      /\ DOMAIN Above(messages, pivot) = {j \in DOMAIN messages : j > pivot}
  BY HalfDomains
<1> SUFFICES ASSUME NEW e \in Range(a \o b)
             PROVE  /\ DOMAIN e.messages \subseteq DOMAIN messages
                    /\ \/ e.page = left /\ \A k \in DOMAIN e.messages : k <= pivot
                       \/ e.page = right /\ \A k \in DOMAIN e.messages : k > pivot
  BY <1>3
<1>6. CASE e \in Range(a)
  <2>1. e.page = left /\ DOMAIN e.messages = {j \in DOMAIN messages : j <= pivot}
    BY <1>1, <1>5, <1>6
  <2> QED BY <2>1
<1>7. CASE e \in Range(b)
  <2>1. e.page = right /\ DOMAIN e.messages = {j \in DOMAIN messages : j > pivot}
    BY <1>2, <1>5, <1>7
  <2> QED BY <2>1
<1> QED BY <1>4, <1>6, <1>7

LEMMA FlushSplitTargetSearch ==
  ASSUME TreeInv, RoomInv, SearchInv, NEW t \in Threads, FlushSplitTarget(t)
  PROVE  SearchInv'
<1> DEFINE c == current[t]
           F == Fresh
           n == node[c]
           i == ChildIndex(node[Root], Key(t))
<1>1. /\ AtInner(t) /\ ~Stores(t) /\ exclusiveMode[t] /\ F <= MaxPages
      /\ Len(Here(t).pivots) = InnerN
  BY DEF FlushSplitTarget, TargetIsFull
<1>2. PICK removed \in Removed(Here(t), Alone(t)) :
        LET kept == Keep(Here(t), Alone(t), removed) IN
        /\ Write(Only(Root, InsertPivots(node[Root], Only(i, [pivot |-> InnerPivot(kept), page |-> Fresh])))
                ++ Only(c, LeftInner(kept)) ++ Only(Fresh, RightInner(kept)))
        /\ Continue(t, SplitEntries(c, Fresh, InnerPivot(kept),
                                    Restrict(Together(Here(t), Alone(t)), removed)))
  BY DEF FlushSplitTarget
<1> DEFINE kept == Keep(n, Alone(t), removed)
           out == Restrict(Together(n, Alone(t)), removed)
           left == LeftInner(kept)
           right == RightInner(kept)
           middle == InnerPivot(kept)
           new == TargetHalves(t, i, middle, left, right)
           newQueue == SplitEntries(c, F, middle, out)
<1>3. /\ pc[t] = "target" /\ c \in Created \ {Root} /\ IsInner(c)
      /\ access[t][c] = "write" /\ Here(t) = n
      /\ \E b \in BOOLEAN : InnerOK(n, Kin(b)) /\ InnerOK(kept, Kin(b))
      /\ kept.pivots = n.pivots /\ kept.children = n.children /\ Kids(kept) = Kids(n)
      /\ IsInjective(n.children)
  BY <1>1, <1>2, TargetKeeps
<1>4. Write(new) /\ Continue(t, newQueue) /\ node' = new ++ node
  BY <1>2, <1>3 DEF Write, TargetHalves
<1>5. /\ F \notin Created /\ F # Root /\ F \in Nat /\ Root \in Created /\ F # c
  BY <1>3, PageNumbers
<1>6. PICK b \in BOOLEAN : InnerOK(kept, Kin(b)) /\ InnerOK(n, Kin(b))
  BY <1>3
<1>7. TwoPivots(kept) /\ Len(kept.pivots) >= 1
  BY <1>1, <1>3, SizesAssumption DEF TwoPivots
<1>8. DOMAIN kept.upserts \subseteq DOMAIN n.upserts \cup DOMAIN Alone(t)
  <2> HIDE DEF Kin, n
  <2> QED BY <1>6, KeepKeys
<1>9. DOMAIN out \subseteq DOMAIN n.upserts \cup DOMAIN Alone(t)
  <2> HIDE DEF Kin
  <2> QED BY <1>2, <1>3, <1>6, RemovedKeys
<1> HIDE DEF kept, out
<1>10. PICK home \in [Created -> SUBSET Nat] : HomesPlaces(home)
  BY SearchPicks
<1>11. NodeOrdered(n, home[c], home) /\ Key(t) \in home[c] /\ home[c] \in SUBSET Nat
  BY <1>3, <1>10 DEF HomesPlaces, HomesOK, PlaceOK
<1>12. DOMAIN n.upserts \cup DOMAIN Alone(t) \subseteq home[c]
  <2>1. n.type = "inner"
    BY <1>6 DEF InnerOK
  <2>2. DOMAIN n.upserts \subseteq home[c]
    BY <1>11, <2>1 DEF NodeOrdered
  <2> QED BY <1>11, <2>2 DEF Alone
<1>13. NodeOrdered(kept, home[c], home)
  <2>1. DOMAIN kept.upserts \subseteq home[c]
    BY <1>8, <1>12
  <2> HIDE DEF c, n, Kin
  <2>2. Stands(n, home[c], home, kept)
    BY <1>3, <1>6, <1>11, <2>1, InnerStands
  <2> QED BY <2>2 DEF Stands
<1>14. SplitInto(n, home[c], home, left, right, middle)
  <2>1. IsBranch(n) /\ Kids(kept) = Kids(n) /\ IsInjective(kept.children)
    BY <1>3, <1>6 DEF IsBranch, InnerOK
  <2> HIDE DEF c, n, Kin
  <2> QED BY <1>6, <1>7, <1>11, <1>13, <2>1, InnerSplitInto
<1>15. InnerOK(left, Kin(b)) /\ InnerOK(right, Kin(b))
  <2> HIDE DEF Kin
  <2> QED BY <1>6, <1>7, HalvesShape DEF InnerOK
<1>16. Half(t, c, left, IsInner(c)) /\ Half(t, F, right, IsInner(c))
  <2> HIDE DEF Kin, left, right
  <2>1. IsInner(c) = TRUE
    BY <1>3 DEF IsInner
  <2> QED BY <1>3, <1>5, <1>15, <2>1, HalfIsInner
<1> HIDE DEF left, right, middle, i
<1>17. /\ NewPages(new, 1) /\ Locked(t, new) /\ DOMAIN new = {Root, current[t], Fresh}
       /\ new[current[t]] = left /\ new[Fresh] = right
  <2>1. node' = new ++ node
    BY <1>4
  <2>2. new = TargetHalves(t, i, middle, left, right)
    OBVIOUS
  <2> HIDE DEF new
  <2>3. pc[t] = "target" /\ exclusiveMode[t] /\ Fresh <= MaxPages
    BY <1>1, <1>3
  <2>4. Half(t, current[t], left, IsInner(current[t])) /\ Half(t, Fresh, right, IsInner(current[t]))
    BY <1>16
  <2> HIDE DEF c, F, n
  <2> QED BY <2>1, <2>2, <2>3, <2>4, TargetSplit
<1>18. Elsewhere(t) /\ pc'[t] # "target" /\ queue'[t] = newQueue
  <2> HIDE DEF newQueue
  <2> QED BY <1>4, ContinuePlace
<1>19. \A e \in Range(queue'[t]) :
         /\ DOMAIN e.messages \subseteq home[current[t]]
         /\ \/ e.page = current[t] /\ \A k \in DOMAIN e.messages : k <= middle
            \/ e.page = Fresh /\ \A k \in DOMAIN e.messages : k > middle
  <2>1. \A e \in Range(newQueue) :
         /\ DOMAIN e.messages \subseteq DOMAIN out
         /\ \/ e.page = c /\ \A k \in DOMAIN e.messages : k <= middle
            \/ e.page = F /\ \A k \in DOMAIN e.messages : k > middle
    BY SplitEntriesKeys
  <2> HIDE DEF newQueue
  <2> QED BY <1>9, <1>12, <1>18, <2>1
<1>20. new = TargetHalves(t, i, middle, left, right) /\ i = ChildIndex(node[Root], Key(t))
  BY DEF i
<1>21. SplitInto(node[current[t]], home[current[t]], home, left, right, middle)
  BY <1>14
<1> HIDE DEF new, c, F, n, newQueue
<1> QED BY <1>1, <1>3, <1>4, <1>10, <1>17, <1>18, <1>19, <1>20, <1>21, TargetSplitSearch


(***************************************************************************)
(* Steps that flush the first node of a queue.                             *)
(***************************************************************************)
(* The children the messages are for keep their keys, or are divided.       *)
FlushOrdered(t, split, rights, lefts, splits, home) ==
  /\ \A i \in split :
       LET c == Child(t, i) IN
       SplitInto(node[c], home[c], home, lefts[c], rights[Right(split, i)], splits[i].pivot)
  /\ \A i \in Targets(t) \ split :
       LET c == Child(t, i) IN Stands(node[c], home[c], home, lefts[c])

LEMMA FlushedSplit ==
  ASSUME TreeInv, RoomInv, NEW t \in Threads, pc[t] = "flush",
         NEW inner, NEW split, NEW rights, NEW lefts, NEW splits,
         Flushing(t, split, rights, lefts, splits, inner),
         NEW new, new = FlushedPages(t, rights, lefts, splits),
         NEW home, FlushOrdered(t, split, rights, lefts, splits, home)
  PROVE  OrderedSplit(Flushed(t), splits, new, home)
<1> DEFINE q == Flushed(t)
           m == InsertPivots(node[q], splits)
<1>1. /\ q \in Created \ {Root}
      /\ \A i \in Targets(t) : i \in DOMAIN node[q].children /\ Child(t, i) \in LeftPages(t)
      /\ LeftPages(t) \subseteq Created \ {Root} /\ q \notin LeftPages(t)
      /\ IsFiniteSet(Targets(t)) /\ Targets(t) \in SUBSET (Nat \ {0})
  BY TargetKids
<1>2. /\ split \in SUBSET Targets(t) /\ DOMAIN rights = RightPages(split)
      /\ DOMAIN lefts = LeftPages(t) /\ DOMAIN splits = split
      /\ \A i \in split : splits[i].page = Right(split, i)
  BY DEF Flushing
<1>3. split \in SUBSET (Nat \ {0}) /\ IsFiniteSet(split)
  BY <1>1, <1>2, FS_Subset
<1>4. /\ \A p \in RightPages(split) : Split(split, p) \in split /\ Right(split, Split(split, p)) = p
      /\ \A i, j \in split : Right(split, i) = Right(split, j) => i = j
      /\ \A i \in split : Right(split, i) \in RightPages(split)
      /\ \A p \in RightPages(split) : p \notin Created
  BY <1>3, RightInverse, RightHalves
<1> HIDE DEF m
<1>5. /\ DOMAIN new = RightPages(split) \cup LeftPages(t) \cup {q}
      /\ \A p \in RightPages(split) : new[p] = rights[p]
      /\ \A p \in LeftPages(t) : new[p] = lefts[p]
      /\ new[q] = m
  <2>1. new = rights ++ lefts ++ Only(q, m)
    BY DEF FlushedPages, m
  <2>2. q \notin RightPages(split) \cup LeftPages(t) /\ LeftPages(t) \cap RightPages(split) = {}
    BY <1>1, <1>4
  <2> HIDE DEF q
  <2> QED BY <1>2, <2>1, <2>2, OverIs DEF Over, Only
<1>6. \A i \in Targets(t) : node[q].children[i] = Child(t, i)
  BY DEF Child
<1> HIDE DEF q
<1>7. q \in DOMAIN new /\ new[q] = InsertPivots(node[q], splits)
  BY <1>5 DEF m
<1>8. DOMAIN splits \in SUBSET DOMAIN node[q].children
  BY <1>1, <1>2
<1>9. \A p \in RightPages(split) : \E i \in DOMAIN splits : splits[i].page = p
  BY <1>2, <1>4
<1>10. DOMAIN new \subseteq Created \cup {splits[i].page : i \in DOMAIN splits}
  BY <1>1, <1>5, <1>9
<1>11. /\ \A i \in DOMAIN splits : splits[i].page \in DOMAIN new /\ splits[i].page \notin Created
       /\ \A i, j \in DOMAIN splits : splits[i].page = splits[j].page => i = j
  BY <1>2, <1>4, <1>5
<1>12. ASSUME NEW i \in DOMAIN splits
       PROVE  LET c == node[q].children[i] IN
              /\ c \in DOMAIN new
              /\ SplitInto(node[c], home[c], home, new[c], new[splits[i].page], splits[i].pivot)
  <2>1. i \in split /\ i \in Targets(t) /\ node[q].children[i] = Child(t, i) /\ Child(t, i) \in LeftPages(t)
    BY <1>1, <1>2, <1>6
  <2>2. /\ new[Child(t, i)] = lefts[Child(t, i)]
        /\ splits[i].page = Right(split, i) /\ new[Right(split, i)] = rights[Right(split, i)]
    BY <1>2, <1>4, <1>5, <2>1
  <2>3. SplitInto(node[Child(t, i)], home[Child(t, i)], home, lefts[Child(t, i)],
                  rights[Right(split, i)], splits[i].pivot)
    BY <2>1 DEF FlushOrdered
  <2> QED BY <1>5, <2>1, <2>2, <2>3
<1>13. ASSUME NEW p \in (DOMAIN new \cap Created) \ {q},
              \A i \in DOMAIN splits : node[q].children[i] # p
       PROVE  Stands(node[p], home[p], home, new[p])
  <2>1. p \in LeftPages(t)
    BY <1>4, <1>5
  <2>2. PICK i \in Targets(t) : p = Child(t, i)
    BY <2>1 DEF LeftPages
  <2>3. i \in Targets(t) \ split
    BY <1>2, <1>6, <1>13, <2>2
  <2>4. Stands(node[p], home[p], home, lefts[p])
    BY <2>2, <2>3 DEF FlushOrdered
  <2> QED BY <1>5, <2>1, <2>4
<1> QED BY <1>7, <1>8, <1>10, <1>11, <1>12, <1>13 DEF OrderedSplit, q

LEMMA FlushedSearch ==
  ASSUME TreeInv, RoomInv, SearchInv, NEW t \in Threads, pc[t] = "flush",
         NEW inner, NEW split, NEW rights, NEW lefts, NEW splits,
         Flushing(t, split, rights, lefts, splits, inner),
         NEW new, new = FlushedPages(t, rights, lefts, splits),
         NewPages(new, Cardinality(split)), Cardinality(split) \in Nat, Locked(t, new),
         node' = new ++ node,
         NEW home, HomesPlaces(home), FlushOrdered(t, split, rights, lefts, splits, home),
         Elsewhere(t), pc'[t] # "target",
         \A e \in Range(queue'[t]) : DOMAIN e.messages \subseteq SplitHome(Flushed(t), splits, home)[e.page]
  PROVE  SearchInv'
<1>1. OrderedSplit(Flushed(t), splits, new, home)
  BY FlushedSplit
<1>2. Flushed(t) \in Created /\ IsBranch(node[Flushed(t)])
  BY TargetKids
<1>3. PICK home2 : home2 = SplitHome(Flushed(t), splits, home)
  OBVIOUS
<1>4. PlaceOK(t, home2)'
  BY <1>3 DEF PlaceOK
<1>5. PICK k \in Nat : k = Cardinality(split) /\ NewPages(new, k)
  OBVIOUS
<1>6. PICK h : h = Flushed(t)
  OBVIOUS
<1> QED BY <1>1, <1>2, <1>3, <1>4, <1>5, <1>6, SplitSearch

(* The messages for a child are for keys that belong there. *)
LEMMA AddressedHome ==
  ASSUME TreeInv, RoomInv, NEW t \in Threads, pc[t] = "flush", NEW home, HomesPlaces(home),
         NEW i \in Targets(t)
  PROVE  /\ DOMAIN Addressed(t, i) \subseteq home[Child(t, i)]
         /\ home[Child(t, i)] \in SUBSET Nat
         /\ NodeOrdered(node[Child(t, i)], home[Child(t, i)], home)
<1> DEFINE q == Flushed(t)
<1>1. q \in Created /\ IsBranch(node[q]) /\ Child(t, i) \in Created
  BY TargetKids
<1>2. home[q] \in SUBSET Nat /\ home[Child(t, i)] \in SUBSET Nat
      /\ NodeOrdered(node[Child(t, i)], home[Child(t, i)], home)
  BY <1>1 DEF HomesPlaces, HomesOK
<1>3. DOMAIN ToFlush(t) \subseteq home[q]
  <2>1. Head(queue[t]) \in Range(queue[t])
    <3>1. queue[t] \in Seq(Range(queue[t])) /\ queue[t] # <<>>
      BY FlushFacts
    <3> QED BY <3>1, HeadTailProperties
  <2> QED BY <2>1 DEF HomesPlaces, PlaceOK, ToFlush, Flushed
<1>4. ASSUME NEW k \in DOMAIN Addressed(t, i) PROVE k \in home[Child(t, i)]
  <2>1. k \in DOMAIN ToFlush(t) /\ ChildIndex(node[q], k) = i
    BY RestrictDomainIs DEF Addressed, IndexOf
  <2>2. ChildOf(node[q], k) = Child(t, i)
    BY <2>1 DEF ChildOf, Child
  <2>3. k \in home[q]
    BY <1>3, <2>1
  <2>4. HomesOK(home)
    BY DEF HomesPlaces
  <2>5. k \in home[ChildOf(node[q], k)]
    BY <1>1, <2>3, <2>4, HomeBelow
  <2> QED BY <2>2, <2>5
<1> QED BY <1>2, <1>4

LEMMA HomeKept ==
  ASSUME TreeInv, ParentsOK, NEW home, HomesOK(home), NEW h \in Created, IsBranch(node[h]),
         NEW splits, NEW new, OrderedSplit(h, splits, new, home),
         NEW home2, home2 = SplitHome(h, splits, home),
         NEW p \in Created, \A i \in DOMAIN splits : node[h].children[i] # p
  PROVE  home2[p] = home[p]
<1>1. /\ home2 \in [Created \cup {splits[i].page : i \in DOMAIN splits} -> SUBSET Nat]
      /\ \A q \in Created : (\A i \in DOMAIN splits : node[h].children[i] # q) => home2[q] = home[q]
      /\ DividedAt(node[h], splits, home, home2)
  BY SplitHomeIs
<1> QED BY <1>1

(* The rest of the queue is about pages that are not split. *)
LEMMA TailHome ==
  ASSUME TreeInv, RoomInv, NEW t \in Threads, pc[t] = "flush", NEW home, HomesPlaces(home),
         NEW splits, NEW new, OrderedSplit(Flushed(t), splits, new, home)
  PROVE  \A e \in Range(Tail(queue[t])) :
           DOMAIN e.messages \subseteq SplitHome(Flushed(t), splits, home)[e.page]
<1>0. PICK h : h = Flushed(t)
  OBVIOUS
<1> DEFINE rest == Tail(queue[t])
           ch == node[h].children
<1>1. queue[t] \in Seq(Range(queue[t])) /\ queue[t] # <<>>
  BY FlushFacts
<1>2. /\ rest \in Seq(Range(queue[t])) /\ Len(rest) = Len(queue[t]) - 1
      /\ \A i \in 1 .. Len(rest) : rest[i] = queue[t][i + 1]
  BY <1>1, HeadTailProperties
<1>3. /\ DOMAIN queue[t] = 1 .. Len(queue[t]) /\ Len(queue[t]) \in Nat
      /\ DOMAIN rest = 1 .. Len(rest) /\ Len(rest) \in Nat
  BY <1>1, <1>2, LenProperties
<1>4. h = queue[t][1].page
  BY <1>0, <1>1 DEF Flushed
<1>5. /\ \A i \in DOMAIN queue[t] : EntryFits(t, queue[t][i])
      /\ \A i, j \in DOMAIN queue[t] : i < j => queue[t][j].page \notin Kids(node[queue[t][i].page])
  BY DEF RoomInv, QueueFits
<1>6. h \in Created /\ IsBranch(node[h]) /\ Kids(node[h]) = Range(ch)
  BY <1>0, TargetKids, BranchShape
<1>7. PICK home2 : home2 = SplitHome(h, splits, home)
  OBVIOUS
<1> HIDE DEF rest, ch
<1> SUFFICES ASSUME NEW e \in Range(rest) PROVE DOMAIN e.messages \subseteq home2[e.page]
  BY <1>0, <1>7 DEF rest
<1>8. PICK x \in DOMAIN rest : e = rest[x]
  BY DEF Range
<1>9. x + 1 \in DOMAIN queue[t] /\ e = queue[t][x + 1] /\ 1 \in DOMAIN queue[t] /\ 1 < x + 1
  BY <1>2, <1>3, <1>8
<1>10. e.page \in Created /\ e.page \notin Kids(node[h])
  BY <1>4, <1>5, <1>9 DEF EntryFits
<1>11. DOMAIN splits \in SUBSET DOMAIN ch
  BY <1>0 DEF OrderedSplit, ch
<1>12. \A j \in DOMAIN splits : ch[j] # e.page
  BY <1>6, <1>10, <1>11 DEF Range
<1>13. home2[e.page] = home[e.page]
  <2>1. ParentsOK /\ HomesOK(home)
    BY DEF RoomInv, HomesPlaces
  <2>2. OrderedSplit(h, splits, new, home)
    BY <1>0
  <2>3. h \in Created /\ IsBranch(node[h]) /\ home2 = SplitHome(h, splits, home)
    BY <1>6, <1>7
  <2>4. PICK p : p = e.page
    OBVIOUS
  <2>5. p \in Created /\ \A i \in DOMAIN splits : node[h].children[i] # p
    BY <1>10, <1>12, <2>4 DEF ch
  <2>6. home2[p] = home[p]
    BY <2>1, <2>2, <2>3, <2>5, HomeKept
  <2> QED BY <2>4, <2>6
<1>14. DOMAIN e.messages \subseteq home[e.page]
  <2>1. e \in Range(queue[t])
    BY <1>9 DEF Range
  <2> QED BY <2>1 DEF HomesPlaces, PlaceOK
<1> QED BY <1>13, <1>14


LEMMA ChangeLeavesSearch ==
  ASSUME TreeInv, RoomInv, SearchInv, NEW t \in Threads, Ready(t), LeavesBelow(t), ChangeLeaves(t)
  PROVE  SearchInv'
<1> DEFINE pairs(i) == node[Child(t, i)].pairs
           median(i) == LeafMedian(pairs(i), Addressed(t, i))
           left(i) == Apply(UpTo(pairs(i), median(i)), UpTo(Addressed(t, i), median(i)))
           right(i) == Apply(Above(pairs(i), median(i)), Above(Addressed(t, i), median(i)))
           all(i) == Apply(pairs(i), Addressed(t, i))
           rights(split) == [p \in RightPages(split) |-> Leaf(right(Split(split, p)))]
           lefts(split) == [p \in LeftPages(t) |->
              Leaf(IF ChildAt(t, p) \in split THEN left(ChildAt(t, p)) ELSE all(ChildAt(t, p)))]
           splits(split) == [i \in split |-> [pivot |-> median(i), page |-> Right(split, i)]]
           new(split) == FlushedPages(t, rights(split), lefts(split), splits(split))
<1>1. Ready(t) /\ LeavesBelow(t) /\ Continue(t, Tail(queue[t]))
  BY DEF ChangeLeaves
<1>2. PICK split \in SUBSET Targets(t) :
        /\ Write(new(split))
        /\ \A i \in Targets(t) : i \in split <=> NeedsSplit(pairs(i), Addressed(t, i))
        /\ RightPages(split) \subseteq 1 .. MaxPages
  BY DEF ChangeLeaves, FlushedPages
<1>3. pc[t] = "flush"
  BY <1>1, ReadyFacts
<1>4. PICK b \in BOOLEAN : BranchOK(node[Flushed(t)], Kin(b)) /\ ~b /\ \A p \in LeftPages(t) : ~IsInner(p)
  BY <1>1, ReadyFacts
<1>5. /\ \A p \in LeftPages(t) : p \in Created \ {Root} /\ access[t][p] = "write"
      /\ \A p \in LeftPages(t) : ChildAt(t, p) \in Targets(t) /\ Child(t, ChildAt(t, p)) = p
  BY <1>1, ReadyFacts
<1>6. split \in SUBSET (Nat \ {0}) /\ IsFiniteSet(split)
  BY <1>3, TargetsFinite, FS_Subset
<1>7. /\ \A p \in RightPages(split) : p \notin Created /\ p # Root /\ Split(split, p) \in split
      /\ \A i \in split : Right(split, i) \in RightPages(split)
      /\ \A p \in RightPages(split) : Right(split, Split(split, p)) = p
      /\ \A i, j \in split : Right(split, i) = Right(split, j) => i = j
  BY <1>6, RightHalves, RightInverse
<1>8. PICK home \in [Created -> SUBSET Nat] : HomesPlaces(home)
  BY SearchPicks
<1>9. ASSUME NEW i \in Targets(t)
      PROVE  LET c == Child(t, i) IN
             /\ i \in split => SplitInto(node[c], home[c], home, Leaf(left(i)), Leaf(right(i)), median(i))
             /\ i \notin split => Stands(node[c], home[c], home, Leaf(all(i)))
  <2> DEFINE c == Child(t, i)
             n == node[c]
             m == Addressed(t, i)
  <2>1. c \in Created /\ IsLeaf(c) /\ n.type = "leaf"
    BY <1>1, ReadyFacts DEF LeavesBelow, IsLeaf
  <2>2. PairsTyped(n.pairs)
    BY <2>1, LeafFacts
  <2>3. Typed(m)
    BY <1>3, AddressedFits DEF IsMessages, Typed
  <2>4. i \in split <=> NeedsSplit(n.pairs, m)
    BY <1>2
  <2>5. /\ DOMAIN m \subseteq home[c] /\ home[c] \in SUBSET Nat
        /\ NodeOrdered(n, home[c], home)
    BY <1>3, <1>8, AddressedHome
  <2> HIDE DEF c, n, m
  <2>6. Stands(n, home[c], home, Leaf(Apply(n.pairs, m)))
    BY <2>1, <2>5, LeafStands
  <2>7. ASSUME NeedsSplit(n.pairs, m)
        PROVE  LET k == LeafMedian(n.pairs, m) IN
               SplitInto(n, home[c], home, Leaf(Apply(UpTo(n.pairs, k), UpTo(m, k))),
                         Leaf(Apply(Above(n.pairs, k), Above(m, k))), k)
    <3>1. Size(n.pairs) + Size(m) >= 4 /\ IsFiniteSet(DOMAIN n.pairs) /\ IsFiniteSet(DOMAIN m)
      BY <2>2, <2>3, <2>7, SplitsLarge
    <3>2. LET k == LeafMedian(n.pairs, m) IN
          /\ SplitInto(n, home[c], home, Leaf(Apply(UpTo(n.pairs, k), UpTo(m, k))),
                       Leaf(Apply(Above(n.pairs, k), Above(m, k))), k)
          /\ k \in Nat
      BY <2>1, <2>5, <3>1, LeafSplitInto
    <3> QED BY <3>2
  <2> QED BY <2>4, <2>6, <2>7 DEF c, n, m
<1> HIDE DEF median, left, right, all
<1>10. Flushing(t, split, rights(split), lefts(split), splits(split), b)
  <2>1. \A p \in RightPages(split) : Half(t, p, rights(split)[p], b)
    BY <1>4, <1>7, HalfIsLeaf
  <2>2. \A p \in LeftPages(t) : Half(t, p, lefts(split)[p], b)
    BY <1>4, <1>5, HalfIsLeaf
  <2>3. \A i \in split : splits(split)[i].page = Right(split, i)
    OBVIOUS
  <2> QED BY <1>2, <2>1, <2>2, <2>3 DEF Flushing
<1>11. FlushOrdered(t, split, rights(split), lefts(split), splits(split), home)
  <2>1. \A i \in Targets(t) : Child(t, i) \in LeftPages(t) /\ ChildAt(t, Child(t, i)) = i
    BY <1>3, TargetKids
  <2>2. \A i \in split : Split(split, Right(split, i)) = i
    BY <1>7
  <2>3. \A i \in split : /\ lefts(split)[Child(t, i)] = Leaf(left(i))
                         /\ rights(split)[Right(split, i)] = Leaf(right(i))
                         /\ splits(split)[i].pivot = median(i)
    BY <1>7, <2>1, <2>2
  <2>4. \A i \in Targets(t) \ split : lefts(split)[Child(t, i)] = Leaf(all(i))
    BY <2>1
  <2> HIDE DEF rights, lefts, splits
  <2> QED BY <1>9, <2>3, <2>4 DEF FlushOrdered
<1> DEFINE R == rights(split)
           L == lefts(split)
           S == splits(split)
           N == new(split)
<1>12. node' = N ++ node /\ N = FlushedPages(t, R, L, S)
  BY <1>2 DEF Write
<1> HIDE DEF rights, lefts, splits, new
<1>13. /\ NewPages(N, Cardinality(split)) /\ Cardinality(split) \in Nat
       /\ Locked(t, N)
  <2> HIDE DEF Kin, R, L, S, N
  <2> QED BY <1>1, <1>4, <1>10, <1>12, FlushDown DEF R, L, S
<1>14. Elsewhere(t) /\ pc'[t] # "target" /\ queue'[t] = Tail(queue[t])
  BY <1>1, ContinuePlace
<1> HIDE DEF R, L, S, N
<1>15. Flushing(t, split, R, L, S, b) /\ FlushOrdered(t, split, R, L, S, home)
  BY <1>10, <1>11 DEF R, L, S
<1>16. OrderedSplit(Flushed(t), S, N, home)
  BY <1>3, <1>12, <1>15, FlushedSplit
<1>17. \A e \in Range(queue'[t]) : DOMAIN e.messages \subseteq SplitHome(Flushed(t), S, home)[e.page]
  BY <1>3, <1>8, <1>14, <1>16, TailHome
<1> QED BY <1>3, <1>8, <1>12, <1>13, <1>14, <1>15, <1>17, FlushedSearch

(* Or an assertion fails before anything is changed.                        *)
LEMMA FlushToLeavesSearch ==
  ASSUME TreeInv, RoomInv, SearchInv, NEW t \in Threads, FlushToLeaves(t)
  PROVE  SearchInv'
<1>1. Ready(t) /\ LeavesBelow(t) /\ (ChangeLeaves(t) \/ Fail(t))
  BY DEF FlushToLeaves
<1> QED BY <1>1, ChangeLeavesSearch, FailSearch


(* What a child that is an inner node keeps, and what it hands on.          *)
LEMMA KeptOrdered ==
  ASSUME TreeInv, RoomInv, NEW p \in Created \ {Root}, IsInner(p), NEW n, n = node[p],
         NEW m, IsMessages(m, MAX_FLUSH_SIZE), NEW removed, Takes(n, m, removed),
         NEW home, HomesOK(home), DOMAIN m \subseteq home[p]
  PROVE  LET kept == Keep(n, m, removed)
             out == Restrict(Together(n, m), removed)
         IN
         /\ Stands(n, home[p], home, kept)
         /\ ~Fits(n, m) => DOMAIN out \subseteq home[p]
         /\ LacksPivots(n, out) =>
              SplitInto(n, home[p], home, LeftInner(kept), RightInner(kept), InnerPivot(kept))
<1> DEFINE kept == Keep(n, m, removed)
           out == Restrict(Together(n, m), removed)
<1>1. /\ IsInjective(n.children) /\ IsBranch(n)
      /\ \E d \in BOOLEAN : InnerOK(n, Kin(d)) /\ InnerOK(kept, Kin(d))
  <2>2. PICK d \in BOOLEAN : InnerOK(n, Kin(d))
    BY InnerFacts
  <2>3. InnerOK(kept, Kin(d))
    <3> HIDE DEF Kin
    <3> QED BY <2>2, KeepShape
  <2>4. IsBranch(n) /\ n = node[p]
    BY DEF IsBranch, IsInner
  <2> QED BY <2>2, <2>3, <2>4 DEF RoomInv, ParentsOK
<1>2. PICK below : InnerOK(n, below) /\ InnerOK(kept, below)
  BY <1>1
<1>3. NodeOrdered(n, home[p], home) /\ home[p] \in SUBSET Nat
  BY DEF HomesOK
<1>4. DOMAIN n.upserts \subseteq home[p]
  BY <1>2, <1>3 DEF NodeOrdered, InnerOK
<1>5. /\ DOMAIN kept.upserts \subseteq home[p]
      /\ kept.pivots = n.pivots /\ kept.children = n.children
  BY <1>2, <1>4, KeepKeys
<1>6. ASSUME ~Fits(n, m) PROVE DOMAIN out \subseteq home[p]
  <2>1. removed \in Removed(n, m)
    BY <1>6 DEF Takes
  <2> QED BY <1>2, <1>4, <2>1, RemovedKeys
<1> HIDE DEF kept, out
<1> DEFINE own == home[p]
<1>7. Stands(n, own, home, kept)
  <2> HIDE DEF own
  <2> QED BY <1>2, <1>3, <1>5, InnerStands DEF own
<1>8. ASSUME LacksPivots(n, out)
      PROVE  SplitInto(n, own, home, LeftInner(kept), RightInner(kept), InnerPivot(kept))
  <2>1. TwoPivots(kept)
    <3> DEFINE x == Cardinality(Blocks(n, out))
               L == Len(n.pivots)
    <3>1. InnerN - L < x
      BY <1>8 DEF LacksPivots
    <3>2. x \in Nat /\ x <= L + 1
      BY <1>2, BlocksPartition DEF InnerOK
    <3>3. L \in Nat
      BY <1>2, BranchFacts DEF InnerOK
    <3> HIDE DEF x, L
    <3>4. L >= 2
      BY <3>1, <3>2, <3>3, SizesAssumption
    <3> QED BY <1>5, <3>4 DEF TwoPivots, L
  <2>2. Kids(kept) = Kids(n) /\ NodeOrdered(kept, own, home)
    BY <1>7 DEF Stands
  <2>3. IsInjective(kept.children)
    BY <1>1, <1>5
  <2>4. own \in SUBSET Nat
    BY <1>3
  <2> HIDE DEF own
  <2>5. /\ SplitInto(n, own, home, LeftInner(kept), RightInner(kept), InnerPivot(kept))
        /\ InnerPivot(kept) \in Nat
    BY <1>1, <1>2, <2>1, <2>2, <2>3, <2>4, InnerSplitInto
  <2> QED BY <2>5
<1> QED BY <1>6, <1>7, <1>8 DEF kept, out

(* A sequence put together from sequences has their elements. *)
LEMMA CollectedRange ==
  ASSUME NEW n \in Nat \ {0}, NEW s, s = [i \in 1 .. n |-> s[i]],
         NEW first, first \in Seq(Range(first)), \A i \in 1 .. n : s[i] \in Seq(Range(s[i]))
  PROVE  \A e \in Range(first \o FlattenSeq(s)) :
           e \in Range(first) \/ \E i \in 1 .. n : e \in Range(s[i])
<1> DEFINE S == Range(first) \cup UNION {Range(s[i]) : i \in 1 .. n}
           c == first \o FlattenSeq(s)
<1>1. Range(first) \subseteq S /\ \A i \in 1 .. n : Range(s[i]) \subseteq S
  OBVIOUS
<1>2. \A e \in S : e \in Range(first) \/ \E i \in 1 .. n : e \in Range(s[i])
  OBVIOUS
<1> HIDE DEF S
<1>3. first \in Seq(S)
  BY <1>1, SeqMonotonic
<1>4. \A i \in 1 .. n : s[i] \in Seq(S)
  BY <1>1, SeqMonotonic
<1>5. c \in Seq(S)
  BY <1>3, <1>4, Collected
<1> HIDE DEF c
<1>6. \A i \in DOMAIN c : c[i] \in S
  BY <1>5, ElementOfSeq, LenProperties
<1>7. Range(c) \subseteq S
  BY <1>6 DEF Range
<1> QED BY <1>2, <1>7 DEF c

LEMMA SplitEntriesSeq ==
  ASSUME NEW left, NEW right, NEW pivot, NEW messages
  PROVE  SplitEntries(left, right, pivot, messages)
           \in Seq(Range(SplitEntries(left, right, pivot, messages)))
<1> DEFINE a == Entry(left, UpTo(messages, pivot))
           b == Entry(right, Above(messages, pivot))
           S == Range(a) \cup Range(b)
<1>1. a \in Seq(Range(a)) /\ b \in Seq(Range(b))
  BY EntryRoom
<1> HIDE DEF a, b
<1>2. a \in Seq(S) /\ b \in Seq(S)
  BY <1>1, SeqMonotonic
<1> HIDE DEF S
<1>3. a \o b \in Seq(S)
  BY <1>2, ConcatProperties
<1>4. a \o b \in Seq(Range(a \o b))
  BY <1>3, SeqOfRange
<1> QED BY <1>4 DEF SplitEntries, a, b


LEMMA FlushToInnerSearch ==
  ASSUME TreeInv, RoomInv, SearchInv, NEW t \in Threads, FlushToInner(t)
  PROVE  SearchInv'
<1> DEFINE child(i) == node[Child(t, i)]
           full == {i \in Targets(t) : ~Fits(child(i), Addressed(t, i))}
           choices(i) == Removed(child(i), Addressed(t, i))
           kept(r, i) == Keep(child(i), Addressed(t, i), IF i \in full THEN r[i] ELSE {})
           out(r, i) == Restrict(Together(child(i), Addressed(t, i)), r[i])
           splitOf(r) == {i \in full : LacksPivots(child(i), out(r, i))}
           left(r, i) == IF i \in splitOf(r) THEN LeftInner(kept(r, i)) ELSE kept(r, i)
           more(r, i) ==
             IF i \in splitOf(r)
             THEN SplitEntries(Child(t, i), Right(splitOf(r), i), InnerPivot(kept(r, i)), out(r, i))
             ELSE IF i \in full THEN Entry(Child(t, i), out(r, i)) ELSE <<>>
           top == Max(Targets(t))
           mores(r) == [i \in 1 .. top |-> IF i \in Targets(t) THEN more(r, i) ELSE <<>>]
           queueAfter(r) == Tail(queue[t]) \o FlattenSeq(mores(r))
           rightsOf(r) == [p \in RightPages(splitOf(r)) |-> RightInner(kept(r, Split(splitOf(r), p)))]
           leftsOf(r) == [p \in LeftPages(t) |-> left(r, ChildAt(t, p))]
           splitsOf(r) == [i \in splitOf(r) |->
              [pivot |-> InnerPivot(kept(r, i)), page |-> Right(splitOf(r), i)]]
           newOf(r) == FlushedPages(t, rightsOf(r), leftsOf(r), splitsOf(r))
<1>1. Ready(t) /\ ~LeavesBelow(t)
  BY SMTT(30) DEF FlushToInner
<1>2. PICK r \in [full -> UNION {choices(i) : i \in full}] :
        /\ \A i \in full : r[i] \in choices(i)
        /\ RightPages(splitOf(r)) \subseteq 1 .. MaxPages
        /\ Write(newOf(r)) /\ Continue(t, queueAfter(r))
  BY DEF FlushToInner, FlushedPages
<1>3. pc[t] = "flush"
  BY <1>1, ReadyFacts
<1>4. PICK b \in BOOLEAN : BranchOK(node[Flushed(t)], Kin(b)) /\ b /\ \A p \in LeftPages(t) : IsInner(p)
  BY <1>1, ReadyFacts
<1>5. /\ \A p \in LeftPages(t) : p \in Created \ {Root} /\ access[t][p] = "write"
      /\ \A p \in LeftPages(t) : ChildAt(t, p) \in Targets(t) /\ Child(t, ChildAt(t, p)) = p
      /\ \A i \in Targets(t) : Child(t, i) \in LeftPages(t)
  BY <1>1, ReadyFacts DEF LeftPages
<1>6. \A i \in Targets(t) : ChildAt(t, Child(t, i)) = i
  BY <1>3, TargetKids
<1> DEFINE split == splitOf(r)
<1>7. split \in SUBSET Targets(t) /\ split \in SUBSET full /\ full \in SUBSET Targets(t)
  OBVIOUS
<1>8. split \in SUBSET (Nat \ {0}) /\ IsFiniteSet(split)
  <2> HIDE DEF splitOf, full
  <2> QED BY <1>3, <1>7, TargetsFinite, FS_Subset
<1>9. PICK home \in [Created -> SUBSET Nat] : HomesPlaces(home)
  BY SearchPicks
<1>10. HomesOK(home)
  BY <1>9 DEF HomesPlaces
<1>11. ASSUME NEW i \in Targets(t)
       PROVE  LET c == Child(t, i)
                  k == kept(r, i)
              IN
              /\ DOMAIN Addressed(t, i) \subseteq home[c] /\ home[c] \in SUBSET Nat
              /\ i \in full => DOMAIN out(r, i) \subseteq home[c]
              /\ i \notin split => Stands(node[c], home[c], home, k)
              /\ i \in split =>
                   SplitInto(node[c], home[c], home, LeftInner(k), RightInner(k), InnerPivot(k))
              /\ \E d \in BOOLEAN :
                  /\ InnerOK(k, Kin(d))
                  /\ i \in split => InnerOK(LeftInner(k), Kin(d)) /\ InnerOK(RightInner(k), Kin(d))
  <2> DEFINE p == Child(t, i)
             n == child(i)
             m == Addressed(t, i)
             removed == IF i \in full THEN r[i] ELSE {}
  <2>1. p \in Created \ {Root} /\ IsInner(p)
    BY <1>4, <1>5
  <2>2. IsMessages(m, MAX_FLUSH_SIZE)
    BY <1>3, AddressedFits
  <2>3. Takes(n, m, removed)
    <3>1. CASE i \in full
      <4>1. r[i] \in Removed(n, m) /\ ~Fits(n, m) /\ removed = r[i]
        BY <1>2, <3>1
      <4> QED BY <4>1 DEF Takes
    <3>2. CASE i \notin full
      <4>1. Fits(n, m) /\ removed = {}
        BY <3>2
      <4> QED BY <4>1 DEF Takes
    <3> QED BY <3>1, <3>2
  <2>4. n = node[p]
    OBVIOUS
  <2>5. i \in split <=> i \in full /\ LacksPivots(n, out(r, i))
    OBVIOUS
  <2>6. i \in full <=> ~Fits(n, m)
    OBVIOUS
  <2>7. /\ kept(r, i) = Keep(n, m, removed)
        /\ i \in full => out(r, i) = Restrict(Together(n, m), removed)
    OBVIOUS
  <2>8. DOMAIN m \subseteq home[p] /\ home[p] \in SUBSET Nat
    BY <1>3, <1>9, AddressedHome
  <2> HIDE DEF p, n, m, removed, split, full, Kin, kept, out
  <2>9. LET k == Keep(n, m, removed)
            o == Restrict(Together(n, m), removed)
        IN
        /\ Stands(n, home[p], home, k)
        /\ ~Fits(n, m) => DOMAIN o \subseteq home[p]
        /\ LacksPivots(n, o) =>
             SplitInto(n, home[p], home, LeftInner(k), RightInner(k), InnerPivot(k))
    BY <1>10, <2>1, <2>2, <2>3, <2>4, <2>8, KeptOrdered
  <2>10. LET k == Keep(n, m, removed)
             o == Restrict(Together(n, m), removed)
             l == LeftInner(k)
             g == RightInner(k)
         IN
         /\ HalfRoom(p, k)
         /\ ~Fits(n, m) => IsMessages(o, MAX_FLUSH_SIZE)
         /\ ~LacksPivots(n, o) => Cardinality(Blocks(k, o)) <= InnerN - Len(k.pivots)
         /\ \E d \in BOOLEAN :
              /\ InnerOK(k, Kin(d))
              /\ LacksPivots(n, o) => InnerOK(l, Kin(d)) /\ InnerOK(g, Kin(d))
         /\ LacksPivots(n, o) =>
              /\ HalfRoom(p, l) /\ HalfRoom(p, g) /\ Kids(g) \cap Kids(l) = {}
              /\ \A x : Cardinality(Blocks(l, x)) <= InnerN - Len(l.pivots)
              /\ \A x : Cardinality(Blocks(g, x)) <= InnerN - Len(g.pivots)
    BY <2>1, <2>2, <2>3, <2>4, KeptRoom
  <2> DEFINE k == kept(r, i)
             o == out(r, i)
  <2>11. CASE i \in full
    <3>1. k = Keep(n, m, removed) /\ o = Restrict(Together(n, m), removed)
      BY <2>7, <2>11
    <3>2. i \in split <=> LacksPivots(n, o)
      BY <2>5, <2>11
    <3>3. \E d \in BOOLEAN :
            /\ InnerOK(k, Kin(d))
            /\ i \in split => InnerOK(LeftInner(k), Kin(d)) /\ InnerOK(RightInner(k), Kin(d))
      BY <2>10, <3>1, <3>2
    <3>4. /\ DOMAIN o \subseteq home[p] /\ Stands(n, home[p], home, k)
          /\ i \in split => SplitInto(n, home[p], home, LeftInner(k), RightInner(k), InnerPivot(k))
      BY <2>6, <2>9, <2>11, <3>1, <3>2
    <3> QED BY <2>4, <2>8, <3>3, <3>4 DEF p, m
  <2>12. CASE i \notin full
    <3>1. k = Keep(n, m, removed) /\ i \notin split
      BY <2>5, <2>7, <2>12
    <3>2. \E d \in BOOLEAN : InnerOK(k, Kin(d))
      BY <2>10, <3>1
    <3>3. Stands(n, home[p], home, k)
      BY <2>9, <3>1
    <3> QED BY <2>4, <2>8, <2>12, <3>1, <3>2, <3>3 DEF p, m
  <2> QED BY <2>11, <2>12
<1> HIDE DEF splitOf, full, out, child, kept
<1>12. /\ \A p \in RightPages(split) : p \notin Created /\ p # Root /\ Split(split, p) \in split
       /\ \A p \in RightPages(split) : Right(split, Split(split, p)) = p
       /\ \A i, j \in split : Right(split, i) = Right(split, j) => i = j
       /\ \A i \in split : Right(split, i) \in RightPages(split)
  BY <1>8, RightHalves, RightInverse
<1>13. \A p \in RightPages(split) : Half(t, p, rightsOf(r)[p], b)
  <2>1. ASSUME NEW p \in RightPages(split)
        PROVE  Half(t, p, rightsOf(r)[p], b)
    <3>1. rightsOf(r)[p] = RightInner(kept(r, Split(split, p)))
      OBVIOUS
    <3>2. PICK d \in BOOLEAN : InnerOK(RightInner(kept(r, Split(split, p))), Kin(d))
      BY <1>7, <1>11, <1>12
    <3> HIDE DEF Kin, rightsOf
    <3> QED BY <1>4, <1>12, <3>1, <3>2, HalfIsInner
  <2> QED BY <2>1
<1>14. \A p \in LeftPages(t) : Half(t, p, leftsOf(r)[p], b)
  <2>1. ASSUME NEW p \in LeftPages(t)
        PROVE  Half(t, p, leftsOf(r)[p], b)
    <3> DEFINE i == ChildAt(t, p)
    <3>1. leftsOf(r)[p] = IF i \in split THEN LeftInner(kept(r, i)) ELSE kept(r, i)
      OBVIOUS
    <3>2. PICK d \in BOOLEAN : InnerOK(leftsOf(r)[p], Kin(d))
      BY <1>5, <1>11, <3>1
    <3> HIDE DEF Kin, leftsOf
    <3> QED BY <1>4, <1>5, <3>2, HalfIsInner
  <2> QED BY <2>1
<1>15. Flushing(t, split, rightsOf(r), leftsOf(r), splitsOf(r), b)
  <2>1. /\ DOMAIN rightsOf(r) = RightPages(split) /\ DOMAIN leftsOf(r) = LeftPages(t)
        /\ DOMAIN splitsOf(r) = split
    OBVIOUS
  <2>2. \A i \in split : splitsOf(r)[i].page = Right(split, i)
    OBVIOUS
  <2> HIDE DEF rightsOf, leftsOf, splitsOf
  <2> QED BY <1>2, <1>7, <1>13, <1>14, <2>1, <2>2 DEF Flushing
<1>16. /\ \A i \in Targets(t) :
            leftsOf(r)[Child(t, i)] = IF i \in split THEN LeftInner(kept(r, i)) ELSE kept(r, i)
       /\ \A i \in split : splitsOf(r)[i].pivot = InnerPivot(kept(r, i))
  BY <1>5, <1>6
<1>17. \A i \in split : rightsOf(r)[Right(split, i)] = RightInner(kept(r, i))
  <2>1. ASSUME NEW i \in split PROVE rightsOf(r)[Right(split, i)] = RightInner(kept(r, i))
    <3>1. Split(split, Right(split, i)) = i
      BY <1>12
    <3> QED BY <1>12, <3>1
  <2> QED BY <2>1
<1> DEFINE new == newOf(r)
           rights == rightsOf(r)
           lefts == leftsOf(r)
           splits == splitsOf(r)
           newQueue == queueAfter(r)
<1>18. node' = new ++ node /\ new = FlushedPages(t, rights, lefts, splits)
  BY <1>2 DEF Write
<1>19. \A i \in split : splits[i].pivot = InnerPivot(kept(r, i)) /\ splits[i].page = Right(split, i)
  BY <1>16
<1>20. DOMAIN splits = split
  OBVIOUS
<1> HIDE DEF rightsOf, leftsOf, splitsOf, split, rights, lefts, splits, newOf, new
<1>21. FlushOrdered(t, split, rights, lefts, splits, home)
  <2>1. ASSUME NEW i \in split
        PROVE  LET c == Child(t, i) IN
               SplitInto(node[c], home[c], home, lefts[c], rights[Right(split, i)], splits[i].pivot)
    <3>1. i \in Targets(t)
      BY <1>7
    <3> QED BY <1>11, <1>16, <1>17, <1>19, <3>1 DEF lefts, rights
  <2>2. ASSUME NEW i \in Targets(t) \ split
        PROVE  LET c == Child(t, i) IN Stands(node[c], home[c], home, lefts[c])
    BY <1>11, <1>16 DEF lefts
  <2> QED BY <2>1, <2>2 DEF FlushOrdered
<1>22. Flushing(t, split, rights, lefts, splits, b)
  BY <1>15 DEF rights, lefts, splits
<1>23. /\ NewPages(new, Cardinality(split)) /\ Cardinality(split) \in Nat /\ Locked(t, new)
  <2> HIDE DEF Kin
  <2> QED BY <1>1, <1>4, <1>22, <1>18, FlushDown
<1>24. OrderedSplit(Flushed(t), splits, new, home)
  BY <1>3, <1>18, <1>21, <1>22, FlushedSplit
<1>25. PICK home2 : home2 = SplitHome(Flushed(t), splits, home)
  OBVIOUS
<1>26. \A e \in Range(Tail(queue[t])) : DOMAIN e.messages \subseteq home2[e.page]
  BY <1>3, <1>9, <1>24, <1>25, TailHome
<1>27. \A i \in Targets(t) : node[Flushed(t)].children[i] = Child(t, i) /\ Child(t, i) \in Created
  BY <1>5 DEF Child
<1>28. ASSUME NEW i \in Targets(t)
       PROVE  /\ more(r, i) \in Seq(Range(more(r, i)))
              /\ \A e \in Range(more(r, i)) : DOMAIN e.messages \subseteq home2[e.page]
  <2> DEFINE c == Child(t, i)
             m == more(r, i)
             o == out(r, i)
             k == kept(r, i)
  <2>1. CASE i \in split
    <3> DEFINE p == Right(split, i)
               pivot == InnerPivot(k)
    <3>1. m = SplitEntries(c, p, pivot, o) /\ i \in full
      BY <1>7, <2>1 DEF split
    <3>2. DOMAIN o \subseteq home[c] /\ home[c] \in SUBSET Nat
      BY <1>11, <3>1
    <3>3. i \in DOMAIN splits /\ splits[i].pivot = pivot /\ splits[i].page = p
          /\ node[Flushed(t)].children[i] = c /\ c \in Created
      BY <1>19, <1>20, <1>27, <2>1
    <3>4. \A j \in DOMAIN splits : node[Flushed(t)].children[j] = c => j = i
      BY <1>6, <1>7, <1>20, <1>27
    <3> HIDE DEF c, m, o, k, p, pivot, more
    <3>5. /\ m \in Seq(Range(m))
          /\ \A e \in Range(m) :
               /\ DOMAIN e.messages \subseteq DOMAIN o
               /\ \/ e.page = c /\ \A x \in DOMAIN e.messages : x <= pivot
                  \/ e.page = p /\ \A x \in DOMAIN e.messages : x > pivot
      BY <3>1, SplitEntriesKeys, SplitEntriesSeq
    <3>6. ASSUME NEW e \in Range(m), NEW x \in DOMAIN e.messages PROVE x \in home2[e.page]
      <4>1. x \in home[c] /\ x \in Nat
        BY <3>2, <3>5
      <4>2. PICK h : h = Flushed(t)
        OBVIOUS
      <4>3. OrderedSplit(h, splits, new, home) /\ home2 = SplitHome(h, splits, home)
        BY <1>24, <1>25, <4>2
      <4>4. /\ \A y \in Created :
                 /\ x \in home[y]
                 /\ \A j \in DOMAIN splits : node[h].children[j] = y => x <= splits[j].pivot
                 => x \in home2[y]
            /\ \A j \in DOMAIN splits :
                 x \in home[node[h].children[j]] /\ x > splits[j].pivot => x \in home2[splits[j].page]
        BY <4>1, <4>3, SplitHomeTakes
      <4>5. CASE e.page = c /\ x <= pivot
        BY <3>3, <3>4, <4>1, <4>2, <4>4, <4>5
      <4>6. CASE e.page = p /\ x > pivot
        BY <3>3, <4>1, <4>2, <4>4, <4>6
      <4> QED BY <3>5, <4>5, <4>6
    <3> QED BY <3>5, <3>6 DEF m
  <2>2. CASE i \notin split /\ i \in full
    <3>1. m = Entry(c, o)
      BY <2>2 DEF split
    <3>2. DOMAIN o \subseteq home[c] /\ c \in Created
      BY <1>11, <1>27, <2>2
    <3>3. \A j \in DOMAIN splits : node[Flushed(t)].children[j] # c
      BY <1>6, <1>7, <1>20, <1>27, <2>2
    <3> HIDE DEF c, m, o, k, more
    <3>4. /\ m \in Seq(Range(m)) /\ \A e \in Range(m) : e.page = c /\ e.messages = o
      BY <3>1, EntryRoom
    <3>5. home2[c] = home[c]
      <4>1. PICK h : h = Flushed(t)
        OBVIOUS
      <4>2. PICK p : p = c
        OBVIOUS
      <4>3. OrderedSplit(h, splits, new, home) /\ home2 = SplitHome(h, splits, home)
            /\ p \in Created /\ \A j \in DOMAIN splits : node[h].children[j] # p
        BY <1>24, <1>25, <3>2, <3>3, <4>1, <4>2
      <4>4. ParentsOK /\ h \in Created /\ IsBranch(node[h])
        BY <1>3, <4>1, TargetKids DEF RoomInv
      <4> QED BY <1>10, <4>2, <4>3, <4>4, HomeKept
    <3> QED BY <3>2, <3>4, <3>5 DEF m
  <2>3. CASE i \notin split /\ i \notin full
    <3>1. m = <<>>
      BY <2>3 DEF split
    <3> HIDE DEF m, more
    <3> QED BY <3>1, EmptyQueue DEF m
  <2> QED BY <2>1, <2>2, <2>3
<1> DEFINE rest == Tail(queue[t])
           s == mores(r)
<1>29. /\ s = [i \in 1 .. top |-> s[i]]
       /\ \A i \in 1 .. top : i \notin Targets(t) => s[i] = <<>>
       /\ \A i \in Targets(t) \cap (1 .. top) : s[i] = more(r, i)
  OBVIOUS
<1>30. newQueue = rest \o FlattenSeq(s) /\ Continue(t, newQueue)
  BY <1>2
<1>31. top \in Nat \ {0}
  BY <1>3, TargetsFinite
<1> HIDE DEF more, newQueue, mores, rest, s, top
<1>32. ASSUME NEW i \in 1 .. top
       PROVE  /\ s[i] \in Seq(Range(s[i]))
              /\ \A e \in Range(s[i]) : DOMAIN e.messages \subseteq home2[e.page]
  <2>1. CASE i \in Targets(t)
    <3>1. s[i] = more(r, i)
      BY <1>29, <2>1
    <3> QED BY <1>28, <2>1, <3>1
  <2>2. CASE i \notin Targets(t)
    <3>1. s[i] = <<>>
      BY <1>29, <2>2
    <3> QED BY <3>1, EmptyQueue
  <2> QED BY <2>1, <2>2
<1>33. \A e \in Range(newQueue) : DOMAIN e.messages \subseteq home2[e.page]
  <2>1. rest \in Seq(Range(rest))
    <3>1. queue[t] \in Seq(Range(queue[t])) /\ queue[t] # <<>>
      BY <1>3, FlushFacts
    <3>2. rest \in Seq(Range(queue[t]))
      BY <3>1, HeadTailProperties DEF rest
    <3> QED BY <3>2, SeqOfRange
  <2>2. \A e \in Range(rest \o FlattenSeq(s)) : e \in Range(rest) \/ \E i \in 1 .. top : e \in Range(s[i])
    BY <1>29, <1>31, <1>32, <2>1, CollectedRange
  <2> QED BY <1>26, <1>30, <1>32, <2>2 DEF rest
<1>34. Elsewhere(t) /\ pc'[t] # "target" /\ queue'[t] = newQueue
  BY <1>30, ContinuePlace
<1>35. \A e \in Range(queue'[t]) : DOMAIN e.messages \subseteq SplitHome(Flushed(t), splits, home)[e.page]
  BY <1>25, <1>33, <1>34
<1> QED BY <1>3, <1>9, <1>18, <1>21, <1>22, <1>23, <1>34, <1>35, FlushedSearch


(***************************************************************************)
(* Steps that split the root.                                              *)
(***************************************************************************)
(* A root with one pivot leads the keys up to the pivot to its first child. *)
LEMMA FirstRootOrdered ==
  ASSUME NEW median \in Nat, NEW a, NEW b, a # b, NEW home,
         home[a] = {k \in Nat : k <= median}, home[b] = {k \in Nat : k > median}
  PROVE  BranchOrdered(RootNode(<<median>>, <<a, b>>), Nat, home)
<1> DEFINE n == RootNode(<<median>>, <<a, b>>)
<1>1. n.pivots = <<median>> /\ n.children = <<a, b>>
  BY DEF RootNode
<1> HIDE DEF n
<1>2. DOMAIN n.pivots = {1} /\ n.pivots[1] = median
  BY <1>1
<1>3. Increases(n.pivots)
  BY <1>2 DEF Increases
<1>4. Range(n.pivots) \subseteq Nat
  BY <1>2 DEF Range
<1>5. Range(n.children) = {a, b}
  <2>1. DOMAIN <<a, b>> = {1, 2}
    OBVIOUS
  <2> QED BY <1>1, <2>1 DEF Range
<1>6. ASSUME NEW k \in Nat
      PROVE  ChildOf(n, k) = IF k <= median THEN a ELSE b
  <2> DEFINE I == {i \in DOMAIN n.pivots : n.pivots[i] < k}
  <2>1. CASE k <= median
    <3>1. I = {}
      BY <1>2, <2>1
    <3>2. Cardinality(I) = 0
      BY <3>1, FS_EmptySet
    <3>3. ChildIndex(n, k) = 1
      BY <3>2 DEF ChildIndex
    <3> QED BY <1>1, <2>1, <3>3 DEF ChildOf
  <2>2. CASE ~(k <= median)
    <3>1. I = {1}
      BY <1>2, <2>2
    <3>2. Cardinality(I) = 1
      BY <3>1, FS_Singleton
    <3>3. ChildIndex(n, k) = 2
      BY <3>2 DEF ChildIndex
    <3> QED BY <1>1, <2>2, <3>3 DEF ChildOf
  <2> QED BY <2>1, <2>2
<1>7. {k \in Nat : ChildOf(n, k) = a} = {k \in Nat : k <= median}
  BY <1>6
<1>8. {k \in Nat : ChildOf(n, k) = b} = {k \in Nat : k > median}
  BY <1>6
<1>9. \A c \in Range(n.children) : home[c] = {k \in Nat : ChildOf(n, k) = c}
  <2> SUFFICES ASSUME NEW c \in {a, b} PROVE home[c] = {k \in Nat : ChildOf(n, k) = c}
    BY <1>5
  <2>1. CASE c = a
    BY <1>7, <2>1
  <2>2. CASE c = b
    BY <1>8, <2>2
  <2> QED BY <2>1, <2>2
<1> QED BY <1>3, <1>4, <1>9 DEF BranchOrdered, n

LEMMA RootLeafSplitsSearch ==
  ASSUME TreeInv, RoomInv, SearchInv, NEW t \in Threads, RootLeafSplits(t)
  PROVE  SearchInv'
<1> DEFINE pairs == node[Root].pairs
           m == Alone(t)
           median == LeafMedian(pairs, m)
           left == Leaf(Apply(UpTo(pairs, median), UpTo(m, median)))
           right == Leaf(Apply(Above(pairs, median), Above(m, median)))
           F == Fresh
           root == RootNode(<<median>>, <<F + 1, F>>)
           new == Only(Root, root) ++ Only(F, right) ++ Only(F + 1, left)
<1>1. pc[t] = "root" /\ Upserting(t) /\ IsLeaf(Root) /\ node[Root].type = "leaf"
  BY DEF RootLeafSplits, At, IsLeaf
<1>2. access[t][Root] = "write" /\ current[t] = Root /\ ~IsInner(Root)
  BY <1>1, AtRootFacts DEF IsInner
<1>3. /\ Root \in Created /\ Created = 1 .. F - 1 /\ F \in Nat /\ F > Root /\ Root = 1
  BY PageNumbers DEF Root
<1>4. F + 1 <= MaxPages /\ Change(t, new) /\ LeafIsFull(pairs)
  BY <1>2 DEF RootLeafSplits, Here
<1>5. node' = new ++ node /\ Answer(t, None)
  BY <1>4 DEF Change, Write
<1>6. PICK home \in [Created -> SUBSET Nat] : HomesPlaces(home)
  BY SearchPicks
<1>7. HomesOK(home) /\ home[Root] = Nat /\ NodeOrdered(node[Root], Nat, home)
  BY <1>3, <1>6 DEF HomesPlaces, HomesOK
<1>8. SplitInto(node[Root], Nat, home, left, right, median) /\ median \in Nat
  <2>1. PairsTyped(pairs) /\ Size(pairs) = LeafN
    BY <1>1, <1>3, <1>4, LeafFacts DEF LeafIsFull
  <2>2. Typed(m) /\ Size(m) = 1 /\ DOMAIN m = {Key(t)} /\ Key(t) \in Keys
    BY <1>1, AloneFacts
  <2>3. IsFiniteSet(DOMAIN pairs) /\ IsFiniteSet(DOMAIN m)
    BY <2>1, <2>2, FiniteKeys DEF PairsTyped, Typed
  <2> HIDE DEF pairs, m
  <2>4. Size(pairs) + Size(m) >= 4
    BY <2>1, <2>2, SizesAssumption
  <2>5. DOMAIN m \subseteq Nat
    BY <2>2, KeysAssumption
  <2> DEFINE n == node[Root]
  <2>6. n.type = "leaf" /\ NodeOrdered(n, Nat, home) /\ n.pairs = pairs
    BY <1>1, <1>7 DEF pairs
  <2> HIDE DEF n
  <2>7. LET k == LeafMedian(n.pairs, m) IN
         /\ SplitInto(n, Nat, home, Leaf(Apply(UpTo(n.pairs, k), UpTo(m, k))),
                      Leaf(Apply(Above(n.pairs, k), Above(m, k))), k)
         /\ k \in Nat
    BY <2>3, <2>4, <2>5, <2>6, LeafSplitInto
  <2> QED BY <2>6, <2>7 DEF n
<1>9. left.type = "leaf" /\ right.type = "leaf" /\ ~IsBranch(left) /\ ~IsBranch(right)
      /\ Kids(left) = {} /\ Kids(right) = {}
  BY LeafNode DEF IsBranch, Kids
<1>10. /\ NodeOrdered(left, {k \in Nat : k <= median}, home)
       /\ NodeOrdered(right, {k \in Nat : k > median}, home)
  BY <1>8 DEF SplitInto
<1> HIDE DEF median, left, right, pairs, m
<1>11. /\ DOMAIN new = {Root, F, F + 1}
       /\ new[Root] = root /\ new[F] = right /\ new[F + 1] = left
  <2>1. F # Root /\ F + 1 # Root /\ F + 1 # F
    BY <1>3
  <2> QED BY <2>1, OverIs DEF Over, Only
<1> HIDE DEF new
<1>12. /\ root.type = "root" /\ Kids(root) = {F + 1, F} /\ IsBranch(root) /\ root # Zeros
  <2>1. root.type = "root" /\ root.children = <<F + 1, F>>
    BY DEF RootNode
  <2>2. Range(<<F + 1, F>>) = {F + 1, F}
    <3>1. DOMAIN <<F + 1, F>> = {1, 2}
      OBVIOUS
    <3> QED BY <3>1 DEF Range
  <2> HIDE DEF root
  <2> QED BY <2>1, <2>2 DEF Kids, IsBranch, Zeros
<1>13. NewPages(new, 2)
  <2>1. {Root, F, F + 1} \subseteq 1 .. F + 2 - 1 /\ F .. F + 2 - 1 = {F, F + 1} /\ F + 2 - 1 <= MaxPages
    BY <1>3, <1>4
  <2>2. {Root, F, F + 1} \cap Created = {Root}
    BY <1>3
  <2> HIDE DEF root
  <2>3. \A p \in DOMAIN new \cap Created : (new[p].type = "inner") <=> IsInner(p)
    BY <1>2, <1>11, <1>12, <2>2
  <2> QED BY <1>11, <2>1, <2>3 DEF NewPages, F
<1>14. /\ Created' = 1 .. F + 1 /\ \A p \in DOMAIN new : node'[p] = new[p]
       /\ \A p \in Created' \ DOMAIN new : node'[p] = node[p] /\ p \in Created
       /\ Created \subseteq Created'
  <2>1. /\ Created' = 1 .. F + 2 - 1 /\ \A p \in DOMAIN new : node'[p] = new[p]
        /\ \A p \in Created' \ DOMAIN new : node'[p] = node[p] /\ p \in Created
        /\ Created \subseteq Created'
    BY <1>5, <1>13, WriteFacts DEF F
  <2> QED BY <1>3, <2>1
<1>15. Root \in Created' /\ F \in Created' /\ F + 1 \in Created' /\ Created' = Created \cup {F, F + 1}
       /\ F \notin Created /\ F + 1 \notin Created /\ F # Root /\ F + 1 # Root /\ F # F + 1
  BY <1>3, <1>14
<1>16. PICK home2 : home2 = [p \in Created' |-> IF p = F THEN {k \in Nat : k > median}
                                               ELSE IF p = F + 1 THEN {k \in Nat : k <= median}
                                               ELSE home[p]]
  OBVIOUS
<1> HIDE DEF F
<1>17. /\ home2 \in [Created' -> SUBSET Nat] /\ home2[Root] = Nat
       /\ home2[F] = {k \in Nat : k > median} /\ home2[F + 1] = {k \in Nat : k <= median}
       /\ \A p \in Created : home2[p] = home[p]
  BY <1>3, <1>7, <1>15, <1>16
<1>18. \A p \in Created : \A c \in Kids(node[p]) : c \in Created /\ c # Root
  BY KidsInTree
<1>19. HomesOK(home2)'
  <2>1. NodeOrdered(root, Nat, home2)
    <3>1. BranchOrdered(root, Nat, home2)
      BY <1>8, <1>15, <1>17, FirstRootOrdered
    <3> HIDE DEF root
    <3> QED BY <1>12, <3>1 DEF NodeOrdered
  <2>2. NodeOrdered(left, home2[F + 1], home2)
    BY <1>9, <1>10, <1>17, OrderedSame
  <2>3. NodeOrdered(right, home2[F], home2)
    BY <1>9, <1>10, <1>17, OrderedSame
  <2> HIDE DEF root
  <2>4. \A p \in DOMAIN new : NodeOrdered(new[p], home2[p], home2)
    BY <1>11, <1>17, <2>1, <2>2, <2>3
  <2>5. \A p \in Created \ DOMAIN new :
          home2[p] = home[p] /\ \A c \in Kids(node[p]) : home2[c] = home[c]
    BY <1>17, <1>18
  <2>6. home2[Root] = Nat /\ home2 \in [Created' -> SUBSET Nat] /\ 2 \in Nat
    BY <1>17
  <2> QED BY <1>5, <1>7, <1>13, <2>4, <2>5, <2>6, HomesWrite
<1>20. LevelsOK'
  <2>1. PICK height \in [Created -> Nat] : HeightsOK(height)
    BY DEF SearchInv, LevelsOK
  <2>2. PICK height2 : height2 = [p \in Created' |-> IF p = Root THEN 1
                                                    ELSE IF p \in Created THEN height[p] ELSE 0]
    OBVIOUS
  <2>3. /\ height2 \in [Created' -> Nat] /\ height2[Root] = 1
        /\ height2[F] = 0 /\ height2[F + 1] = 0
        /\ \A p \in Created \ {Root} : height2[p] = height[p]
    BY <1>15, <2>2
  <2> HIDE DEF root
  <2>4. \A p \in DOMAIN new : NodeLevel(new[p], height2[p], height2)
    <3>1. NodeLevel(root, 1, height2)
      BY <1>12, <2>3 DEF NodeLevel
    <3>2. NodeLevel(left, 0, height2) /\ NodeLevel(right, 0, height2)
      BY <1>9 DEF NodeLevel
    <3> QED BY <1>11, <2>3, <3>1, <3>2
  <2>5. \A p \in Created \ DOMAIN new :
          height2[p] = height[p] /\ \A c \in Kids(node[p]) : height2[c] = height[c]
    BY <1>11, <1>18, <2>3
  <2>6. height2 \in [Created' -> Nat] /\ 2 \in Nat
    BY <2>3
  <2>7. HeightsOK(height2)'
    BY <1>5, <1>13, <2>1, <2>4, <2>5, <2>6, HeightsWrite
  <2> QED BY <2>6, <2>7 DEF LevelsOK
<1>21. ReachedOK'
  <2> SUFFICES ASSUME NEW c \in Created' \ {Root} PROVE \E p \in Created' : c \in Kids(node'[p])
    BY DEF ReachedOK, Root, Kids, IsBranch
  <2> HIDE DEF root
  <2>1. CASE c \in {F, F + 1}
    <3>1. node'[Root] = root
      BY <1>11, <1>14
    <3> QED BY <1>12, <1>15, <2>1, <3>1
  <2>2. CASE c \in Created
    <3>1. PICK p \in Created : c \in Kids(node[p])
      BY <2>2 DEF SearchInv, ReachedOK
    <3>2. p # Root
      BY <1>1, <3>1 DEF Kids, IsBranch
    <3>3. p \in Created' \ DOMAIN new
      BY <1>11, <1>14, <1>15, <3>2
    <3> QED BY <1>14, <3>1, <3>3
  <2> QED BY <1>15, <2>1, <2>2
<1>22. OrderOK'
  <2>1. Elsewhere(t) /\ PlaceOK(t, home2)'
    BY <1>5, AnswerPlace
  <2>2. \A p \in Created : access[t][p] # "write" => home2[p] = home[p]
    BY <1>17
  <2> QED BY <1>6, <1>19, <2>1, <2>2, OrderStep
<1> QED BY <1>20, <1>21, <1>22 DEF SearchInv


(* The part of the root its child j comes into.                             *)
PartIndex(j) == 1 + ((j - 1) \div (ChildPivots + 1))

LEMMA TimesMono ==
  ASSUME NEW a \in Nat, NEW b \in Nat, NEW d \in Nat, a <= b
  PROVE  a * d <= b * d /\ a * d \in Nat /\ b * d \in Nat
<1>1. PICK e \in Nat : b = a + e
  <2>1. b - a \in Nat /\ b = a + (b - a)
    OBVIOUS
  <2> QED BY <2>1
<1>2. b * d = a * d + e * d
  BY <1>1, SMT
<1>3. a * d \in Nat /\ b * d \in Nat /\ e * d \in Nat
  BY <1>1, SMT
<1> DEFINE x == a * d
           y == b * d
           z == e * d
<1>4. y = x + z /\ x \in Nat /\ y \in Nat /\ z \in Nat
  BY <1>2, <1>3
<1> HIDE DEF x, y, z
<1>5. x <= y
  BY <1>4
<1> QED BY <1>4, <1>5 DEF x, y

LEMMA QuotientPlace ==
  ASSUME NEW x \in Nat, NEW d \in Nat \ {0}
  PROVE  /\ x \div d \in Nat /\ (x \div d) * d <= x /\ x < (x \div d) * d + d
         /\ (x \div d) * d \in Nat
<1>1. x \div d \in Nat /\ (x \div d) * d <= x /\ x < (x \div d) * d + d
  BY SMT
<1> DEFINE q == x \div d
<1>2. q \in Nat
  BY <1>1
<1> HIDE DEF q
<1>3. q * d \in Nat
  BY <1>2, SMT
<1> QED BY <1>1, <1>3 DEF q

(* The last part takes what the others leave: a pivot at least.             *)
LEMMA LastPart ==
  ASSUME NEW L \in Nat, NEW c \in Nat \ {0}, L % (c + 1) # 0, NEW k, k = (L + c) \div (c + 1)
  PROVE  k \in Nat \ {0} /\ (k - 1) * (c + 1) < L /\ L < k * (c + 1)
         /\ k * (c + 1) = (k - 1) * (c + 1) + (c + 1) /\ (k - 1) * (c + 1) \in Nat
<1> DEFINE d == c + 1
           q == L \div d
           r == L % d
           s == q * d
<1>1. d \in Nat \ {0} /\ c = d - 1
  OBVIOUS
<1> HIDE DEF d
<1>2. q \in Nat /\ r \in Nat /\ r < d /\ L = q * d + r
  BY <1>1, SMT
<1>3. r # 0
  BY DEF d
<1> HIDE DEF q, r
<1>4. s \in Nat /\ L = s + r
  BY <1>1, <1>2, SMT
<1>5. (q + 1) * d = q * d + d /\ (q + 2) * d = q * d + d + d
  BY <1>1, <1>2, SMT
<1>6. (L + c) \div d \in Nat /\ ((L + c) \div d) * d <= L + c /\ L + c < ((L + c) \div d) * d + d
  BY <1>1, QuotientPlace
<1> DEFINE w == (L + c) \div d
<1>7. w \in Nat /\ w * d <= L + c /\ L + c < w * d + d /\ k = w
  BY <1>6 DEF d
<1> HIDE DEF w
<1>8. (w + 1) * d = w * d + d
  BY <1>1, <1>7, SMT
<1>9. w >= q + 1
  <2> SUFFICES ASSUME w + 1 <= q + 1 PROVE FALSE
    BY <1>2, <1>7
  <2>1. (w + 1) * d <= (q + 1) * d /\ (w + 1) * d \in Nat /\ (q + 1) * d \in Nat
    <3>1. w + 1 \in Nat /\ q + 1 \in Nat /\ d \in Nat
      BY <1>1, <1>2, <1>7
    <3> QED BY <3>1, TimesMono
  <2> DEFINE x == w * d
  <2>2. x \in Nat
    BY <1>1, <1>7, SMT
  <2>3. x + d <= s + d /\ L + c < x + d
    BY <1>5, <1>7, <1>8, <2>1
  <2> HIDE DEF x, s
  <2> QED BY <1>1, <1>2, <1>3, <1>4, <2>2, <2>3
<1>10. w <= q + 1
  <2> SUFFICES ASSUME q + 2 <= w PROVE FALSE
    BY <1>2, <1>7
  <2>1. (q + 2) * d <= w * d
    <3>1. q + 2 \in Nat /\ w \in Nat /\ d \in Nat
      BY <1>1, <1>2, <1>7
    <3> QED BY <3>1, TimesMono
  <2>2. s + d + d <= L + c
    <3> DEFINE x == w * d
    <3>1. x \in Nat
      BY <1>1, <1>7, SMT
    <3>2. s + d + d <= x /\ x <= L + c
      BY <1>5, <1>7, <2>1
    <3> HIDE DEF x, s
    <3> QED BY <1>1, <1>4, <3>1, <3>2
  <2> HIDE DEF s
  <2> QED BY <1>1, <1>2, <1>4, <2>2
<1>11. k = q + 1 /\ k - 1 = q
  BY <1>2, <1>7, <1>9, <1>10
<1>12. k * d = s + d /\ (k - 1) * d = s
  BY <1>5, <1>11
<1> HIDE DEF s
<1>13. s < L /\ L < s + d
  BY <1>1, <1>2, <1>3, <1>4
<1>14. k \in Nat \ {0} /\ (k - 1) * d < L /\ L < k * d /\ k * d = (k - 1) * d + d /\ (k - 1) * d \in Nat
  BY <1>2, <1>4, <1>11, <1>12, <1>13
<1> QED BY <1>14 DEF d

(* Every child of the root comes into one part. *)
LEMMA PartOfChild ==
  ASSUME NEW L \in Nat, L % (ChildPivots + 1) # 0, NEW k,
         k = (L + ChildPivots) \div (ChildPivots + 1), NEW j \in 1 .. L + 1
  PROVE  LET d == ChildPivots + 1 IN
         /\ PartIndex(j) \in 1 .. k
         /\ (PartIndex(j) - 1) * d < j /\ j <= PartIndex(j) * d
         /\ PartIndex(j) * d = (PartIndex(j) - 1) * d + d
         /\ (PartIndex(j) - 1) * d \in Nat
<1> DEFINE d == ChildPivots + 1
           q == (j - 1) \div d
<1>1. ChildPivots \in Nat \ {0} /\ d \in Nat \ {0} /\ ChildPivots + 1 = d
  BY SizesAssumption DEF ChildPivots
<1>2. k \in Nat \ {0} /\ L < k * d
  BY <1>1, LastPart
<1> HIDE DEF d
<1>3. j - 1 \in Nat
  OBVIOUS
<1>4. q \in Nat /\ q * d <= j - 1 /\ j - 1 < q * d + d /\ q * d \in Nat
  BY <1>1, <1>3, QuotientPlace
<1>5. PartIndex(j) = q + 1
  BY <1>4 DEF PartIndex, d
<1> HIDE DEF q
<1>6. (q + 1) * d = q * d + d
  BY <1>1, <1>4, SMT
<1>7. q < k
  <2> SUFFICES ASSUME k <= q PROVE FALSE
    BY <1>2, <1>4
  <2>1. k * d <= q * d /\ k * d \in Nat
    <3>1. k \in Nat /\ d \in Nat
      BY <1>1, <1>2
    <3> QED BY <1>4, <3>1, TimesMono
  <2> DEFINE x == k * d
             y == q * d
  <2>2. x <= y /\ L < x /\ y <= j - 1 /\ x \in Nat /\ y \in Nat
    BY <1>2, <1>4, <2>1
  <2> HIDE DEF x, y
  <2> QED BY <2>2
<1>8. q + 1 - 1 = q /\ q + 1 \in 1 .. k
  BY <1>2, <1>4, <1>7
<1>9. q * d < j /\ j <= q * d + d
  <2> DEFINE y == q * d
  <2>1. y \in Nat /\ y <= j - 1 /\ j - 1 < y + d
    BY <1>4
  <2> HIDE DEF y
  <2>2. y < j /\ j <= y + d
    BY <1>1, <2>1
  <2> QED BY <2>2 DEF y
<1>10. /\ PartIndex(j) \in 1 .. k
       /\ (PartIndex(j) - 1) * d < j /\ j <= PartIndex(j) * d
       /\ PartIndex(j) * d = (PartIndex(j) - 1) * d + d
       /\ (PartIndex(j) - 1) * d \in Nat
  BY <1>4, <1>5, <1>6, <1>8, <1>9
<1> QED BY <1>10 DEF d

(* Multiples of the parts' size tell the parts apart.                       *)
LEMMA PartsInOrder ==
  ASSUME NEW L \in Nat, L % (ChildPivots + 1) # 0, NEW k,
         k = (L + ChildPivots) \div (ChildPivots + 1), NEW j \in 1 .. L + 1, NEW u \in Nat
  PROVE  u * (ChildPivots + 1) < j <=> u < PartIndex(j)
<1> DEFINE d == ChildPivots + 1
           p == PartIndex(j)
<1>1. d \in Nat
  BY SizesAssumption DEF ChildPivots
<1>2. p \in 1 .. k /\ (p - 1) * d < j /\ j <= p * d /\ (p - 1) * d \in Nat
  BY PartOfChild
<1>0. k \in Nat
  <2>1. ChildPivots \in Nat \ {0}
    BY SizesAssumption DEF ChildPivots
  <2> QED BY <2>1, LastPart
<1>3. p \in Nat /\ p - 1 \in Nat
  BY <1>0, <1>2
<1> HIDE DEF d, p
<1>4. ASSUME u < p PROVE u * d < j
  <2>1. u <= p - 1
    BY <1>3, <1>4
  <2>2. u * d <= (p - 1) * d /\ u * d \in Nat
    BY <1>1, <1>3, <2>1, TimesMono
  <2> DEFINE x == u * d
             y == (p - 1) * d
  <2>3. x <= y /\ y < j /\ x \in Nat /\ y \in Nat
    BY <1>2, <2>2
  <2> HIDE DEF x, y
  <2>4. x < j
    BY <2>3
  <2> QED BY <2>4 DEF x
<1>5. ASSUME ~(u < p) PROVE ~(u * d < j)
  <2>1. p <= u
    BY <1>3, <1>5
  <2>2. p * d <= u * d /\ u * d \in Nat /\ p * d \in Nat
    BY <1>1, <1>3, <2>1, TimesMono
  <2> DEFINE x == u * d
             y == p * d
  <2>3. y <= x /\ j <= y /\ x \in Nat /\ y \in Nat
    BY <1>2, <2>2
  <2> HIDE DEF x, y
  <2>4. ~(x < j)
    BY <2>3
  <2> QED BY <2>4 DEF x
<1> QED BY <1>4, <1>5 DEF d, p


PartSize == ChildPivots + 1
PartKids(n, i) == {n.children[j] : j \in {y \in 1 .. Len(n.pivots) + 1 : PartIndex(y) = i}}
PartHome(n, i) == {x \in Nat : PartIndex(ChildIndex(n, x)) = i}
PartKidsAre(part, n, i) == Range(part.children) = PartKids(n, i)

(* A part is a segment of the root. *)
LEMMA PartIsSegment ==
  ASSUME NEW n, NEW below, BranchOK(n, below), Len(n.pivots) >= 1,
         Len(n.pivots) % (ChildPivots + 1) # 0, NEW i \in 1 .. Parts(n)
  PROVE  \E a, b \in Nat :
           /\ IsSegment(PartOfRoot(n, i), n, a, b)
           /\ \A j \in 1 .. Len(n.pivots) + 1 : j \in a + 1 .. b + 1 <=> PartIndex(j) = i
<1> DEFINE L == Len(n.pivots)
           c == ChildPivots
           d == ChildPivots + 1
           k == Parts(n)
           a == (i - 1) * (c + 1)
           rest == L - a
           size == Min({c, rest})
           b == a + size
<1>1. L \in Nat /\ c \in Nat \ {0} /\ k \in Nat \ {0} /\ i \in 1 .. k
  BY BranchFacts, PartsNumber
<1>2. k = (L + c) \div (c + 1) /\ L % (c + 1) # 0
  BY DEF Parts
<1>3. PartOfRoot(n, i) = Inner(SubSeq(n.pivots, a + 1, b), SubSeq(n.children, a + 1, b + 1), Empty)
  BY DEF PartOfRoot
<1>4. d = c + 1 /\ d \in Nat \ {0}
  BY <1>1
<1> DEFINE e == i * d
           f == (k - 1) * d
<1>5. f < L /\ L < f + d /\ f \in Nat
  <2> HIDE DEF L, c, k
  <2>1. (k - 1) * (c + 1) < L /\ L < k * (c + 1)
         /\ k * (c + 1) = (k - 1) * (c + 1) + (c + 1) /\ (k - 1) * (c + 1) \in Nat
    BY <1>1, <1>2, LastPart
  <2> QED BY <2>1 DEF c
<1>6. a \in Nat /\ e = a + d /\ a = (i - 1) * d
  <2> HIDE DEF L, c, k, d
  <2>1. i - 1 \in Nat /\ i \in Nat
    BY <1>1
  <2>2. (i - 1) * d \in Nat /\ i * d = (i - 1) * d + d
    BY <1>4, <2>1, SMT
  <2> QED BY <1>4, <2>2
<1>7. (i = k /\ a = f) \/ e <= f
  <2>1. CASE i = k
    BY <1>6, <2>1
  <2>2. CASE i # k
    <3> HIDE DEF L, c, k, d, a
    <3>1. i \in Nat /\ k - 1 \in Nat /\ i <= k - 1
      BY <1>1, <2>2
    <3>2. i * d <= (k - 1) * d
      BY <1>4, <3>1, TimesMono
    <3> QED BY <3>2
  <2> QED BY <2>1, <2>2
<1>8. \A j \in 1 .. L + 1 : PartIndex(j) = i <=> (a < j /\ j <= e)
  <2> SUFFICES ASSUME NEW j \in 1 .. L + 1 PROVE PartIndex(j) = i <=> (a < j /\ j <= e)
    OBVIOUS
  <2> DEFINE p == PartIndex(j)
  <2>1. p \in 1 .. k
    BY <1>1, <1>2, PartOfChild
  <2>2. i \in Nat /\ i - 1 \in Nat
    BY <1>1
  <2>3. (i - 1) * d < j <=> i - 1 < p
    BY <1>1, <1>2, <2>2, PartsInOrder
  <2>4. i * d < j <=> i < p
    BY <1>1, <1>2, <2>2, PartsInOrder
  <2>5. a < j <=> i - 1 < p
    BY <1>6, <2>3
  <2>6. e < j <=> i < p
    BY <2>4
  <2> HIDE DEF p, a, e, L, c, d, k
  <2>7. p = i <=> (a < j /\ j <= e)
    BY <1>1, <1>4, <1>6, <2>1, <2>2, <2>5, <2>6
  <2> QED BY <2>7 DEF p
<1> HIDE DEF L, c, d, k, a, e, f
<1>9. rest \in Int
  BY <1>1, <1>6
<1> HIDE DEF rest
<1>10. size \in {c, rest} /\ size <= c /\ size <= rest
  <2>1. c \in Int /\ rest \in Int
    BY <1>1, <1>9
  <2> QED BY <2>1, MinOfTwo, Zenon
<1>15. rest = L - a
  BY DEF rest
<1>13. /\ PartOfRoot(n, i).pivots = SubSeq(n.pivots, a + 1, b)
       /\ PartOfRoot(n, i).children = SubSeq(n.children, a + 1, b + 1)
  <2> DEFINE pv == SubSeq(n.pivots, a + 1, b)
             ch == SubSeq(n.children, a + 1, b + 1)
  <2>1. PartOfRoot(n, i) = Inner(pv, ch, Empty)
    BY <1>3
  <2> HIDE DEF pv, ch
  <2>2. PartOfRoot(n, i).pivots = pv /\ PartOfRoot(n, i).children = ch
    BY <2>1 DEF Inner
  <2> QED BY <2>2 DEF pv, ch
<1> HIDE DEF size
<1>11. CASE i = k /\ a = f
  <2>1. size = L - a
    BY <1>1, <1>4, <1>5, <1>6, <1>10, <1>11, <1>15
  <2>2. b = L /\ a <= b
    BY <1>1, <1>5, <1>6, <1>11, <2>1
  <2>3. \A j \in 1 .. L + 1 : j \in a + 1 .. b + 1 <=> PartIndex(j) = i
    BY <1>1, <1>4, <1>5, <1>6, <1>8, <1>11, <2>2
  <2> HIDE DEF b
  <2>4. b \in Nat /\ b <= L
    BY <1>1, <2>2
  <2>5. IsSegment(PartOfRoot(n, i), n, a, b)
    BY <1>13, <2>2, <2>4 DEF IsSegment, L
  <2> QED BY <1>6, <2>3, <2>4, <2>5 DEF L
<1>12. CASE e <= f
  <2>1. size = c
    BY <1>1, <1>4, <1>5, <1>6, <1>10, <1>12, <1>15
  <2>2. b + 1 = e /\ b \in Nat /\ a <= b /\ b <= L
    BY <1>1, <1>4, <1>5, <1>6, <1>12, <2>1
  <2>3. \A j \in 1 .. L + 1 : j \in a + 1 .. b + 1 <=> PartIndex(j) = i
    <3> HIDE DEF b
    <3> QED BY <1>1, <1>6, <1>8, <2>2
  <2> HIDE DEF b
  <2>5. IsSegment(PartOfRoot(n, i), n, a, b)
    BY <1>13, <2>2 DEF IsSegment, L
  <2> QED BY <1>6, <2>2, <2>3, <2>5 DEF L
<1> QED BY <1>7, <1>11, <1>12

LEMMA PartOrdered ==
  ASSUME NEW n, NEW below, BranchOK(n, below), Len(n.pivots) >= 1, IsInjective(n.children),
         Len(n.pivots) % (ChildPivots + 1) # 0, NEW i \in 1 .. Parts(n),
         NEW home, BranchOrdered(n, Nat, home)
  PROVE  BranchOrdered(PartOfRoot(n, i), PartHome(n, i), home)
         /\ PartKidsAre(PartOfRoot(n, i), n, i)
<1> DEFINE part == PartOfRoot(n, i)
           L == Len(n.pivots)
<1>1. PICK a, b \in Nat :
        /\ IsSegment(part, n, a, b)
        /\ \A j \in 1 .. L + 1 : j \in a + 1 .. b + 1 <=> PartIndex(j) = i
  BY PartIsSegment
<1> HIDE DEF part
<1>2. SegmentOK(part, n, Nat, home, a, b)
  <2>1. Nat \in SUBSET Nat
    OBVIOUS
  <2> QED BY <1>1, <2>1, SegmentOrdered
<1>3. L \in Nat /\ DOMAIN n.pivots = 1 .. L
  BY BranchFacts
<1>4. a + 1 .. b + 1 \subseteq 1 .. L + 1
  BY <1>1, <1>3 DEF IsSegment
<1>5. \A x \in Nat : ChildIndex(n, x) \in 1 .. L + 1
  <2>1. Increases(n.pivots) /\ Range(n.pivots) \subseteq Nat
    BY DEF BranchOrdered
  <2> HIDE DEF L
  <2> QED BY <1>3, <2>1, IndexOfChild
<1> HIDE DEF L
<1>6. SegmentHome(n, Nat, a, b) = PartHome(n, i)
  BY <1>1, <1>5 DEF SegmentHome, PartHome
<1>7. SegmentKids(n, a, b) = PartKids(n, i)
  <2>1. a + 1 .. b + 1 = {y \in 1 .. L + 1 : PartIndex(y) = i}
    BY <1>1, <1>4
  <2> QED BY <2>1 DEF SegmentKids, PartKids, L
<1> QED BY <1>2, <1>6, <1>7 DEF SegmentOK, PartKidsAre, part

(* The new root leads a key to the part with the child it led to before.    *)
LEMMA PartsRootOrdered ==
  ASSUME NEW n, NEW below, BranchOK(n, below), Len(n.pivots) >= 1,
         Len(n.pivots) % (ChildPivots + 1) # 0, NEW own, BranchOrdered(n, Nat, own),
         NEW F \in Nat, NEW home, \A i \in 1 .. Parts(n) : home[F + i - 1] = PartHome(n, i)
  PROVE  /\ BranchOrdered(RootOfParts(n, F), Nat, home)
         /\ \A x \in Nat : /\ PartIndex(ChildIndex(n, x)) \in 1 .. Parts(n)
                           /\ ChildOf(RootOfParts(n, F), x) = F + PartIndex(ChildIndex(n, x)) - 1
<1> DEFINE r == RootOfParts(n, F)
           L == Len(n.pivots)
           c == ChildPivots
           d == c + 1
           k == Parts(n)
           rp == r.pivots
           rc == r.children
           np == n.pivots
<1>1. L \in Nat /\ c \in Nat \ {0} /\ k \in Nat \ {0} /\ DOMAIN np = 1 .. L /\ d \in Nat
  BY BranchFacts, PartsNumber
<1>2. k = (L + c) \div (c + 1) /\ L % (c + 1) # 0
  BY DEF Parts
<1>3. /\ rp = [i \in 1 .. k - 1 |-> np[i * d]]
      /\ rc = [i \in 1 .. k |-> F + i - 1]
  BY DEF RootOfParts, RootNode
<1> HIDE DEF rp, rc
<1>4. Increases(np) /\ Range(np) \subseteq Nat
  BY DEF BranchOrdered
<1>5. \A u \in 1 .. k - 1 : u * d \in 1 .. L /\ rp[u] = np[u * d]
  <2>1. (k - 1) * (c + 1) < L /\ (k - 1) * (c + 1) \in Nat
    <3> HIDE DEF L, c, k
    <3>1. (k - 1) * (c + 1) < L /\ L < k * (c + 1)
         /\ k * (c + 1) = (k - 1) * (c + 1) + (c + 1) /\ (k - 1) * (c + 1) \in Nat
      BY <1>1, <1>2, LastPart
    <3> QED BY <3>1
  <2> SUFFICES ASSUME NEW u \in 1 .. k - 1 PROVE u * d \in 1 .. L /\ rp[u] = np[u * d]
    OBVIOUS
  <2>2. u \in Nat /\ k - 1 \in Nat /\ 1 \in Nat /\ u <= k - 1 /\ 1 <= u
    BY <1>1
  <2> HIDE DEF L, c, k
  <2>3. u * d <= (k - 1) * d /\ u * d \in Nat
    BY <1>1, <2>2, TimesMono
  <2>4. 1 * d <= u * d /\ 1 * d = d /\ d >= 1
    <3>1. 1 * d <= u * d
      BY <1>1, <2>2, TimesMono
    <3> QED BY <1>1, <3>1
  <2> DEFINE x == u * d
             y == (k - 1) * d
  <2>5. x <= y /\ x \in Nat /\ y < L /\ y \in Nat /\ d <= x
    BY <2>1, <2>3, <2>4
  <2>6. x \in 1 .. L
    <3> HIDE DEF x, y
    <3> QED BY <1>1, <2>5
  <2> QED BY <1>3, <2>6
<1>6. ASSUME NEW x \in Nat
      PROVE  /\ PartIndex(ChildIndex(n, x)) \in 1 .. k
             /\ ChildIndex(r, x) = PartIndex(ChildIndex(n, x))
  <2> DEFINE y == ChildIndex(n, x)
             p == PartIndex(y)
  <2>1. y \in 1 .. L + 1 /\ \A j \in 1 .. L : j < y <=> np[j] < x
    <3> HIDE DEF L
    <3> QED BY <1>1, <1>4, IndexOfChild
  <2>2. p \in 1 .. k
    <3> HIDE DEF y
    <3> QED BY <1>1, <1>2, <2>1, PartOfChild
  <2>3. ASSUME NEW u \in 1 .. k - 1 PROVE u < p <=> rp[u] < x
    <3>1. u \in Nat
      BY <1>1
    <3>2. u * d < y <=> u < p
      <4> HIDE DEF y, L
      <4> QED BY <1>1, <1>2, <2>1, <3>1, PartsInOrder
    <3>3. u * d \in 1 .. L /\ rp[u] = np[u * d]
      BY <1>5
    <3>4. u * d < y <=> np[u * d] < x
      BY <2>1, <3>3
    <3> QED BY <3>2, <3>3, <3>4
  <2> HIDE DEF p
  <2>4. k - 1 \in Nat /\ DOMAIN rp = 1 .. k - 1 /\ p \in 1 .. k - 1 + 1
    BY <1>1, <1>3, <2>2
  <2> HIDE DEF k, r
  <2>5. \A u \in 1 .. k - 1 : u < p <=> r.pivots[u] < x
    BY <2>3 DEF rp
  <2>6. DOMAIN r.pivots = 1 .. k - 1
    BY <2>4 DEF rp
  <2>7. ChildIndex(r, x) = p
    BY <2>4, <2>5, <2>6, IndexIs
  <2> QED BY <2>2, <2>7 DEF p
<1>7. ASSUME NEW x \in Nat
      PROVE  /\ PartIndex(ChildIndex(n, x)) \in 1 .. k
             /\ ChildOf(r, x) = F + PartIndex(ChildIndex(n, x)) - 1
  <2> DEFINE p == PartIndex(ChildIndex(n, x))
  <2>1. p \in 1 .. k /\ ChildIndex(r, x) = p
    BY <1>6
  <2> HIDE DEF p, k, r
  <2>2. ChildOf(r, x) = rc[p]
    BY <2>1 DEF ChildOf, rc
  <2>3. ChildOf(r, x) = F + p - 1
    BY <1>3, <2>1, <2>2
  <2> QED BY <2>1, <2>3 DEF p
<1>8. Increases(rp)
  <2> SUFFICES ASSUME NEW i \in 1 .. k - 1, NEW j \in 1 .. k - 1, i < j PROVE rp[i] < rp[j]
    BY <1>3 DEF Increases
  <2>1. i * d \in 1 .. L /\ j * d \in 1 .. L /\ rp[i] = np[i * d] /\ rp[j] = np[j * d]
    BY <1>5
  <2>2. i + 1 \in Nat /\ j \in Nat /\ i + 1 <= j /\ i \in Nat
    BY <1>1
  <2> HIDE DEF k, L, c
  <2>3. (i + 1) * d <= j * d
    BY <1>1, <2>2, TimesMono
  <2>4. (i + 1) * d = i * d + d /\ d >= 1
    BY <1>1, <2>2, SMT
  <2> DEFINE x == i * d
             y == j * d
  <2>5. x + d <= y /\ x \in 1 .. L /\ y \in 1 .. L
    BY <2>1, <2>3, <2>4
  <2>6. x < y
    <3> HIDE DEF x, y
    <3> QED BY <1>1, <2>4, <2>5
  <2>7. np[x] < np[y]
    <3> HIDE DEF x, y
    <3> QED BY <1>1, <1>4, <2>5, <2>6 DEF Increases
  <2> QED BY <2>1, <2>7
<1>9. Range(rp) \subseteq Nat
  <2>1. \A u \in 1 .. k - 1 : rp[u] \in Nat
    BY <1>1, <1>4, <1>5 DEF Range
  <2> QED BY <1>3, <2>1 DEF Range
<1>10. \A y \in Range(rc) : home[y] = {x \in Nat : ChildOf(r, x) = y}
  <2> SUFFICES ASSUME NEW i \in 1 .. k PROVE home[F + i - 1] = {x \in Nat : ChildOf(r, x) = F + i - 1}
    BY <1>3 DEF Range
  <2> HIDE DEF k, r
  <2>1. \A x \in Nat : ChildOf(r, x) = F + i - 1 <=> PartIndex(ChildIndex(n, x)) = i
    <3> SUFFICES ASSUME NEW x \in Nat
                 PROVE  ChildOf(r, x) = F + i - 1 <=> PartIndex(ChildIndex(n, x)) = i
      OBVIOUS
    <3> DEFINE p == PartIndex(ChildIndex(n, x))
    <3>1. p \in 1 .. k /\ ChildOf(r, x) = F + p - 1
      BY <1>7
    <3> HIDE DEF p
    <3>2. ChildOf(r, x) = F + i - 1 <=> p = i
      BY <1>1, <3>1
    <3> QED BY <3>2 DEF p
  <2>2. home[F + i - 1] = PartHome(n, i)
    BY DEF k
  <2> QED BY <2>1, <2>2 DEF PartHome
<1>11. BranchOrdered(r, Nat, home)
  BY <1>8, <1>9, <1>10 DEF BranchOrdered, rp, rc
<1> QED BY <1>7, <1>11


LEMMA SplitRootSearch ==
  ASSUME RootN % (ChildPivots + 1) # 0,
         TreeInv, RoomInv, SearchInv, NEW t \in Threads, SplitRoot(t)
  PROVE  SearchInv'
<1> DEFINE n == node[Root]
           F == Fresh
           k == Parts(n)
           root == RootOfParts(n, F)
           target == ChildOf(root, Key(t))
           part(p) == PartOfRoot(n, p - F + 1)
           mine(p) == IF p = target THEN WithUpserts(part(p), Alone(t)) ELSE part(p)
           new == [p \in {Root} \cup ToSet(root.children) |-> IF p = Root THEN root ELSE mine(p)]
           ph(p) == PartHome(n, p - F + 1)
<1>1. pc[t] = "root" /\ ~IsLeaf(Root) /\ exclusiveMode[t] /\ RootIsFull /\ Upserting(t)
  BY DEF SplitRoot, AtRoot, At
<1>2. current[t] = Root /\ access[t][Root] = "write" /\ IsBranch(n)
  BY <1>1, AtRootFacts
<1>3. /\ Root \in Created /\ Created = 1 .. F - 1 /\ F \in Nat /\ F > Root /\ Root = 1
  BY PageNumbers DEF Root
<1>4. F + k - 1 <= MaxPages /\ Change(t, new)
  BY <1>2 DEF SplitRoot, Here, WithUpserts, header
<1>5. PICK b \in BOOLEAN : BranchOK(n, Kin(b))
  BY <1>2, <1>3, BranchKin
<1>6. Len(n.pivots) = RootN /\ Len(n.pivots) >= 1 /\ Len(n.pivots) % (ChildPivots + 1) # 0
  BY <1>1, SizesAssumption DEF RootIsFull
<1>7. k \in Nat \ {0}
  BY <1>5, <1>6, PartsNumber
<1>0. IsInjective(n.children) /\ Kids(n) = Range(n.children) /\ Kids(n) \subseteq Created \ {Root}
  <2>1. Kids(n) = Range(n.children)
    BY <1>2 DEF Kids
  <2>2. IsInjective(n.children)
    BY <1>2, <1>3 DEF RoomInv, ParentsOK
  <2> QED BY <1>3, <2>1, <2>2, KidsInTree
<1>8. node' = new ++ node /\ Answer(t, None)
  BY <1>4 DEF Change, Write
<1>9. PICK home \in [Created -> SUBSET Nat] : HomesPlaces(home)
  BY SearchPicks
<1>10. HomesOK(home) /\ home[Root] = Nat /\ NodeOrdered(n, Nat, home) /\ BranchOrdered(n, Nat, home)
  BY <1>2, <1>3, <1>9 DEF HomesPlaces, HomesOK, NodeOrdered
<1>11. /\ Alone(t) # Empty /\ DOMAIN Alone(t) = {Key(t)} /\ Key(t) \in Nat
  BY <1>1, AloneFacts, KeysAssumption DEF Empty
<1>30. ~IsInner(Root)
  BY <1>2, <1>3, RootShape DEF IsInner
<1> HIDE DEF n, F, k, target
<1>12. /\ root.type = "root" /\ Range(root.children) = F .. F + k - 1
  BY <1>3, <1>5, <1>6, RootPartsFit DEF k
<1> HIDE DEF root
<1>13. /\ DOMAIN new = {Root} \cup (F .. F + k - 1) /\ new[Root] = root
       /\ \A p \in F .. F + k - 1 : new[p] = mine(p) /\ p # Root /\ p \notin Created
  <2>1. ToSet(root.children) = F .. F + k - 1
    BY <1>12 DEF Range, ToSet
  <2>2. \A p \in F .. F + k - 1 : p # Root /\ p \notin Created
    BY <1>3
  <2> HIDE DEF mine
  <2> QED BY <2>1, <2>2
<1> HIDE DEF new
<1>14. NewPages(new, k)
  <2>1. {Root} \cup (F .. F + k - 1) \subseteq 1 .. F + k - 1 /\ F .. F + k - 1 \subseteq {Root} \cup (F .. F + k - 1)
    BY <1>3, <1>7
  <2>2. ({Root} \cup (F .. F + k - 1)) \cap Created = {Root}
    BY <1>3, <1>13
  <2>4. \A p \in DOMAIN new \cap Created : (new[p].type = "inner") <=> IsInner(p)
    BY <1>12, <1>13, <1>30, <2>2
  <2> QED BY <1>4, <1>13, <2>1, <2>4 DEF NewPages, F
<1>15. /\ Created' = 1 .. F + k - 1 /\ \A p \in DOMAIN new : node'[p] = new[p]
       /\ \A p \in Created' \ DOMAIN new : node'[p] = node[p] /\ p \in Created
       /\ Created \subseteq Created'
  BY <1>8, <1>14, <1>7, WriteFacts DEF F
<1>16. /\ Created' = Created \cup (F .. F + k - 1) /\ Root \in Created'
       /\ F .. F + k - 1 \subseteq Created'
  BY <1>3, <1>7, <1>15
<1>17. PICK home2 : home2 = [p \in Created' |-> IF p \in Created THEN home[p] ELSE ph(p)]
  OBVIOUS
<1>18. /\ home2 \in [Created' -> SUBSET Nat] /\ home2[Root] = Nat
       /\ \A p \in F .. F + k - 1 : home2[p] = ph(p)
       /\ \A p \in Created : home2[p] = home[p]
  <2>1. \A p : ph(p) \in SUBSET Nat
    BY DEF PartHome
  <2> HIDE DEF ph
  <2> QED BY <1>3, <1>10, <1>13, <1>15, <1>16, <1>17, <2>1
<1>19. \A i \in 1 .. k : F + i - 1 \in F .. F + k - 1 /\ (F + i - 1) - F + 1 = i
  BY <1>3, <1>7
<1>20. /\ BranchOrdered(root, Nat, home2)
       /\ \A x \in Nat : /\ PartIndex(ChildIndex(n, x)) \in 1 .. k
                         /\ ChildOf(root, x) = F + PartIndex(ChildIndex(n, x)) - 1
  <2>1. \A i \in 1 .. Parts(n) : home2[F + i - 1] = PartHome(n, i)
    BY <1>18, <1>19 DEF k
  <2>2. /\ BranchOrdered(RootOfParts(n, F), Nat, home2)
        /\ \A x \in Nat : /\ PartIndex(ChildIndex(n, x)) \in 1 .. Parts(n)
                           /\ ChildOf(RootOfParts(n, F), x) = F + PartIndex(ChildIndex(n, x)) - 1
    <3> HIDE DEF Kin
    <3> QED BY <1>3, <1>5, <1>6, <1>10, <2>1, PartsRootOrdered
  <2> QED BY <2>2 DEF root, k
<1>21. Key(t) \in ph(target) /\ target \in F .. F + k - 1
  <2> DEFINE i == PartIndex(ChildIndex(n, Key(t)))
  <2>1. i \in 1 .. k /\ target = F + i - 1
    BY <1>11, <1>20 DEF target
  <2>2. Key(t) \in PartHome(n, i)
    BY <1>11 DEF PartHome
  <2> HIDE DEF i
  <2>3. target - F + 1 = i /\ target \in F .. F + k - 1
    BY <1>3, <1>19, <2>1
  <2> QED BY <2>2, <2>3
<1>22. ASSUME NEW p \in F .. F + k - 1
       PROVE  /\ mine(p).type = "inner" /\ mine(p) # Zeros
              /\ Kids(mine(p)) = PartKids(n, p - F + 1) /\ IsBranch(mine(p))
              /\ NodeOrdered(mine(p), ph(p), home2)
  <2> DEFINE q == part(p)
             u == mine(p)
             own == ph(p)
  <2>1. p - F + 1 \in 1 .. Parts(n)
    BY <1>3, <1>7 DEF k
  <2>2. InnerOK(q, Kin(b))
    <3> HIDE DEF Kin
    <3> QED BY <1>5, <1>6, <2>1, PartOfRootShape
  <2>3. q.upserts = Empty
    BY <1>0, <1>5, <1>6, <2>1, PartFacts
  <2>4. BranchOrdered(q, own, home) /\ PartKidsAre(q, n, p - F + 1)
    <3> HIDE DEF Kin
    <3> QED BY <1>0, <1>5, <1>6, <1>10, <2>1, PartOrdered
  <2>5. u = q \/ (p = target /\ u = WithUpserts(q, Alone(t)))
    OBVIOUS
  <2>6. p = target => Key(t) \in own
    BY <1>21
  <2> HIDE DEF q, own
  <2>7. q.type = "inner" /\ q = Inner(q.pivots, q.children, q.upserts)
    BY <2>2 DEF InnerOK
  <2>8. LET w == WithUpserts(q, Alone(t)) IN
        w.type = "inner" /\ w.children = q.children /\ w.pivots = q.pivots /\ w.upserts = Alone(t)
    <3> DEFINE pv == q.pivots
               ch == q.children
               up == q.upserts
               al == Alone(t)
    <3>1. q = Inner(pv, ch, up)
      BY <2>7
    <3> HIDE DEF pv, ch, up, al
    <3>2. WithUpserts(q, al) = Inner(pv, ch, al)
      BY <3>1 DEF WithUpserts, Inner
    <3>3. LET w == WithUpserts(q, al) IN
          w.type = "inner" /\ w.children = ch /\ w.pivots = pv /\ w.upserts = al
      BY <3>2 DEF Inner
    <3> QED BY <3>3 DEF pv, ch, al
  <2> HIDE DEF u
  <2>9. u.type = "inner" /\ u.children = q.children /\ u.pivots = q.pivots
    BY <2>5, <2>7, <2>8
  <2>10. DOMAIN u.upserts \subseteq own
    <3>1. DOMAIN Empty = {}
      BY DEF Empty
    <3> QED BY <1>11, <2>3, <2>5, <2>6, <2>8, <3>1
  <2>11. IsBranch(u) /\ u # Zeros
    BY <2>9 DEF IsBranch, Zeros
  <2>12. Kids(u) = PartKids(n, p - F + 1)
    BY <2>4, <2>9, <2>11 DEF Kids, PartKidsAre
  <2>13. BranchOrdered(u, own, home)
    <3>1. \A x : ChildOf(u, x) = ChildOf(q, x)
      BY <2>9 DEF ChildOf, ChildIndex
    <3> QED BY <2>4, <2>9, <3>1 DEF BranchOrdered
  <2>14. NodeOrdered(u, own, home)
    BY <2>9, <2>10, <2>11, <2>13 DEF NodeOrdered
  <2>15. \A x \in Kids(u) : home2[x] = home[x]
    <3>1. Range(q.children) \subseteq Range(n.children)
      <4>1. BranchOK(n, Kin(b)) /\ DOMAIN n.children = 1 .. Len(n.pivots) + 1
        BY <1>5, BranchFacts
      <4> QED BY <2>4, <4>1 DEF PartKidsAre, PartKids, Range
    <3>2. Kids(u) \subseteq Created
      BY <1>0, <2>9, <2>11, <3>1 DEF Kids
    <3> QED BY <1>18, <3>2
  <2>16. NodeOrdered(u, own, home2)
    BY <2>14, <2>15, OrderedSame
  <2> QED BY <2>9, <2>11, <2>12, <2>16 DEF u, own
<1> HIDE DEF mine, ph
<1>23. \A p \in Created : \A c \in Kids(node[p]) : c \in Created /\ c # Root
  BY KidsInTree
<1>24. root # Zeros /\ IsBranch(root) /\ Kids(root) = F .. F + k - 1
  BY <1>12 DEF Zeros, IsBranch, Kids
<1>25. HomesOK(home2)'
  <2>1. NodeOrdered(root, Nat, home2)
    BY <1>12, <1>20, <1>24 DEF NodeOrdered
  <2>4. \A p \in DOMAIN new : NodeOrdered(new[p], home2[p], home2)
    BY <1>13, <1>18, <1>22, <2>1
  <2>5. \A p \in Created \ DOMAIN new :
          home2[p] = home[p] /\ \A c \in Kids(node[p]) : home2[c] = home[c]
    BY <1>18, <1>23
  <2>6. home2[Root] = Nat /\ home2 \in [Created' -> SUBSET Nat]
    BY <1>18
  <2> QED BY <1>7, <1>8, <1>10, <1>14, <2>4, <2>5, <2>6, HomesWrite
<1>26. \A p \in F .. F + k - 1 : Kids(mine(p)) \subseteq Kids(n)
  <2>1. BranchOK(n, Kin(b)) /\ DOMAIN n.children = 1 .. Len(n.pivots) + 1
    BY <1>5, BranchFacts
  <2>2. \A i : PartKids(n, i) \subseteq Range(n.children)
    BY <2>1 DEF PartKids, Range
  <2> QED BY <1>0, <1>22, <2>2
<1>27. LevelsOK'
  <2>1. PICK height \in [Created -> Nat] : HeightsOK(height)
    BY DEF SearchInv, LevelsOK
  <2>2. NodeLevel(n, height[Root], height) /\ height[Root] \in Nat
    BY <1>3, <2>1 DEF HeightsOK, n
  <2>3. PICK h \in Nat : h = height[Root]
    BY <2>2
  <2>4. PICK height2 : height2 = [p \in Created' |-> IF p = Root THEN h + 1
                                                    ELSE IF p \in Created THEN height[p] ELSE h]
    OBVIOUS
  <2>5. /\ height2 \in [Created' -> Nat] /\ height2[Root] = h + 1
        /\ \A p \in F .. F + k - 1 : height2[p] = h
        /\ \A p \in Created \ {Root} : height2[p] = height[p]
    BY <1>13, <1>16, <2>3, <2>4
  <2>6. NodeLevel(root, h + 1, height2)
    BY <1>24, <2>5 DEF NodeLevel
  <2>7. ASSUME NEW p \in F .. F + k - 1 PROVE NodeLevel(mine(p), h, height2)
    <3>1. \A c \in Kids(n) : height[c] + 1 = h
      BY <1>2, <2>2, <2>3 DEF NodeLevel
    <3>2. \A c \in Kids(mine(p)) : height2[c] + 1 = h
      BY <1>0, <1>26, <2>5, <3>1
    <3> QED BY <1>22, <3>2 DEF NodeLevel
  <2>8. \A p \in DOMAIN new : NodeLevel(new[p], height2[p], height2)
    BY <1>13, <2>5, <2>6, <2>7
  <2>9. \A p \in Created \ DOMAIN new :
          height2[p] = height[p] /\ \A c \in Kids(node[p]) : height2[c] = height[c]
    BY <1>13, <1>23, <2>5
  <2>10. height2 \in [Created' -> Nat]
    BY <2>5
  <2>11. HeightsOK(height2)'
    BY <1>7, <1>8, <1>14, <2>1, <2>8, <2>9, <2>10, HeightsWrite
  <2> QED BY <2>10, <2>11 DEF LevelsOK
<1>28. ReachedOK'
  <2> SUFFICES ASSUME NEW c \in Created' \ {Root} PROVE \E p \in Created' : c \in Kids(node'[p])
    BY DEF ReachedOK, Root, Kids, IsBranch
  <2>1. CASE c \in F .. F + k - 1
    <3>1. node'[Root] = root
      BY <1>13, <1>15
    <3> QED BY <1>16, <1>24, <2>1, <3>1
  <2>2. CASE c \in Created
    <3>1. PICK p \in Created : c \in Kids(node[p])
      BY <2>2 DEF SearchInv, ReachedOK
    <3>2. CASE p = Root
      <4>1. PICK j \in 1 .. Len(n.pivots) + 1 : c = n.children[j]
        <5>1. BranchOK(n, Kin(b)) /\ DOMAIN n.children = 1 .. Len(n.pivots) + 1
          BY <1>5, BranchFacts
        <5> QED BY <1>0, <3>1, <3>2, <5>1 DEF Range, n
      <4>2. PartIndex(j) \in 1 .. k
        <5> DEFINE L == Len(n.pivots)
        <5>1. L \in Nat /\ L % (ChildPivots + 1) # 0 /\ k = (L + ChildPivots) \div (ChildPivots + 1)
          BY <1>5, <1>6, BranchFacts DEF k, Parts
        <5>2. j \in 1 .. L + 1
          OBVIOUS
        <5> HIDE DEF L
        <5> QED BY <5>1, <5>2, PartOfChild
      <4>3. PICK q \in F .. F + k - 1 : q - F + 1 = PartIndex(j)
        BY <1>19, <4>2
      <4>4. c \in Kids(mine(q))
        <5>1. c \in PartKids(n, q - F + 1)
          BY <4>1, <4>3 DEF PartKids
        <5> QED BY <1>22, <5>1
      <4>5. node'[q] = mine(q) /\ q \in Created'
        BY <1>13, <1>15, <1>16
      <4> QED BY <4>4, <4>5
    <3>3. CASE p # Root
      <4>1. p \in Created' \ DOMAIN new
        BY <1>13, <1>15, <1>16, <3>3
      <4> QED BY <1>15, <3>1, <4>1
    <3> QED BY <3>2, <3>3
  <2> QED BY <1>16, <2>1, <2>2
<1>29. OrderOK'
  <2>1. Elsewhere(t) /\ PlaceOK(t, home2)'
    BY <1>8, AnswerPlace
  <2>2. \A p \in Created : access[t][p] # "write" => home2[p] = home[p]
    BY <1>18
  <2> QED BY <1>9, <1>25, <2>1, <2>2, OrderStep
<1> QED BY <1>27, <1>28, <1>29 DEF SearchInv


(***************************************************************************)
(* The invariant about keys, and what it means.                            *)
(***************************************************************************)
LEMMA SearchInit == Init => SearchInv
<1> SUFFICES ASSUME Init PROVE SearchInv
  OBVIOUS
<1>1. Created = {Root} /\ node[Root] = Leaf(Empty)
  BY DEF Init, Created
<1>2. node[Root].type = "leaf" /\ node[Root].pairs = Empty
  BY <1>1, LeafNode DEF Leaf
<1>3. ~IsBranch(node[Root]) /\ node[Root] # Zeros
  BY <1>2 DEF IsBranch, Zeros
<1>4. ReachedOK
  BY <1>1 DEF ReachedOK
<1>5. LevelsOK
  <2> DEFINE height == [p \in Created |-> 0]
  <2>1. height \in [Created -> Nat] /\ HeightsOK(height)
    BY <1>1, <1>3 DEF HeightsOK, NodeLevel
  <2> QED BY <2>1 DEF LevelsOK
<1>6. OrderOK
  <2> DEFINE home == [p \in Created |-> Nat]
  <2>1. home \in [Created -> SUBSET Nat] /\ home[Root] = Nat
    BY <1>1
  <2>2. NodeOrdered(node[Root], Nat, home)
    <3>1. DOMAIN node[Root].pairs = {}
      BY <1>2 DEF Empty
    <3> HIDE DEF home
    <3> QED BY <1>2, <1>3, <3>1 DEF NodeOrdered
  <2> HIDE DEF home
  <2>3. HomesOK(home)
    BY <1>1, <2>1, <2>2 DEF HomesOK
  <2>4. ASSUME NEW t \in Threads PROVE PlaceOK(t, home)
    <3>1. pc[t] = "client" /\ queue[t] = <<>>
      BY DEF Init
    <3> QED BY <3>1 DEF PlaceOK, Range
  <2> QED BY <2>1, <2>3, <2>4 DEF OrderOK
<1> QED BY <1>4, <1>5, <1>6 DEF SearchInv

(* Every step of a thread keeps the invariant: one lemma per action. *)
LEMMA ThreadSearch ==
  ASSUME RootN % (ChildPivots + 1) # 0, TreeInv, RoomInv, SearchInv, NEW t \in Threads, Steps(t)
  PROVE  SearchInv'
<1>1. CASE ReadHeader(t)      BY <1>1, ReadHeaderSearch
<1>2. CASE PinRoot(t)         BY <1>2, PinRootSearch
<1>3. CASE RootLeafKeeps(t)   BY <1>3, RootLeafKeepsSearch
<1>4. CASE RootLeafSplits(t)  BY <1>4, RootLeafSplitsSearch
<1>5. CASE RetryFullRoot(t)   BY <1>5, RetrySearch DEF RetryFullRoot
<1>6. CASE SplitRoot(t)       BY <1>6, SplitRootSearch
<1>7. CASE PinTarget(t)       BY <1>7, PinTargetSearch
<1>8. CASE RetryFullLeaf(t)   BY <1>8, RetrySearch DEF RetryFullLeaf
<1>9. CASE TargetLeafKeeps(t) BY <1>9, TargetLeafKeepsSearch
<1>10. CASE TargetLeafSplits(t) BY <1>10, TargetLeafSplitsSearch
<1>11. CASE StoreUpsert(t)    BY <1>11, StoreUpsertSearch
<1>12. CASE RetryFullTarget(t) BY <1>12, RetrySearch DEF RetryFullTarget
<1>13. CASE FlushTarget(t)    BY <1>13, FlushTargetSearch
<1>14. CASE FlushSplitTarget(t) BY <1>14, FlushSplitTargetSearch
<1>15. CASE \E i \in 1 .. InnerN + 1 : PinFlushChild(t, i)
  BY <1>15, PinFlushChildSearch
<1>16. CASE FlushToLeaves(t)  BY <1>16, FlushToLeavesSearch
<1>17. CASE FlushToInner(t)   BY <1>17, FlushToInnerSearch
<1>18. CASE FindInRootLeaf(t) BY <1>18, QuietAnswerSearch DEF FindInRootLeaf
<1>19. CASE FindChild(t)      BY <1>19, FindChildSearch
<1> QED BY <1>1, <1>2, <1>3, <1>4, <1>5, <1>6, <1>7, <1>8, <1>9, <1>10, <1>11, <1>12, <1>13,
           <1>14, <1>15, <1>16, <1>17, <1>18, <1>19 DEF Steps

(* SearchInv is inductive, next to TreeInv and RoomInv, as long as no page  *)
(* that is dropped had changes the buffer was not told of.                  *)
LEMMA SearchNext ==
  ASSUME RootN % (ChildPivots + 1) # 0
  PROVE  /\ TreeInv /\ RoomInv /\ SearchInv /\ [Next]_vars
         /\ [Evict \/ Close => node' = node]_vars
         => SearchInv'
<1> SUFFICES ASSUME TreeInv, RoomInv, SearchInv, [Next]_vars, [Evict \/ Close => node' = node]_vars
             PROVE  SearchInv'
  OBVIOUS
<1>0. vars' = vars => node' = node /\ call' = call /\ UNCHANGED locals
  BY DEF vars, state, tree, client
<1>1. CASE Evict
  <2>1. node' = node /\ call' = call /\ UNCHANGED locals
    <3>1. node' = node
      BY <1>0, <1>1
    <3> QED BY <1>1, <3>1 DEF Evict, client
  <2> QED BY <2>1, AloneSearch
<1>2. CASE Close
  <2>1. node' = node /\ call' = call /\ UNCHANGED locals
    <3>1. node' = node
      BY <1>0, <1>2
    <3> QED BY <1>2, <3>1 DEF Close, client
  <2> QED BY <2>1, AloneSearch
<1>3. CASE Reopen
  <2>1. node' = node /\ call' = call /\ UNCHANGED locals
    BY <1>3 DEF Reopen
  <2> QED BY <2>1, AloneSearch
<1>4. ASSUME NEW t \in Threads, Steps(t) PROVE SearchInv'
  BY <1>4, ThreadSearch
<1>5. ASSUME NEW t \in Threads, Load(t) PROVE SearchInv'
  <2>1. Begin(t, Preload[loaded + 1])
    BY <1>5 DEF Load
  <2> QED BY <2>1, BeginSearch
<1>6. ASSUME NEW t \in Threads, NEW n \in DOMAIN Operations[t], NEW c \in Operations[t][n], Call(t, c)
      PROVE  SearchInv'
  <2>1. Begin(t, c)
    BY <1>6 DEF Call
  <2> QED BY <2>1, BeginSearch
<1>7. CASE UNCHANGED vars
  <2>1. node' = node /\ call' = call /\ UNCHANGED locals
    BY <1>0, <1>7
  <2> QED BY <2>1, AloneSearch
<1> QED BY <1>1, <1>2, <1>3, <1>4, <1>5, <1>6, <1>7 DEF Next


(* Every page that is not a leaf has children. *)
LEMMA PageKinds ==
  ASSUME TreeInv, NEW home, HomesOK(home), NEW p \in Created
  PROVE  /\ Children(node[p]) = Kids(node[p])
         /\ ~IsLeaf(p) => IsBranch(node[p]) /\ \E b \in BOOLEAN : BranchOK(node[p], Kin(b))
         /\ IsLeaf(p) => ~IsBranch(node[p]) /\ Kids(node[p]) = {}
<1>1. NodeOK(p, node[p], Created \ {Root}) /\ node[p] # Zeros
  BY DEF TreeInv, PagesOK, HomesOK, NodeOrdered
<1>2. IsLeaf(p) \/ IsBranch(node[p])
  BY <1>1 DEF NodeOK, LeafOK, RootOK, InnerOK, IsLeaf, IsBranch
<1>3. IsLeaf(p) => ~IsBranch(node[p])
  BY DEF IsLeaf, IsBranch
<1>4. Children(node[p]) = Kids(node[p])
  BY <1>2, <1>3 DEF Children, Kids, IsLeaf, ToSet, Range
<1> QED BY <1>2, <1>3, <1>4, BranchKin DEF Kids

(* Every page but the root is the child of one node. *)
LEMMA OneParent ==
  ASSUME TreeInv, RoomInv, SearchInv, NEW p \in Created
  PROVE  Cardinality({q \in Created : p \in Children(node[q])}) = IF p = Root THEN 0 ELSE 1
<1> DEFINE S == {q \in Created : p \in Children(node[q])}
<1>0. PICK home : HomesOK(home)
  BY DEF SearchInv, OrderOK
<1>3. \A q \in Created : Children(node[q]) = Kids(node[q])
  BY <1>0, PageKinds
<1>1. CASE p = Root
  <2>1. S = {}
    BY <1>1, <1>3, KidsInTree
  <2> QED BY <1>1, <2>1, FS_EmptySet
<1>2. CASE p # Root
  <2>1. PICK q \in Created : p \in Kids(node[q])
    BY <1>2 DEF SearchInv, ReachedOK
  <2>2. q \in S
    BY <1>3, <2>1
  <2>3. ASSUME NEW r \in S PROVE r = q
    <3>1. p \in Kids(node[r])
      BY <1>3
    <3> QED BY <2>1, <3>1 DEF RoomInv, ParentsOK
  <2>4. S = {q}
    BY <2>2, <2>3
  <2> HIDE DEF S
  <2>5. Cardinality(S) = 1
    BY <2>4, FS_Singleton
  <2> QED BY <1>2, <2>5 DEF S
<1> QED BY <1>1, <1>2

(* Height is the only function that meets its definition. *)
LEMMA HeightIs ==
  ASSUME TreeInv, NEW home, HomesOK(home), NEW height, HeightsOK(height), NEW p \in Created
  PROVE  Height[p] = height[p]
<1>1. /\ height \in [Created -> Nat]
      /\ \A q \in Created : NodeLevel(node[q], height[q], height)
  BY DEF HeightsOK
<1>2. ASSUME NEW q \in Created, ~IsLeaf(q)
      PROVE  /\ node[q].children[1] \in Created
             /\ height[q] = 1 + height[node[q].children[1]]
  <2>1. PICK b \in BOOLEAN : BranchOK(node[q], Kin(b))
    BY <1>2, PageKinds
  <2>2. IsBranch(node[q])
    BY <1>2, PageKinds
  <2>3. DOMAIN node[q].children = 1 .. Len(node[q].pivots) + 1 /\ Len(node[q].pivots) \in Nat
    BY <2>1, BranchFacts
  <2> DEFINE c == node[q].children[1]
  <2>4. c \in Kids(node[q])
    BY <2>2, <2>3 DEF Kids, Range
  <2> HIDE DEF c
  <2>5. c \in Created
    BY <2>4, KidsInTree
  <2>6. height[c] + 1 = height[q]
    BY <1>1, <2>2, <2>4 DEF NodeLevel
  <2>7. height[q] = 1 + height[c]
    BY <1>1, <2>5, <2>6
  <2> QED BY <2>5, <2>7 DEF c
<1>3. height = [q \in Created |-> IF IsLeaf(q) THEN 0 ELSE 1 + height[node[q].children[1]]]
  <2>1. ASSUME NEW q \in Created, IsLeaf(q) PROVE height[q] = 0
    BY <1>1, <2>1, PageKinds, SMTT(30) DEF NodeLevel
  <2> QED BY <1>1, <1>2, <2>1
<1>4. Height = [q \in Created |-> IF IsLeaf(q) THEN 0 ELSE 1 + Height[node[q].children[1]]]
  BY <1>3 DEF Height
<1> DEFINE Wrong == {q \in Created : Height[q] # height[q]}
           S == {height[q] : q \in Wrong}
<1>5. Wrong = {}
  <2> SUFFICES ASSUME Wrong # {} PROVE FALSE
    OBVIOUS
  <2>1. S \subseteq Nat /\ S # {}
    BY <1>1
  <2>2. PICK q \in Wrong : \A r \in Wrong : height[q] <= height[r]
    <3> HIDE DEF Wrong
    <3>1. PICK x \in S : \A y \in S : x <= y
      <4> HIDE DEF S
      <4> QED BY <2>1, LeastNat
    <3> QED BY <3>1
  <2>3. ~IsLeaf(q)
    BY <1>3, <1>4
  <2> DEFINE c == node[q].children[1]
  <2>4. c \in Created /\ height[q] = 1 + height[c] /\ Height[q] = 1 + Height[c]
    BY <1>2, <1>4, <2>3
  <2>5. c \in Wrong
    BY <2>4
  <2>6. height[q] <= height[c] /\ height[c] \in Nat
    BY <1>1, <2>2, <2>4, <2>5
  <2> HIDE DEF c
  <2> QED BY <2>4, <2>6
<1> QED BY <1>5

(* Sets that are unions of each other have a least solution, also on a      *)
(* graph with cycles: a recursive definition by it is well defined.         *)
Joined(p, g, own, kids) == own[p] \cup UNION {g[q] : q \in kids[p]}
Graph(D, V, own, kids) == own \in [D -> SUBSET V] /\ kids \in [D -> SUBSET D]
LEMMA LeastUnion ==
  ASSUME NEW D, NEW V, NEW own, NEW kids, Graph(D, V, own, kids)
  PROVE  \E f \in [D -> SUBSET V] : \A p \in D : f[p] = Joined(p, f, own, kids)
<1> DEFINE J(p, g) == Joined(p, g, own, kids)
           Pre == {g \in [D -> SUBSET V] : \A p \in D : J(p, g) \subseteq g[p]}
           f == [p \in D |-> {v \in V : \A g \in Pre : v \in g[p]}]
           e == [p \in D |-> J(p, f)]
<1>1. ASSUME NEW g \in [D -> SUBSET V], NEW h \in [D -> SUBSET V],
             \A q \in D : g[q] \subseteq h[q], NEW p \in D
      PROVE  J(p, g) \subseteq J(p, h)
  BY <1>1 DEF Joined, Graph
<1>2. ASSUME NEW g \in [D -> SUBSET V], NEW p \in D PROVE J(p, g) \subseteq V
  BY <1>2 DEF Joined, Graph
<1>3. f \in [D -> SUBSET V]
  OBVIOUS
<1> HIDE DEF J
<1>4. \A g \in Pre : \A p \in D : f[p] \subseteq g[p]
  OBVIOUS
<1>5. \A p \in D : J(p, f) \subseteq f[p]
  <2> SUFFICES ASSUME NEW p \in D, NEW v \in J(p, f), NEW g \in Pre PROVE v \in g[p]
    BY <1>2, <1>3
  <2>1. J(p, f) \subseteq J(p, g)
    <3> HIDE DEF f
    <3> QED BY <1>1, <1>3, <1>4
  <2>2. J(p, g) \subseteq g[p]
    OBVIOUS
  <2> QED BY <2>1, <2>2
<1>6. e \in [D -> SUBSET V] /\ \A p \in D : e[p] = J(p, f)
  <2> HIDE DEF f
  <2> QED BY <1>2, <1>3
<1> HIDE DEF e
<1>7. e \in Pre
  <2> SUFFICES ASSUME NEW p \in D PROVE J(p, e) \subseteq e[p]
    BY <1>6
  <2> HIDE DEF f, Pre
  <2>1. \A q \in D : e[q] \subseteq f[q]
    BY <1>5, <1>6
  <2>2. J(p, e) \subseteq J(p, f)
    BY <1>1, <1>3, <1>6, <2>1
  <2> QED BY <1>6, <2>2
<1> HIDE DEF f, Pre
<1>8. \A p \in D : f[p] = J(p, f)
  BY <1>4, <1>5, <1>6, <1>7
<1> QED BY <1>3, <1>8 DEF J

(* The keys a page itself knows of. *)
OwnKeys(p) ==
  IF IsLeaf(p) THEN DOMAIN node[p].pairs
  ELSE IF IsInner(p) THEN DOMAIN node[p].upserts \cup DOMAIN InFlight(p) ELSE {}

(* KeysBelow meets its definition. *)
LEMMA KeysBelowIs ==
  ASSUME TreeInv, NEW home, HomesOK(home)
  PROVE  \A p \in Created : KeysBelow[p] = OwnKeys(p) \cup UNION {KeysBelow[q] : q \in Kids(node[p])}
<1> DEFINE own == [p \in Created |-> OwnKeys(p)]
           kids == [p \in Created |-> Kids(node[p])]
           V == UNION {own[p] : p \in Created}
           inFlight(p) == InFlight(p)
<1>1. own \in [Created -> SUBSET V]
  <2>1. \A p \in Created : own[p] \subseteq V
    <3> HIDE DEF own
    <3> QED OBVIOUS
  <2>2. own = [p \in Created |-> own[p]]
    OBVIOUS
  <2> HIDE DEF own, V
  <2> QED BY <2>1, <2>2
<1>2. kids \in [Created -> SUBSET Created]
  BY KidsInTree
<1>3. PICK f \in [Created -> SUBSET V] :
             \A p \in Created : f[p] = Joined(p, f, own, kids)
  <2>1. Graph(Created, V, own, kids)
    <3> HIDE DEF own, kids, V
    <3> QED BY <1>1, <1>2 DEF Graph
  <2> HIDE DEF own, kids, V
  <2> QED BY <2>1, LeastUnion
<1>4. \A p \in Created : f[p] = OwnKeys(p) \cup UNION {f[q] : q \in Kids(node[p])}
  <2> SUFFICES ASSUME NEW p \in Created
               PROVE  f[p] = OwnKeys(p) \cup UNION {f[q] : q \in Kids(node[p])}
    OBVIOUS
  <2>1. f[p] = own[p] \cup UNION {f[q] : q \in kids[p]}
    <3> HIDE DEF own, kids, V
    <3> QED BY <1>3 DEF Joined
  <2>2. kids[p] = Kids(node[p]) /\ own[p] = OwnKeys(p)
    OBVIOUS
  <2> HIDE DEF own, kids
  <2> QED BY <2>1, <2>2
<1> HIDE DEF V
<1>5. ASSUME NEW g, NEW p \in Created
      PROVE  OwnKeys(p) \cup UNION {g[q] : q \in Kids(node[p])}
             = LET n == node[p] IN
               CASE n.type = "leaf"  -> DOMAIN n.pairs
                 [] n.type = "root"  -> UNION {g[q] : q \in Children(n)}
                 [] n.type = "inner" ->
                      DOMAIN n.upserts \cup DOMAIN InFlight(p) \cup UNION {g[q] : q \in Children(n)}
  <2>1. Children(node[p]) = Kids(node[p])
    BY PageKinds
  <2>2. CASE node[p].type = "leaf"
    <3>1. Kids(node[p]) = {}
      BY <2>2, PageKinds DEF IsLeaf
    <3>2. OwnKeys(p) = DOMAIN node[p].pairs
      BY <2>2 DEF OwnKeys, IsLeaf
    <3> QED BY <2>2, <3>1, <3>2
  <2>3. CASE node[p].type = "root"
    <3>1. OwnKeys(p) = {}
      BY <2>3 DEF OwnKeys, IsLeaf, IsInner
    <3> QED BY <2>1, <2>3, <3>1
  <2>4. CASE node[p].type = "inner"
    <3>1. OwnKeys(p) = DOMAIN node[p].upserts \cup DOMAIN InFlight(p)
      BY <2>4 DEF OwnKeys, IsLeaf, IsInner
    <3> DEFINE u == DOMAIN node[p].upserts
               w == DOMAIN InFlight(p)
               r == UNION {g[q] : q \in Kids(node[p])}
    <3>2. u \cup w \cup r = (u \cup w) \cup r
      OBVIOUS
    <3> QED BY <2>1, <2>4, <3>1, <3>2
  <2>5. node[p].type = "leaf" \/ node[p].type = "root" \/ node[p].type = "inner"
    BY PageKinds DEF IsLeaf, IsBranch
  <2> QED BY <2>2, <2>3, <2>4, <2>5
<1>6. f = [p \in Created |->
            LET n == node[p] IN
            CASE n.type = "leaf"  -> DOMAIN n.pairs
              [] n.type = "root"  -> UNION {f[q] : q \in Children(n)}
              [] n.type = "inner" ->
                   DOMAIN n.upserts \cup DOMAIN InFlight(p) \cup UNION {f[q] : q \in Children(n)}]
  <2>1. f = [p \in Created |-> OwnKeys(p) \cup UNION {f[q] : q \in Kids(node[p])}]
    BY <1>3, <1>4
  <2> DEFINE body(g, p) ==
               LET n == node[p] IN
               CASE n.type = "leaf"  -> DOMAIN n.pairs
                 [] n.type = "root"  -> UNION {g[q] : q \in Children(n)}
                 [] n.type = "inner" ->
                      DOMAIN n.upserts \cup DOMAIN InFlight(p) \cup UNION {g[q] : q \in Children(n)}
  <2>2. \A p \in Created : OwnKeys(p) \cup UNION {f[q] : q \in Kids(node[p])} = body(f, p)
    BY <1>5
  <2> HIDE DEF body
  <2>3. f = [p \in Created |-> body(f, p)]
    BY <2>1, <2>2
  <2> QED BY <2>3 DEF body
<1>7. KeysBelow = [p \in Created |->
            LET n == node[p] IN
            CASE n.type = "leaf"  -> DOMAIN n.pairs
              [] n.type = "root"  -> UNION {KeysBelow[q] : q \in Children(n)}
              [] n.type = "inner" ->
                   DOMAIN n.upserts \cup DOMAIN InFlight(p) \cup UNION {KeysBelow[q] : q \in Children(n)}]
  BY <1>6 DEF KeysBelow
<1> HIDE DEF KeysBelow
<1>8. KeysBelow = [p \in Created |-> OwnKeys(p) \cup UNION {KeysBelow[q] : q \in Kids(node[p])}]
  BY <1>5, <1>7
<1> QED BY <1>8


(* Messages on their way to a child of a page are at home in the page. *)
LEMMA InFlightAtHome ==
  ASSUME NEW home, HomesPlaces(home), NEW p \in Created
  PROVE  DOMAIN InFlight(p) \subseteq home[p]
<1> DEFINE entries == {e \in UNION {ToSet(queue[t]) : t \in Threads} : e.page = p}
           chosen == CHOOSE e \in entries : TRUE
<1>1. CASE entries = {}
  <2>1. InFlight(p) = Empty
    BY <1>1 DEF InFlight
  <2> QED BY <2>1 DEF Empty
<1>2. CASE entries # {}
  <2>1. chosen \in entries
    BY <1>2
  <2>2. InFlight(p) = chosen.messages
    BY <1>2 DEF InFlight
  <2> HIDE DEF chosen
  <2>3. PICK t \in Threads : chosen \in ToSet(queue[t])
    BY <2>1
  <2>4. chosen.page = p
    BY <2>1
  <2>5. chosen \in Range(queue[t])
    BY <2>3 DEF ToSet, Range
  <2>6. DOMAIN chosen.messages \subseteq home[chosen.page]
    BY <2>5 DEF HomesPlaces, PlaceOK
  <2> QED BY <2>2, <2>4, <2>6
<1> QED BY <1>1, <1>2

(* The keys below a page are at home there. *)
LEMMA KeysAtHome ==
  ASSUME TreeInv, NEW home \in [Created -> SUBSET Nat], HomesPlaces(home),
         NEW height, HeightsOK(height)
  PROVE  \A p \in Created : KeysBelow[p] \subseteq home[p]
<1> DEFINE Wrong == {p \in Created : ~(KeysBelow[p] \subseteq home[p])}
           S == {height[p] : p \in Wrong}
<1>1. /\ height \in [Created -> Nat] /\ HomesOK(home)
      /\ \A p \in Created : NodeOrdered(node[p], home[p], home)
      /\ \A p \in Created : NodeLevel(node[p], height[p], height)
  BY DEF HomesPlaces, HomesOK, HeightsOK
<1>2. SUFFICES ASSUME Wrong # {} PROVE FALSE
  OBVIOUS
<1>3. S \subseteq Nat /\ S # {}
  BY <1>1, <1>2
<1>4. PICK x \in S : \A y \in S : x <= y
  <2> HIDE DEF S
  <2> QED BY <1>3, LeastNat
<1>5. PICK p \in Wrong : x = height[p]
  OBVIOUS
<1>6. PICK k \in KeysBelow[p] : k \notin home[p]
  OBVIOUS
<1>7. OwnKeys(p) \subseteq home[p]
  <2>1. NodeOrdered(node[p], home[p], home)
    BY <1>1
  <2>2. DOMAIN InFlight(p) \subseteq home[p]
    BY InFlightAtHome
  <2> QED BY <2>1, <2>2 DEF OwnKeys, IsLeaf, IsInner, NodeOrdered
<1>8. PICK c \in Kids(node[p]) : k \in KeysBelow[c]
  <2>1. KeysBelow[p] = OwnKeys(p) \cup UNION {KeysBelow[q] : q \in Kids(node[p])}
    BY <1>1, KeysBelowIs
  <2> QED BY <1>6, <1>7, <2>1
<1>9. IsBranch(node[p]) /\ c \in Range(node[p].children)
  BY <1>8 DEF Kids
<1>10. c \in Created
  BY <1>8, KidsInTree
<1>11. home[c] = {j \in home[p] : ChildOf(node[p], j) = c}
  BY <1>1, <1>9 DEF NodeOrdered, BranchOrdered
<1>12. c \in Wrong
  BY <1>6, <1>8, <1>10, <1>11
<1>13. height[c] + 1 = height[p] /\ height[c] \in Nat
  BY <1>1, <1>8, <1>9, <1>10 DEF NodeLevel
<1>14. x <= height[c]
  BY <1>4, <1>12
<1> QED BY <1>5, <1>13, <1>14

(* With homes and heights the pages form a search tree. *)
LEMMA SearchTreeIs ==
  ASSUME TreeInv, RoomInv, SearchInv
  PROVE  SearchTree
<1>1. PICK home \in [Created -> SUBSET Nat] : HomesPlaces(home)
  BY SearchPicks
<1>2. PICK height : HeightsOK(height)
  BY DEF SearchInv, LevelsOK
<1>3. /\ HomesOK(home)
      /\ \A p \in Created : NodeOrdered(node[p], home[p], home)
      /\ \A p \in Created : NodeLevel(node[p], height[p], height)
  BY <1>1, <1>2 DEF HomesPlaces, HomesOK, HeightsOK
<1>4. ASSUME NEW p \in Created, ~IsLeaf(p)
      PROVE  /\ \A i, j \in DOMAIN node[p].pivots : i < j => node[p].pivots[i] < node[p].pivots[j]
             /\ \A q \in Children(node[p]) : Height[q] + 1 = Height[p]
  <2>1. IsBranch(node[p]) /\ Children(node[p]) = Kids(node[p])
    BY <1>3, <1>4, PageKinds
  <2>2. Increases(node[p].pivots)
    BY <1>3, <2>1 DEF NodeOrdered, BranchOrdered
  <2>3. ASSUME NEW q \in Children(node[p]) PROVE Height[q] + 1 = Height[p]
    <3>1. q \in Created
      BY <2>1, KidsInTree
    <3>2. height[q] + 1 = height[p]
      BY <1>3, <2>1 DEF NodeLevel
    <3>3. Height[q] = height[q] /\ Height[p] = height[p]
      BY <1>2, <1>3, <3>1, HeightIs
    <3> QED BY <3>2, <3>3
  <2> QED BY <2>2, <2>3 DEF Increases
<1>5. ASSUME NEW p \in Created, ~IsLeaf(p), NEW i \in DOMAIN node[p].children,
             NEW k \in KeysBelow[node[p].children[i]]
      PROVE  ChildIndex(node[p], k) = i
  <2> DEFINE n == node[p]
             c == n.children[i]
             y == ChildIndex(n, k)
  <2>1. IsBranch(n) /\ \E b \in BOOLEAN : BranchOK(n, Kin(b))
    BY <1>3, <1>5, PageKinds
  <2>2. PICK b \in BOOLEAN : BranchOK(n, Kin(b))
    BY <2>1
  <2>3. c \in Kids(n) /\ c \in Range(n.children)
    BY <2>1 DEF Kids, Range
  <2>4. c \in Created
    BY <2>3, KidsInTree
  <2>5. k \in home[c]
    BY <1>1, <1>2, <2>4, KeysAtHome
  <2>6. BranchOrdered(n, home[p], home) /\ home[p] \subseteq Nat
    BY <1>3, <2>1 DEF NodeOrdered
  <2>7. k \in home[p] /\ ChildOf(n, k) = c
    BY <2>3, <2>5, <2>6 DEF BranchOrdered
  <2>8. y \in DOMAIN n.children
    <3> DEFINE L == Len(n.pivots)
    <3>1. /\ L \in Nat /\ DOMAIN n.pivots = 1 .. L /\ DOMAIN n.children = 1 .. L + 1
      BY <2>2, BranchFacts
    <3>2. Increases(n.pivots) /\ Range(n.pivots) \subseteq Nat /\ k \in Nat
      BY <2>6, <2>7 DEF BranchOrdered
    <3> HIDE DEF L, n
    <3>3. y \in 1 .. L + 1
      BY <3>1, <3>2, IndexOfChild
    <3> QED BY <3>1, <3>3
  <2>9. IsInjective(n.children)
    BY <2>1 DEF RoomInv, ParentsOK
  <2>10. n.children[y] = n.children[i]
    BY <2>7 DEF ChildOf
  <2> HIDE DEF n, c, y
  <2>11. y = i
    BY <2>8, <2>9, <2>10 DEF IsInjective, n
  <2> QED BY <2>11 DEF y, n
<1>6. \A p \in Created :
        Cardinality({q \in Created : p \in Children(node[q])}) = IF p = Root THEN 0 ELSE 1
  BY OneParent
<1> QED BY <1>4, <1>5, <1>6 DEF SearchTree

(* Every page but the root is the child of one node, all leaves are equally *)
(* deep, and every pair, every message in a buffer or in a queue and every  *)
(* thread is where a search for the key comes to, whatever the threads do,  *)
(* as long as no page that is dropped had changes the buffer was not told   *)
(* of.                                                                      *)
THEOREM SearchInvariant ==
  ASSUME RootN % (ChildPivots + 1) # 0
  PROVE  Spec /\ NothingForgotten => []SearchInv
<1>1. Init => SearchInv
  BY SearchInit
<1>2. /\ TreeInv /\ RoomInv /\ SearchInv /\ [Next]_vars
      /\ [Evict \/ Close => node' = node]_vars
      => SearchInv'
  BY SearchNext
<1> QED BY <1>1, <1>2, TreeInvariant, RoomInvariant, PTL DEF Spec, NothingForgotten

(* Under the same condition the pages form a search tree between any two    *)
(* steps of any threads: the keys of the pairs and of the messages below a  *)
(* child lie between the pivots around it (find of BeTree.h relies on it).  *)
THEOREM IsSearchTree ==
  ASSUME RootN % (ChildPivots + 1) # 0
  PROVE  Spec /\ NothingForgotten => []SearchTree
<1>1. TreeInv /\ RoomInv /\ SearchInv => SearchTree
  BY SearchTreeIs
<1> QED BY <1>1, SearchInvariant, TreeInvariant, RoomInvariant, PTL
===============================================================================
