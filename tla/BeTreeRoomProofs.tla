-------------------------- MODULE BeTreeRoomProofs --------------------------
(***************************************************************************)
(* Theorems about sizes in the B-epsilon-tree: what fits into nodes,       *)
(* buffers and flushes, for nodes of any size the code accepts.            *)
(***************************************************************************)
EXTENDS BeTreeProofs

(***************************************************************************)
(* Finite sets of numbers.                                                 *)
(***************************************************************************)
(* A part of a finite set is finite and not larger. *)
LEMMA PartOfFinite ==
  ASSUME NEW S, IsFiniteSet(S), NEW T \in SUBSET S
  PROVE  /\ IsFiniteSet(T) /\ Cardinality(T) \in Nat /\ Cardinality(S) \in Nat
         /\ Cardinality(T) <= Cardinality(S)
         /\ Cardinality(S \ T) = Cardinality(S) - Cardinality(T)
<1>1. IsFiniteSet(T) /\ Cardinality(T) <= Cardinality(S)
  BY FS_Subset
<1>2. Cardinality(T) \in Nat /\ Cardinality(S) \in Nat
  BY <1>1, FS_CardinalityType
<1>3. Cardinality(S \ T) = Cardinality(S) - Cardinality(S \cap T) /\ S \cap T = T
  BY FS_Difference
<1> QED BY <1>1, <1>2, <1>3

(* Two finite sets together. *)
LEMMA UnionOfFinite ==
  ASSUME NEW S, NEW T, IsFiniteSet(S), IsFiniteSet(T)
  PROVE  /\ IsFiniteSet(S \cup T) /\ Cardinality(S \cup T) \in Nat
         /\ Cardinality(S) \in Nat /\ Cardinality(T) \in Nat
         /\ Cardinality(S \cup T) <= Cardinality(S) + Cardinality(T)
         /\ S \cap T = {} => Cardinality(S \cup T) = Cardinality(S) + Cardinality(T)
<1>1. /\ IsFiniteSet(S \cup T)
      /\ Cardinality(S \cup T) = Cardinality(S) + Cardinality(T) - Cardinality(S \cap T)
  BY FS_Union
<1>2. Cardinality(S \cap T) \in Nat /\ IsFiniteSet(S \cap T)
  BY PartOfFinite
<1>3. Cardinality(S) \in Nat /\ Cardinality(T) \in Nat /\ Cardinality(S \cup T) \in Nat
  BY <1>1, FS_CardinalityType
<1>4. S \cap T = {} => Cardinality(S \cap T) = 0
  BY FS_EmptySet
<1> QED BY <1>1, <1>2, <1>3, <1>4

(* The n smallest of a set are n, unless the set is smaller. *)
LEMMA SmallestSize ==
  ASSUME NEW S \in SUBSET Nat, IsFiniteSet(S), NEW n \in Nat
  PROVE  /\ Smallest(S, n) \in SUBSET S
         /\ Cardinality(Smallest(S, n)) <= n
         /\ Cardinality(S) >= n => Cardinality(Smallest(S, n)) = n
         /\ Cardinality(S) <= n => Smallest(S, n) = S
<1> DEFINE T == Smallest(S, n)
<1>1. ASSUME NEW k \in S
      PROVE  /\ Cardinality({j \in S : j <= k}) = Rank(S, k) + 1
             /\ Rank(S, k) \in Nat /\ Rank(S, k) < Cardinality(S)
  <2> DEFINE A == {j \in S : j < k}
  <2>1. {j \in S : j <= k} = A \cup {k} /\ k \notin A /\ A \in SUBSET S
    <3>1. \A j \in S : j \in Nat /\ (j <= k <=> j < k \/ j = k)
      OBVIOUS
    <3>2. ~(k < k)
      BY <3>1
    <3> QED BY <3>1, <3>2
  <2> HIDE DEF A
  <2>2. IsFiniteSet(A) /\ Cardinality(A) \in Nat
    BY <2>1, PartOfFinite
  <2>3. Cardinality(A \cup {k}) = Cardinality(A) + 1
    BY <2>1, <2>2, FS_AddElement
  <2>4. Rank(S, k) \in 0 .. Cardinality(S) - 1 /\ Cardinality(S) \in Nat
    BY RankBounds, FS_CardinalityType
  <2>5. Rank(S, k) = Cardinality(A)
    BY DEF Rank, A
  <2> QED BY <2>1, <2>3, <2>4, <2>5
<1>2. T \in SUBSET S /\ \A k \in S : k \in T <=> Rank(S, k) < n
  BY <1>1 DEF Smallest
<1> HIDE DEF T
<1>3. Cardinality(T) <= n
  BY <1>2, RanksFew
<1>4. Cardinality(T) \in Nat /\ Cardinality(S) \in Nat /\ IsFiniteSet(T)
  BY <1>2, PartOfFinite
<1>5. CASE Cardinality(S) >= n
  <2> DEFINE f == [r \in 0 .. n - 1 |-> CHOOSE i \in S : Rank(S, i) = r]
  <2>1. ASSUME NEW r \in 0 .. n - 1 PROVE f[r] \in T /\ Rank(S, f[r]) = r
    <3>1. r \in 0 .. Cardinality(S) - 1
      BY <1>4, <1>5
    <3>2. \E i \in S : Rank(S, i) = r
      BY <3>1, RankOnto
    <3>3. f[r] \in S /\ Rank(S, f[r]) = r
      BY <3>2
    <3>4. r < n
      OBVIOUS
    <3> QED BY <1>2, <3>3, <3>4
  <2>2. f \in [0 .. n - 1 -> T]
    BY <2>1
  <2> HIDE DEF f
  <2>3. f \in Injection(0 .. n - 1, T)
    BY <2>1, <2>2 DEF Injection, IsInjective
  <2>4. IsFiniteSet(0 .. n - 1) /\ Cardinality(0 .. n - 1) = n
    BY FS_Interval
  <2>5. n <= Cardinality(T)
    BY <1>4, <2>3, <2>4, FS_Injection
  <2> QED BY <1>2, <1>3, <1>4, <1>5, <2>5, FS_Subset DEF T
<1>6. CASE Cardinality(S) <= n
  <2>1. \A k \in S : Rank(S, k) < n
    <3> TAKE k \in S
    <3>1. Rank(S, k) \in Nat /\ Rank(S, k) < Cardinality(S)
      BY <1>1
    <3> QED BY <1>4, <1>6, <3>1
  <2> QED BY <1>2, <1>3, <1>4, <1>6, <2>1 DEF T
<1> QED BY <1>4, <1>5, <1>6

(***************************************************************************)
(* Blocks of messages, and which of them are removed.                      *)
(***************************************************************************)
(* removeMessages removes what is needed or everything, and no more than    *)
(* may be flushed; a single message comes with others of its block only.    *)
LEMMA RemovalsFit ==
  ASSUME NEW D \in SUBSET Nat, IsFiniteSet(D), NEW blocks, UNION blocks = D,
         \A X \in blocks : X # {}, \A X, Y \in blocks : X = Y \/ X \cap Y = {},
         NEW needed \in Nat \ {0}, NEW max \in Nat, needed <= max,
         NEW removed \in Removals(blocks, needed, max)
  PROVE  /\ removed \in SUBSET D /\ Cardinality(removed) <= max
         /\ Cardinality(removed) >= needed \/ removed = D
         /\ needed = 1 => \E X \in blocks : removed \in SUBSET X
<1> DEFINE before(T, last) == UNION (T \ {last})
           taken(T, last) ==
             before(T, last) \cup Smallest(last, max - Cardinality(before(T, last)))
       may(T, last) ==
         /\ removed = taken(T, last)
         /\ Cardinality(before(T, last)) < needed
         /\ Cardinality(UNION T) >= needed \/ T = blocks
<1>0. \E T \in SUBSET blocks : \E last \in T : may(T, last)
  <2> DEFINE chosen(T, last) ==
               /\ \A X \in T, Y \in blocks \ T : Cardinality(X) >= Cardinality(Y)
               /\ \A X \in T : Cardinality(X) >= Cardinality(last)
               /\ Cardinality(before(T, last)) < needed
               /\ Cardinality(UNION T) >= needed \/ T = blocks
             all(T) == {taken(T, last) : last \in {X \in T : chosen(T, X)}}
  <2>1. removed \in UNION {all(T) : T \in SUBSET blocks}
    BY Zenon DEF Removals
  <2>2. PICK T \in SUBSET blocks : removed \in all(T)
    <3> HIDE DEF all
    <3> QED BY <2>1
  <2>3. PICK last \in T : chosen(T, last) /\ removed = taken(T, last)
    <3> HIDE DEF chosen, taken
    <3> QED BY <2>2
  <2> QED BY <2>3
<1>a. PICK T \in SUBSET blocks : \E last \in T : may(T, last)
  BY <1>0
<1>1. PICK last \in T : may(T, last)
  BY <1>a
<1> DEFINE B == before(T, last)
           S == Smallest(last, max - Cardinality(B))
<1>2. B \in SUBSET D /\ last \in SUBSET D /\ UNION T \in SUBSET D
  BY <1>1
<1>3. UNION T = B \cup last /\ B \cap last = {}
  <2>1. \A X \in T \ {last} : X \cap last = {}
    BY <1>1
  <2> QED BY <1>1, <2>1
<1>4. removed = B \cup S /\ Cardinality(B) < needed
  BY <1>1
<1>5. needed = 1 => B = {}
  <2> SUFFICES ASSUME needed = 1, NEW X \in T, X # last PROVE FALSE
    OBVIOUS
  <2>1. PICK x \in X : TRUE
    BY <1>1
  <2>2. x \in B /\ {x} \in SUBSET B
    BY <2>1
  <2> HIDE DEF B
  <2>3. IsFiniteSet(B) /\ Cardinality(B) \in Nat
    BY <1>2, PartOfFinite
  <2>4. Cardinality({x}) = 1 /\ Cardinality({x}) <= Cardinality(B)
    BY <2>2, <2>3, FS_Singleton, PartOfFinite
  <2> QED BY <1>4, <2>3, <2>4
<1> HIDE DEF B
<1>6. /\ IsFiniteSet(B) /\ Cardinality(B) \in Nat
      /\ IsFiniteSet(last) /\ Cardinality(last) \in Nat
  <2> HIDE DEF S, may, taken
  <2>0. B \in SUBSET D /\ last \in SUBSET D
    BY <1>2
  <2>1. IsFiniteSet(B) /\ Cardinality(B) \in Nat
    BY <2>0, PartOfFinite, Zenon
  <2>2. IsFiniteSet(last) /\ Cardinality(last) \in Nat
    BY <2>0, PartOfFinite, Zenon
  <2> QED BY <2>1, <2>2
<1> DEFINE rest == max - Cardinality(B)
<1>7. rest \in Nat /\ Cardinality(B) + rest = max
  BY <1>4, <1>6
<1>8. last \in SUBSET Nat /\ S = Smallest(last, rest)
  BY <1>2
<1> HIDE DEF rest, S
<1>9. /\ S \in SUBSET last /\ Cardinality(S) <= rest
      /\ Cardinality(last) >= rest => Cardinality(S) = rest
      /\ Cardinality(last) <= rest => S = last
  BY <1>6, <1>7, <1>8, SmallestSize
<1>10. IsFiniteSet(S) /\ Cardinality(S) \in Nat /\ B \cap S = {}
  <2> HIDE DEF may, taken, before
  <2>1. S \in SUBSET last /\ IsFiniteSet(last)
    BY <1>6, <1>9
  <2>2. IsFiniteSet(S) /\ Cardinality(S) \in Nat
    BY <2>1, PartOfFinite
  <2>3. B \cap S = {}
    BY <1>3, <2>1
  <2> QED BY <2>2, <2>3
<1>11. Cardinality(removed) = Cardinality(B) + Cardinality(S)
  BY <1>4, <1>6, <1>10, UnionOfFinite
<1>12. removed \in SUBSET D /\ Cardinality(removed) <= max
  BY <1>2, <1>4, <1>6, <1>7, <1>9, <1>10, <1>11
<1>13. Cardinality(UNION T) = Cardinality(B) + Cardinality(last)
  BY <1>3, <1>6, UnionOfFinite
<1>14. Cardinality(removed) >= needed \/ removed = D
  <2>1. CASE Cardinality(last) >= rest
    BY <1>6, <1>7, <1>9, <1>10, <1>11, <2>1
  <2>2. CASE ~(Cardinality(last) >= rest)
    <3>1. S = last
      BY <1>6, <1>7, <1>9, <2>2
    <3>2. CASE T = blocks
      BY <1>3, <1>4, <3>1, <3>2
    <3>3. CASE Cardinality(UNION T) >= needed
      BY <1>11, <1>13, <3>1, <3>3
    <3> QED BY <1>1, <3>2, <3>3
  <2> QED BY <2>1, <2>2
<1>15. needed = 1 => removed \in SUBSET last
  BY <1>4, <1>5, <1>9
<1> QED BY <1>1, <1>12, <1>14, <1>15

(* The messages about keys for the same child form a block. *)
IndexesOf(n, messages) == {ChildIndex(n, k) : k \in DOMAIN messages}
BlockOf(n, messages, i) == {k \in DOMAIN messages : ChildIndex(n, k) = i}
LEMMA BlocksPartition ==
  ASSUME NEW n, NEW below, BranchOK(n, below), NEW messages
  PROVE  /\ UNION Blocks(n, messages) = DOMAIN messages
         /\ \A X \in Blocks(n, messages) : X # {}
         /\ \A X, Y \in Blocks(n, messages) : X = Y \/ X \cap Y = {}
         /\ IsFiniteSet(Blocks(n, messages))
         /\ Cardinality(Blocks(n, messages)) \in Nat
         /\ Cardinality(Blocks(n, messages)) <= Len(n.pivots) + 1
         /\ IsFiniteSet(IndexesOf(n, messages))
         /\ IndexesOf(n, messages) \in SUBSET (1 .. Len(n.pivots) + 1)
         /\ Cardinality(IndexesOf(n, messages)) = Cardinality(Blocks(n, messages))
<1> DEFINE I == IndexesOf(n, messages)
           bs == Blocks(n, messages)
           f == [i \in I |-> BlockOf(n, messages, i)]
<1>1. bs = {BlockOf(n, messages, i) : i \in I}
  BY DEF Blocks, IndexesOf, BlockOf
<1>2. \A k \in DOMAIN messages : ChildIndex(n, k) \in I /\ k \in BlockOf(n, messages, ChildIndex(n, k))
  BY DEF IndexesOf, BlockOf
<1>3. \A i \in I : \E k \in DOMAIN messages : i = ChildIndex(n, k)
  BY DEF IndexesOf
<1>4. I \in SUBSET (1 .. Len(n.pivots) + 1)
  <2>1. \A k \in DOMAIN messages : ChildIndex(n, k) \in 1 .. Len(n.pivots) + 1
    BY ChildIndexType
  <2> QED BY <2>1 DEF IndexesOf
<1>5. Len(n.pivots) \in Nat
  BY BranchFacts
<1>6. /\ IsFiniteSet(1 .. Len(n.pivots) + 1)
      /\ Cardinality(1 .. Len(n.pivots) + 1) = Len(n.pivots) + 1
  BY <1>5, FS_Interval
<1> HIDE DEF I, bs
<1>7. IsFiniteSet(I) /\ Cardinality(I) <= Len(n.pivots) + 1 /\ Cardinality(I) \in Nat
  BY <1>4, <1>6, PartOfFinite
<1>8. f \in [I -> bs]
  BY <1>1
<1>9. \A i, j \in I : f[i] = f[j] => i = j
  <2> TAKE i, j \in I
  <2>1. PICK k \in DOMAIN messages : i = ChildIndex(n, k)
    BY <1>3
  <2>2. k \in f[i]
    BY <1>2, <2>1
  <2>3. \A x \in f[j] : ChildIndex(n, x) = j
    BY DEF BlockOf
  <2> QED BY <2>1, <2>2, <2>3
<1>10. \A X \in bs : \E i \in I : f[i] = X
  BY <1>1
<1> HIDE DEF f
<1>11. f \in Surjection(I, bs) /\ f \in Injection(I, bs)
  BY <1>8, <1>9, <1>10 DEF Surjection, Injection, IsInjective
<1>12. IsFiniteSet(bs) /\ Cardinality(bs) = Cardinality(I)
  BY <1>7, <1>11, FS_Surjection
<1>13. UNION bs = DOMAIN messages
  <2>1. \A i \in I : BlockOf(n, messages, i) \in SUBSET DOMAIN messages
    BY DEF BlockOf
  <2> QED BY <1>1, <1>2, <2>1
<1>14. \A X \in bs : X # {}
  BY <1>1, <1>2, <1>3
<1>15. \A X, Y \in bs : X = Y \/ X \cap Y = {}
  <2> TAKE X, Y \in bs
  <2>1. PICK i \in I, j \in I : X = BlockOf(n, messages, i) /\ Y = BlockOf(n, messages, j)
    BY <1>1
  <2> QED BY <2>1 DEF BlockOf
<1> QED BY <1>4, <1>7, <1>12, <1>13, <1>14, <1>15 DEF I, bs

(* Fewer messages have no more blocks, and those of one block have one.     *)
LEMMA BlocksOfFewer ==
  ASSUME NEW n, NEW below, BranchOK(n, below), NEW messages, NEW X \in Blocks(n, messages),
         NEW fewer, DOMAIN fewer \in SUBSET X
  PROVE  Cardinality(Blocks(n, fewer)) <= 1
<1>1. PICK i : X = BlockOf(n, messages, i)
  BY DEF Blocks, BlockOf
<1>2. IndexesOf(n, fewer) \in SUBSET {i}
  BY <1>1 DEF IndexesOf, BlockOf
<1>3. IsFiniteSet({i}) /\ Cardinality({i}) = 1
  BY FS_Singleton
<1>4. Cardinality(IndexesOf(n, fewer)) <= 1
  BY <1>2, <1>3, PartOfFinite
<1> QED BY <1>4, BlocksPartition

(* Blocks depend on the pivots only. *)
LEMMA BlocksOfPivots ==
  ASSUME NEW m, NEW n, m.pivots = n.pivots, NEW messages
  PROVE  Blocks(m, messages) = Blocks(n, messages)
<1>1. \A k : ChildIndex(m, k) = ChildIndex(n, k)
  BY DEF ChildIndex
<1> QED BY <1>1 DEF Blocks

(***************************************************************************)
(* Buffers of messages.                                                    *)
(***************************************************************************)
Typed(f) == DOMAIN f \subseteq Keys /\ Range(f) \subseteq Messages(Nat, Nat)

(* What is about keys is finite. *)
LEMMA FiniteKeys ==
  ASSUME NEW S \in SUBSET Keys
  PROVE  S \in SUBSET Nat /\ IsFiniteSet(S) /\ Cardinality(S) \in Nat
BY KeysAssumption, PartOfFinite

(* Squashed upserts have natural values again.                              *)
LEMMA SquashNat ==
  ASSUME NEW a \in Messages(Nat, Nat), NEW b \in Messages(Nat, Nat)
  PROVE  Squash(a, b) \in Messages(Nat, Nat)
<1>1. ASSUME NEW c \in Messages(Nat, Nat), NEW d \in Messages(Nat, Nat)
      PROVE  SquashOrdered(c, d) \in Messages(Nat, Nat)
  <2>1. CASE d.type # "update"
    BY <2>1 DEF SquashOrdered
  <2>2. CASE d.type = "update" /\ c.type = "erase"
    BY <2>2 DEF SquashOrdered
  <2>3. CASE d.type = "update" /\ c.type # "erase"
    <3>1. SquashOrdered(c, d) = Upsert(c.type, c.value + d.value, d.timeStamp)
      BY <2>3 DEF SquashOrdered
    <3> QED BY <3>1 DEF Upsert, Messages, UpsertType
  <2> QED BY <2>1, <2>2, <2>3
<1> QED BY <1>1 DEF Squash

(* Merging two buffers gives one that is not larger than both together. *)
LEMMA MergeFits ==
  ASSUME NEW f, NEW g, Typed(f), Typed(g)
  PROVE  /\ Typed(MergeUpserts(f, g))
         /\ DOMAIN MergeUpserts(f, g) = DOMAIN f \cup DOMAIN g
         /\ Size(MergeUpserts(f, g)) <= Size(f) + Size(g)
         /\ Size(f) \in Nat /\ Size(g) \in Nat /\ Size(MergeUpserts(f, g)) \in Nat
<1> DEFINE h == MergeUpserts(f, g)
<1>1. DOMAIN h = DOMAIN f \cup DOMAIN g
  BY DEF MergeUpserts
<1>2. ASSUME NEW k \in DOMAIN f \cup DOMAIN g PROVE h[k] \in Messages(Nat, Nat)
  <2>1. h[k] = IF k \notin DOMAIN g THEN f[k]
               ELSE IF k \notin DOMAIN f THEN g[k] ELSE Squash(f[k], g[k])
    BY DEF MergeUpserts
  <2>2. /\ k \in DOMAIN f => f[k] \in Messages(Nat, Nat)
        /\ k \in DOMAIN g => g[k] \in Messages(Nat, Nat)
    BY DEF Typed, Range
  <2> QED BY <2>1, <2>2, SquashNat
<1> HIDE DEF h
<1>3. Typed(h)
  BY <1>1, <1>2 DEF Typed, Range
<1>4. /\ IsFiniteSet(DOMAIN f) /\ IsFiniteSet(DOMAIN g)
  BY FiniteKeys DEF Typed
<1> QED BY <1>1, <1>3, <1>4, UnionOfFinite DEF h, Size

(* A part of a buffer. *)
LEMMA RestrictFits ==
  ASSUME NEW f, Typed(f), NEW A \in SUBSET DOMAIN f
  PROVE  /\ Typed(Restrict(f, A)) /\ DOMAIN Restrict(f, A) = A
         /\ Size(Restrict(f, A)) = Cardinality(A) /\ Cardinality(A) \in Nat
         /\ Size(Restrict(f, A)) <= Size(f) /\ Size(f) \in Nat
<1>1. DOMAIN Restrict(f, A) = A /\ \A k \in A : Restrict(f, A)[k] = f[k]
  BY DEF Restrict
<1>2. Typed(Restrict(f, A))
  BY <1>1 DEF Typed, Range
<1>3. IsFiniteSet(DOMAIN f)
  BY FiniteKeys DEF Typed
<1> QED BY <1>1, <1>2, <1>3, PartOfFinite DEF Size

(* The messages up to a key, or above it, are not more than all of them. *)
LEMMA HalfFits ==
  ASSUME NEW f, NEW max, IsMessages(f, max), max \in Nat, NEW k
  PROVE  /\ IsMessages(UpTo(f, k), max) /\ IsMessages(Above(f, k), max)
         /\ DOMAIN UpTo(f, k) \in SUBSET DOMAIN f /\ DOMAIN Above(f, k) \in SUBSET DOMAIN f
<1>1. Typed(f) /\ Size(f) <= max
  BY DEF Typed, IsMessages
<1>2. ASSUME NEW A \in SUBSET DOMAIN f
      PROVE  IsMessages(Restrict(f, A), max) /\ DOMAIN Restrict(f, A) = A
  <2>1. Typed(Restrict(f, A)) /\ Size(Restrict(f, A)) <= Size(f) /\ Size(f) \in Nat
        /\ Size(Restrict(f, A)) \in Nat /\ DOMAIN Restrict(f, A) = A
    BY <1>1, RestrictFits
  <2> QED BY <1>1, <2>1 DEF IsMessages, Typed
<1> DEFINE A == {j \in DOMAIN f : j <= k}
           B == {j \in DOMAIN f : j > k}
<1>3. UpTo(f, k) = Restrict(f, A) /\ Above(f, k) = Restrict(f, B)
  BY DEF UpTo, Above
<1>4. A \in SUBSET DOMAIN f /\ B \in SUBSET DOMAIN f
  OBVIOUS
<1> HIDE DEF A, B
<1> QED BY <1>2, <1>3, <1>4

(* removeMessages leaves what fits into the buffer, and removes what may be *)
(* flushed.                                                                 *)
LEMMA KeepFits ==
  ASSUME NEW n, NEW below, InnerOK(n, below), IsMessages(n.upserts, InnerBN),
         NEW additional, IsMessages(additional, MAX_FLUSH_SIZE),
         Size(n.upserts) + Size(additional) > InnerBN,
         NEW removed \in Removed(n, additional)
  PROVE  LET kept == Keep(n, additional, removed)
             out  == Restrict(Together(n, additional), removed)
         IN
         /\ InnerOK(kept, below) /\ kept.pivots = n.pivots /\ kept.children = n.children
         /\ IsMessages(kept.upserts, InnerBN)
         /\ IsMessages(out, MAX_FLUSH_SIZE)
         /\ Size(n.upserts) + Size(additional) = InnerBN + 1 =>
              Cardinality(Blocks(n, out)) <= 1
<1> DEFINE all == Together(n, additional)
           out == Restrict(all, removed)
           left == Restrict(all, DOMAIN all \ removed)
           needed == Size(n.upserts) + Size(additional) - InnerBN
<1>1. Typed(n.upserts) /\ Typed(additional)
  BY DEF IsMessages, Typed
<1>2. /\ Typed(all) /\ Size(all) <= Size(n.upserts) + Size(additional)
      /\ Size(all) \in Nat /\ Size(n.upserts) \in Nat /\ Size(additional) \in Nat
  BY <1>1, MergeFits DEF Together
<1>3. /\ Size(n.upserts) <= InnerBN /\ Size(additional) <= MAX_FLUSH_SIZE
      /\ InnerBN \in Nat /\ MAX_FLUSH_SIZE \in Nat
  BY SizesAssumption DEF IsMessages, MAX_FLUSH_SIZE
<1>4. needed \in Nat \ {0} /\ needed <= MAX_FLUSH_SIZE /\ Size(all) <= InnerBN + needed
  BY <1>2, <1>3
<1>5. removed \in Removals(Blocks(n, all), needed, MAX_FLUSH_SIZE)
  BY DEF Removed
<1>6. /\ UNION Blocks(n, all) = DOMAIN all
      /\ \A X \in Blocks(n, all) : X # {}
      /\ \A X, Y \in Blocks(n, all) : X = Y \/ X \cap Y = {}
  BY BlocksPartition DEF InnerOK
<1>7. Keep(n, additional, removed) = WithUpserts(n, left)
  BY DEF Keep, WithUpserts
<1>14. InnerOK(Keep(n, additional, removed), below)
       /\ Keep(n, additional, removed).pivots = n.pivots
       /\ Keep(n, additional, removed).children = n.children
  BY <1>7, WithUpsertsShape
<1>15. Keep(n, additional, removed).upserts = left
  <2>1. n = Inner(n.pivots, n.children, n.upserts)
    BY DEF InnerOK
  <2>2. "upserts" \in DOMAIN n
    BY <2>1 DEF Inner
  <2> QED BY <1>7, <2>2 DEF WithUpserts
<1>16. needed = 1 <=> Size(n.upserts) + Size(additional) = InnerBN + 1
  BY <1>2, <1>3
<1> HIDE DEF all, needed
<1>8. DOMAIN all \in SUBSET Nat /\ IsFiniteSet(DOMAIN all) /\ Size(all) = Cardinality(DOMAIN all)
  BY <1>2, FiniteKeys DEF Typed, Size
<1> DEFINE D == DOMAIN all
           blocks == Blocks(n, all)
<1>9. /\ removed \in SUBSET D /\ Cardinality(removed) <= MAX_FLUSH_SIZE
      /\ Cardinality(removed) >= needed \/ removed = D
      /\ needed = 1 => \E X \in blocks : removed \in SUBSET X
  <2>1. /\ D \in SUBSET Nat /\ IsFiniteSet(D) /\ UNION blocks = D
        /\ \A X \in blocks : X # {}
        /\ \A X, Y \in blocks : X = Y \/ X \cap Y = {}
    BY <1>6, <1>8
  <2>2. removed \in Removals(blocks, needed, MAX_FLUSH_SIZE)
    BY <1>5
  <2> HIDE DEF D, blocks, out, left
  <2> QED BY <1>3, <1>4, <2>1, <2>2, RemovalsFit, ZenonT(30)
<1>10. Typed(out) /\ DOMAIN out = removed /\ Size(out) = Cardinality(removed)
  BY <1>2, <1>9, RestrictFits
<1>11. Typed(left) /\ Size(left) = Cardinality(DOMAIN all \ removed)
  BY <1>2, <1>9, RestrictFits
<1>12. /\ Cardinality(removed) \in Nat
       /\ Cardinality(DOMAIN all \ removed) = Size(all) - Cardinality(removed)
  BY <1>8, <1>9, PartOfFinite
<1>13. Size(left) <= InnerBN
  <2>1. CASE Cardinality(removed) >= needed
    BY <1>2, <1>3, <1>4, <1>11, <1>12, <2>1
  <2>2. CASE removed = DOMAIN all
    BY <1>2, <1>3, <1>8, <1>11, <1>12, <2>2
  <2> QED BY <1>9, <2>1, <2>2
<1>17. needed = 1 => Cardinality(Blocks(n, out)) <= 1
  BY <1>9, <1>10, BlocksOfFewer DEF InnerOK
<1> HIDE DEF left, out
<1>18. IsMessages(left, InnerBN) /\ IsMessages(out, MAX_FLUSH_SIZE)
  BY <1>9, <1>10, <1>11, <1>13 DEF IsMessages, Typed
<1> QED BY <1>14, <1>15, <1>16, <1>17, <1>18 DEF out, all


(***************************************************************************)
(* Leaves.                                                                 *)
(***************************************************************************)
LEMMA GreatestNat ==
  ASSUME NEW S \in SUBSET Nat, IsFiniteSet(S), S # {}
  PROVE  \E m \in S : \A x \in S : x <= m
<1>1. Cardinality(S) \in Nat /\ Cardinality(S) # 0
  BY FS_CardinalityType, FS_EmptySet
<1>2. Cardinality(S) - 1 \in 0 .. Cardinality(S) - 1
  BY <1>1
<1>3. PICK m \in S : Rank(S, m) = Cardinality(S) - 1
  BY <1>2, RankOnto
<1>4. ASSUME NEW x \in S PROVE x <= m
  <2>1. CASE m < x
    <3>1. Rank(S, m) < Rank(S, x) /\ Rank(S, x) \in 0 .. Cardinality(S) - 1
      BY <2>1, RankBounds, RankLess
    <3> QED BY <1>1, <1>3, <3>1
  <2> QED BY <2>1
<1> QED BY <1>4

(* findMedianKey: what is up to the median has no more keys than half of    *)
(* the two sets, rounded up, and so has the rest (rounded down).            *)
LEMMA MedianHalves ==
  ASSUME NEW P \in SUBSET Nat, NEW M \in SUBSET Nat, IsFiniteSet(P), IsFiniteSet(M),
         P \cup M # {}
  PROVE  LET k == FindMedianKey(P, M)
             middle == (Cardinality(P) + Cardinality(M) + 1) \div 2
             lower == {j \in P : j <= k} \cup {j \in M : j <= k}
             upper == {j \in P : j > k} \cup {j \in M : j > k}
         IN
         /\ k \in Nat /\ k \in P \cup M
         /\ Cardinality(lower) <= middle
         /\ Cardinality(upper) <= Cardinality(P) + Cardinality(M) - middle
<1> DEFINE below(S, k) == Cardinality({j \in S : j <= k})
           middle == (Cardinality(P) + Cardinality(M) + 1) \div 2
           K == {k \in P \cup M : below(P, k) + below(M, k) >= middle}
           m == FindMedianKey(P, M)
<1>1. /\ IsFiniteSet(P \cup M) /\ P \cup M \in SUBSET Nat
      /\ Cardinality(P) \in Nat /\ Cardinality(M) \in Nat
  BY UnionOfFinite
<1>2. ASSUME NEW S \in SUBSET Nat, IsFiniteSet(S), NEW k \in Nat
      PROVE  /\ below(S, k) \in Nat
             /\ Cardinality({j \in S : j > k}) = Cardinality(S) - below(S, k)
             /\ Cardinality({j \in S : j > k}) \in Nat
             /\ IsFiniteSet({j \in S : j > k}) /\ IsFiniteSet({j \in S : j <= k})
  <2> DEFINE A == {j \in S : j <= k}
  <2>1. A \in SUBSET S /\ S \ A = {j \in S : j > k}
    <3>1. \A j \in S : j > k <=> ~(j <= k)
      BY <1>2
    <3> QED BY <3>1
  <2> HIDE DEF A
  <2>2. /\ IsFiniteSet(A) /\ Cardinality(A) \in Nat
        /\ Cardinality(S \ A) = Cardinality(S) - Cardinality(A)
    BY <1>2, <2>1, PartOfFinite
  <2>3. S \ A \in SUBSET S /\ Cardinality(S \ A) \in Nat /\ IsFiniteSet(S \ A)
    BY <1>2, PartOfFinite
  <2> QED BY <2>1, <2>2, <2>3 DEF A
<1>3. m = Min(K)
  BY DEF FindMedianKey
<1>4. middle \in Nat /\ middle >= 1 /\ middle <= Cardinality(P) + Cardinality(M)
  <2>1. Cardinality(P) + Cardinality(M) >= 1
    <3>1. Cardinality(P) # 0 \/ Cardinality(M) # 0
      BY FS_EmptySet
    <3> QED BY <1>1, <3>1
  <2> DEFINE c == Cardinality(P) + Cardinality(M)
  <2>2. c \in Nat /\ c >= 1 /\ middle = (c + 1) \div 2
    BY <1>1, <2>1
  <2> HIDE DEF c, middle
  <2>3. middle \in Nat /\ middle >= 1 /\ middle <= c
    BY <2>2
  <2> QED BY <2>3 DEF c
<1> HIDE DEF middle
<1>5. K # {}
  <2>1. PICK g \in P \cup M : \A x \in P \cup M : x <= g
    BY <1>1, GreatestNat
  <2>2. {j \in P : j <= g} = P /\ {j \in M : j <= g} = M
    BY <2>1
  <2>3. below(P, g) + below(M, g) >= middle
    BY <1>1, <1>4, <2>2
  <2> QED BY <2>3
<1>6. K \subseteq Nat
  BY <1>1
<1>7. m \in K /\ \A y \in K : m <= y
  <2> HIDE DEF K
  <2> QED BY <1>3, <1>5, <1>6, LeastNat DEF Min
<1>8. m \in P \cup M /\ m \in Nat /\ below(P, m) + below(M, m) >= middle
  BY <1>1, <1>7
<1> DEFINE A == {j \in P : j < m}
           B == {j \in M : j < m}
<1>9. \A k \in P \cup M : k < m => below(P, k) + below(M, k) < middle
  <2> SUFFICES ASSUME NEW k \in P \cup M, k < m PROVE below(P, k) + below(M, k) < middle
    OBVIOUS
  <2>1. k \in Nat /\ ~(m <= k)
    BY <1>1, <1>8
  <2>2. k \notin K
    <3> HIDE DEF K
    <3> QED BY <1>7, <2>1
  <2>3. ~(below(P, k) + below(M, k) >= middle)
    BY <2>2
  <2>4. below(P, k) \in Nat /\ below(M, k) \in Nat
    BY <1>2, <2>1
  <2> QED BY <1>4, <2>3, <2>4
<1> HIDE DEF K, m
<1>10. /\ A \in SUBSET P /\ B \in SUBSET M
       /\ IsFiniteSet(A) /\ IsFiniteSet(B) /\ Cardinality(A) \in Nat /\ Cardinality(B) \in Nat
  <2>1. A \in SUBSET P /\ B \in SUBSET M
    OBVIOUS
  <2> HIDE DEF A, B
  <2> QED BY <2>1, PartOfFinite
<1>11. Cardinality(A) + Cardinality(B) < middle
  <2>1. CASE A \cup B = {}
    <3>1. A = {} /\ B = {}
      BY <2>1
    <3> HIDE DEF A, B
    <3> QED BY <1>4, <3>1, FS_EmptySet
  <2>2. CASE A \cup B # {}
    <3>1. PICK g \in A \cup B : \A x \in A \cup B : x <= g
      <4>1. A \cup B \in SUBSET Nat
        BY <1>10, <1>1
      <4> HIDE DEF A, B
      <4> QED BY <1>10, <2>2, <4>1, GreatestNat, UnionOfFinite
    <3>2. g \in P \cup M /\ g < m /\ g \in Nat
      BY <1>1
    <3>3. \A j \in P \cup M : j <= g <=> j < m
      <4>1. \A j \in P \cup M : j \in Nat
        BY <1>1
      <4>2. \A j \in P \cup M : j < m => j <= g
        BY <3>1
      <4> QED BY <1>8, <3>2, <4>1, <4>2
    <3>4. {j \in P : j <= g} = A /\ {j \in M : j <= g} = B
      BY <3>3
    <3> QED BY <1>9, <3>2, <3>4
  <2> QED BY <2>1, <2>2
<1> DEFINE lower == {j \in P : j <= m} \cup {j \in M : j <= m}
           upper == {j \in P : j > m} \cup {j \in M : j > m}
<1>12. lower \in SUBSET ((A \cup B) \cup {m})
  <2>1. \A j \in P \cup M : j <= m => j < m \/ j = m
    BY <1>1, <1>8
  <2> QED BY <2>1
<1> HIDE DEF A, B
<1>13. Cardinality(lower) <= middle
  <2>1. /\ IsFiniteSet(A \cup B) /\ Cardinality(A \cup B) <= Cardinality(A) + Cardinality(B)
        /\ Cardinality(A \cup B) \in Nat
    BY <1>10, UnionOfFinite
  <2>2. IsFiniteSet({m}) /\ Cardinality({m}) = 1
    BY FS_Singleton
  <2>3. /\ IsFiniteSet((A \cup B) \cup {m})
        /\ Cardinality((A \cup B) \cup {m}) <= Cardinality(A \cup B) + 1
        /\ Cardinality((A \cup B) \cup {m}) \in Nat
    BY <2>1, <2>2, UnionOfFinite
  <2> HIDE DEF lower
  <2>4. Cardinality(lower) \in Nat /\ Cardinality(lower) <= Cardinality((A \cup B) \cup {m})
    BY <1>12, <2>3, PartOfFinite
  <2> QED BY <1>4, <1>10, <1>11, <2>1, <2>3, <2>4
<1>14. Cardinality(upper) <= Cardinality(P) + Cardinality(M) - middle
  <2> DEFINE U == {j \in P : j > m}
             V == {j \in M : j > m}
  <2>1. /\ Cardinality(U) = Cardinality(P) - below(P, m) /\ Cardinality(U) \in Nat /\ IsFiniteSet(U)
        /\ Cardinality(V) = Cardinality(M) - below(M, m) /\ Cardinality(V) \in Nat /\ IsFiniteSet(V)
        /\ below(P, m) \in Nat /\ below(M, m) \in Nat
    BY <1>2, <1>8
  <2>2. upper = U \cup V
    OBVIOUS
  <2> HIDE DEF upper, U, V
  <2>3. Cardinality(U \cup V) <= Cardinality(U) + Cardinality(V) /\ Cardinality(U \cup V) \in Nat
    BY <2>1, UnionOfFinite
  <2> QED BY <1>1, <1>4, <1>8, <2>1, <2>2, <2>3
<1> QED BY <1>8, <1>13, <1>14 DEF m, middle

(* What messages make of the pairs of a leaf: those with new keys come from *)
(* inserts, and those that are erased are gone.                             *)
PairsTyped(f) == DOMAIN f \subseteq Keys /\ Range(f) \subseteq Nat
LEMMA ApplyTyped ==
  ASSUME NEW f, PairsTyped(f), NEW m, Typed(m)
  PROVE  LET g == Apply(f, m) IN
         /\ PairsTyped(g) /\ DOMAIN g \subseteq DOMAIN f \cup DOMAIN m
         /\ \A k \in DOMAIN g \ DOMAIN f : m[k].type = "insert"
         /\ \A k \in DOMAIN m : m[k].type = "erase" => k \notin DOMAIN g
<1> DEFINE g == Apply(f, m)
<1>1. /\ DOMAIN g = {k \in DOMAIN f \cup DOMAIN m : EffectOn(f, m, k) # None}
      /\ \A k \in DOMAIN g : g[k] = EffectOn(f, m, k)
  BY DEF Apply
<1> HIDE DEF g
<1>2. None \notin Nat
  BY NoneAssumption
<1>3. ASSUME NEW k \in DOMAIN f \cup DOMAIN m
      PROVE  /\ EffectOn(f, m, k) \in Nat \cup {None}
             /\ k \notin DOMAIN f /\ EffectOn(f, m, k) # None => m[k].type = "insert"
             /\ k \in DOMAIN m /\ m[k].type = "erase" => EffectOn(f, m, k) = None
  <2>1. CASE k \notin DOMAIN m
    <3>1. EffectOn(f, m, k) = f[k] /\ k \in DOMAIN f
      BY <2>1 DEF EffectOn
    <3>2. f[k] \in Nat
      BY <3>1 DEF PairsTyped, Range
    <3> QED BY <2>1, <3>1, <3>2
  <2>2. CASE k \in DOMAIN m
    <3> DEFINE v == ValueIn(f, k)
    <3>1. EffectOn(f, m, k) = Effect(m[k], v)
      BY <2>2 DEF EffectOn
    <3>2. v = IF k \in DOMAIN f THEN f[k] ELSE None
      BY DEF ValueIn
    <3>3. k \in DOMAIN f => f[k] \in Nat
      BY DEF PairsTyped, Range
    <3>4. m[k] \in Messages(Nat, Nat)
      BY <2>2 DEF Typed, Range
    <3> HIDE DEF v
    <3>5. m[k].type \in UpsertType /\ m[k].value \in Nat
      BY <3>4 DEF Messages
    <3>6. CASE m[k].type = "insert"
      BY <3>1, <3>5, <3>6 DEF Effect
    <3>7. CASE m[k].type = "update"
      <4>1. Effect(m[k], v) = IF v = None THEN None ELSE v + m[k].value
        BY <3>7 DEF Effect
      <4>2. k \notin DOMAIN f => v = None
        BY <3>2
      <4>3. v = None \/ v \in Nat
        BY <3>2, <3>3
      <4>4. v \in Nat => v + m[k].value \in Nat
        BY <3>5
      <4> QED BY <3>1, <3>7, <4>1, <4>2, <4>3, <4>4
    <3>8. CASE m[k].type = "erase"
      BY <3>1, <3>8 DEF Effect
    <3> QED BY <3>5, <3>6, <3>7, <3>8 DEF UpsertType
  <2> QED BY <2>1, <2>2
<1>4. DOMAIN g \subseteq DOMAIN f \cup DOMAIN m
  BY <1>1
<1>5. \A k \in DOMAIN g : g[k] \in Nat
  BY <1>1, <1>3
<1>6. DOMAIN g \subseteq Keys
  BY <1>4 DEF PairsTyped, Typed
<1>7. PairsTyped(g)
  BY <1>5, <1>6 DEF PairsTyped, Range
<1>8. \A k \in DOMAIN g \ DOMAIN f : m[k].type = "insert"
  BY <1>1, <1>3
<1>9. \A k \in DOMAIN m : m[k].type = "erase" => k \notin DOMAIN g
  BY <1>1, <1>3
<1> QED BY <1>4, <1>7, <1>8, <1>9 DEF g

(* A leaf has room for one message, unless it inserts a key in a full one. *)
LEMMA OneMessageFits ==
  ASSUME NEW f, PairsTyped(f), Size(f) <= LeafN, NEW m, Typed(m), NEW k, DOMAIN m = {k},
         m[k].type # "insert" \/ k \in DOMAIN f \/ Size(f) # LeafN
  PROVE  IsNode(Leaf(Apply(f, m)))
<1> DEFINE g == Apply(f, m)
<1>1. /\ PairsTyped(g) /\ DOMAIN g \subseteq DOMAIN f \cup DOMAIN m
      /\ \A j \in DOMAIN g \ DOMAIN f : m[j].type = "insert"
  BY ApplyTyped
<1> HIDE DEF g
<1>2. /\ IsFiniteSet(DOMAIN f) /\ IsFiniteSet({k}) /\ Cardinality({k}) = 1
      /\ IsFiniteSet(DOMAIN f \cup {k}) /\ Cardinality(DOMAIN f \cup {k}) \in Nat
      /\ Cardinality(DOMAIN f) \in Nat
      /\ Cardinality(DOMAIN f \cup {k}) <= Cardinality(DOMAIN f) + 1
  BY FiniteKeys, FS_Singleton, UnionOfFinite DEF PairsTyped
<1>3. Size(g) <= LeafN
  <2>1. CASE DOMAIN g \subseteq DOMAIN f
    <3>1. Cardinality(DOMAIN g) <= Cardinality(DOMAIN f) /\ Cardinality(DOMAIN g) \in Nat
      BY <1>2, <2>1, PartOfFinite
    <3> QED BY <1>2, <3>1, SizesAssumption DEF Size
  <2>2. CASE ~(DOMAIN g \subseteq DOMAIN f)
    <3>1. PICK j \in DOMAIN g \ DOMAIN f : TRUE
      BY <2>2
    <3>2. j = k /\ m[k].type = "insert" /\ k \notin DOMAIN f
      BY <1>1, <3>1
    <3>3. Cardinality(DOMAIN f) + 1 <= LeafN
      BY <1>2, <3>2, SizesAssumption DEF Size
    <3>4. Cardinality(DOMAIN g) <= Cardinality(DOMAIN f \cup {k}) /\ Cardinality(DOMAIN g) \in Nat
      BY <1>1, <1>2, PartOfFinite
    <3> QED BY <1>2, <3>3, <3>4, SizesAssumption DEF Size
  <2> QED BY <2>1, <2>2
<1> QED BY <1>1, <1>3 DEF IsNode, Leaf, PairsTyped, g

(* The halves of a leaf at the median of its keys and those of up to        *)
(* LEAF_N - 1 messages have room for what comes to them, in any order.      *)
LEMMA HalvesFitLeaf ==
  ASSUME NEW f, PairsTyped(f), Size(f) <= LeafN, NEW m, IsMessages(m, MAX_FLUSH_SIZE),
         DOMAIN f \cup DOMAIN m # {}
  PROVE  LET k == LeafMedian(f, m) IN
         /\ k \in Nat
         /\ PairsTyped(UpTo(f, k)) /\ PairsTyped(Above(f, k))
         /\ Typed(UpTo(m, k)) /\ Typed(Above(m, k))
         /\ Cardinality(DOMAIN UpTo(f, k) \cup DOMAIN UpTo(m, k)) <= LeafN
         /\ Cardinality(DOMAIN Above(f, k) \cup DOMAIN Above(m, k)) <= LeafN
         /\ IsFiniteSet(DOMAIN UpTo(f, k) \cup DOMAIN UpTo(m, k))
         /\ IsFiniteSet(DOMAIN Above(f, k) \cup DOMAIN Above(m, k))
<1> DEFINE P == DOMAIN f
           M == DOMAIN m
           k == LeafMedian(f, m)
           p == Cardinality(P)
           q == Cardinality(M)
           middle == (p + q + 1) \div 2
           lower == {j \in P : j <= k} \cup {j \in M : j <= k}
           upper == {j \in P : j > k} \cup {j \in M : j > k}
<1>1. /\ P \in SUBSET Nat /\ M \in SUBSET Nat /\ IsFiniteSet(P) /\ IsFiniteSet(M)
      /\ p \in Nat /\ q \in Nat /\ Typed(m)
  BY FiniteKeys DEF PairsTyped, IsMessages, Typed
<1>2. p <= LeafN /\ q <= LeafN - 1 /\ LeafN \in Nat
  BY SizesAssumption DEF Size, IsMessages, MAX_FLUSH_SIZE
<1>3. /\ DOMAIN UpTo(f, k) = {j \in P : j <= k} /\ DOMAIN Above(f, k) = {j \in P : j > k}
      /\ DOMAIN UpTo(m, k) = {j \in M : j <= k} /\ DOMAIN Above(m, k) = {j \in M : j > k}
      /\ \A j \in DOMAIN UpTo(f, k) : UpTo(f, k)[j] = f[j]
      /\ \A j \in DOMAIN Above(f, k) : Above(f, k)[j] = f[j]
      /\ \A j \in DOMAIN UpTo(m, k) : UpTo(m, k)[j] = m[j]
      /\ \A j \in DOMAIN Above(m, k) : Above(m, k)[j] = m[j]
  BY DEF UpTo, Above, Restrict
<1>4. k = FindMedianKey(P, M)
  BY DEF LeafMedian
<1> HIDE DEF k
<1>5. PairsTyped(UpTo(f, k)) /\ PairsTyped(Above(f, k))
  BY <1>3 DEF PairsTyped, Range
<1>6. Typed(UpTo(m, k)) /\ Typed(Above(m, k))
  BY <1>1, <1>3 DEF Typed, Range
<1> HIDE DEF P, M
<1>7. k \in Nat /\ Cardinality(lower) <= middle /\ Cardinality(upper) <= p + q - middle
  <2>1. P \cup M # {}
    BY DEF P, M
  <2> QED BY <1>1, <1>4, <2>1, MedianHalves
<1>8. lower \in SUBSET (P \cup M) /\ upper \in SUBSET (P \cup M) /\ IsFiniteSet(P \cup M)
  BY <1>1, UnionOfFinite
<1>9. /\ IsFiniteSet(lower) /\ IsFiniteSet(upper)
      /\ Cardinality(lower) \in Nat /\ Cardinality(upper) \in Nat
  <2> HIDE DEF lower, upper
  <2> QED BY <1>8, PartOfFinite
<1>10. middle <= LeafN /\ p + q - middle <= LeafN /\ middle \in Nat
  <2> HIDE DEF p, q
  <2> QED BY <1>1, <1>2
<1> HIDE DEF middle
<1>11. Cardinality(lower) <= LeafN /\ Cardinality(upper) <= LeafN
  BY <1>1, <1>2, <1>7, <1>9, <1>10
<1> QED BY <1>3, <1>5, <1>6, <1>7, <1>9, <1>11 DEF k, P, M

(* The size counted ahead is not too small. *)
LEMMA FutureSizeBounds ==
  ASSUME NEW f, PairsTyped(f), NEW m, Typed(m)
  PROVE  /\ Size(Apply(f, m)) <= FutureSize(f, m)
         /\ Size(Apply(f, m)) \in Nat /\ FutureSize(f, m) \in Int
<1> DEFINE P == DOMAIN f
           G == DOMAIN Apply(f, m)
           known == {k \in DOMAIN f : k = Min(DOMAIN f)}
           inserts == {k \in DOMAIN m : m[k].type = "insert"}
           deletes == {k \in DOMAIN m : m[k].type = "erase"}
           gone == deletes \cap known
           come == inserts \ known
           rest == P \ gone
<1>1. /\ G \subseteq P \cup DOMAIN m /\ PairsTyped(Apply(f, m))
      /\ \A k \in G \ P : m[k].type = "insert"
      /\ \A k \in DOMAIN m : m[k].type = "erase" => k \notin G
  BY ApplyTyped
<1>2. FutureSize(f, m) = Cardinality(P) + Cardinality(come) - Cardinality(gone)
  BY DEF FutureSize, Size
<1>3. known \subseteq P
  OBVIOUS
<1> HIDE DEF known
<1>4. G \subseteq rest \cup come
  BY <1>1, <1>3
<1>5. gone \in SUBSET P /\ come \in SUBSET DOMAIN m
  BY <1>3
<1>6. IsFiniteSet(P) /\ IsFiniteSet(DOMAIN m)
  BY FiniteKeys DEF PairsTyped, Typed
<1> HIDE DEF P, G, gone, come
<1>7. /\ Cardinality(gone) \in Nat /\ Cardinality(P) \in Nat
      /\ Cardinality(rest) = Cardinality(P) - Cardinality(gone)
      /\ IsFiniteSet(come)
  BY <1>5, <1>6, PartOfFinite
<1>8. IsFiniteSet(rest)
  <2>1. rest \in SUBSET P
    OBVIOUS
  <2> HIDE DEF rest
  <2> QED BY <1>6, <2>1, PartOfFinite
<1> HIDE DEF rest
<1>9. /\ IsFiniteSet(rest \cup come) /\ Cardinality(rest \cup come) \in Nat
      /\ Cardinality(rest) \in Nat /\ Cardinality(come) \in Nat
      /\ Cardinality(rest \cup come) <= Cardinality(rest) + Cardinality(come)
  BY <1>7, <1>8, UnionOfFinite
<1>10. Cardinality(G) <= Cardinality(rest \cup come) /\ Cardinality(G) \in Nat
  BY <1>4, <1>9, PartOfFinite
<1>11. Size(Apply(f, m)) = Cardinality(G)
  BY DEF Size, G
<1> QED BY <1>2, <1>7, <1>9, <1>10, <1>11

(* Applying what is up to some key leaves no more pairs than there are keys *)
(* in all.                                                                  *)
LEMMA ApplyBelow ==
  ASSUME NEW f, PairsTyped(f), NEW m, Typed(m), NEW n \in Nat,
         IsFiniteSet(DOMAIN f \cup DOMAIN m), Cardinality(DOMAIN f \cup DOMAIN m) <= n
  PROVE  /\ Size(Apply(f, m)) <= n
         /\ \A k : Size(Apply(f, UpTo(m, k))) <= n
<1>1. ASSUME NEW g, Typed(g), DOMAIN g \subseteq DOMAIN m
      PROVE  Size(Apply(f, g)) <= n
  <2> DEFINE all == DOMAIN f \cup DOMAIN m
  <2>1. DOMAIN Apply(f, g) \subseteq all
    BY <1>1, ApplyTyped
  <2>2. IsFiniteSet(all) /\ Cardinality(all) <= n
    OBVIOUS
  <2> HIDE DEF all
  <2>3. /\ Cardinality(DOMAIN Apply(f, g)) <= Cardinality(all)
        /\ Cardinality(DOMAIN Apply(f, g)) \in Nat /\ Cardinality(all) \in Nat
    BY <2>1, <2>2, PartOfFinite
  <2> QED BY <2>2, <2>3 DEF Size
<1>2. ASSUME NEW k PROVE Typed(UpTo(m, k)) /\ DOMAIN UpTo(m, k) \subseteq DOMAIN m
  <2>1. /\ DOMAIN UpTo(m, k) = {j \in DOMAIN m : j <= k}
        /\ \A j \in DOMAIN UpTo(m, k) : UpTo(m, k)[j] = m[j]
    BY DEF UpTo, Restrict
  <2> QED BY <2>1 DEF Typed, Range
<1> QED BY <1>1, <1>2

(* The estimate by which leaves are split is safe: a leaf that is not split *)
(* has room at every message, and so have the halves of one that is.        *)
FitsAll(f, m) == \A k \in DOMAIN m : Size(Apply(f, UpTo(m, k))) <= LeafN
LEMMA LeavesFit ==
  ASSUME NEW f, PairsTyped(f), Size(f) <= LeafN, NEW m, IsMessages(m, MAX_FLUSH_SIZE)
  PROVE  LET k == LeafMedian(f, m) IN
         IF NeedsSplit(f, m)
         THEN /\ FitsAll(UpTo(f, k), UpTo(m, k)) /\ FitsAll(Above(f, k), Above(m, k))
              /\ IsNode(Leaf(Apply(UpTo(f, k), UpTo(m, k))))
              /\ IsNode(Leaf(Apply(Above(f, k), Above(m, k))))
         ELSE FitsAll(f, m) /\ IsNode(Leaf(Apply(f, m)))
<1> DEFINE k == LeafMedian(f, m)
<1>1. Typed(m) /\ LeafN \in Nat
  BY SizesAssumption DEF IsMessages, Typed
<1>2. ASSUME NEW g, PairsTyped(g), NEW h, Typed(h), Size(Apply(g, h)) <= LeafN
      PROVE  IsNode(Leaf(Apply(g, h)))
  <2>1. PairsTyped(Apply(g, h))
    BY <1>2, ApplyTyped
  <2> QED BY <1>2, <2>1 DEF IsNode, Leaf, PairsTyped
<1>3. CASE NeedsSplit(f, m)
  <2>1. DOMAIN f \cup DOMAIN m # {}
    BY <1>3 DEF NeedsSplit
  <2>2. /\ PairsTyped(UpTo(f, k)) /\ PairsTyped(Above(f, k))
        /\ Typed(UpTo(m, k)) /\ Typed(Above(m, k))
        /\ Cardinality(DOMAIN UpTo(f, k) \cup DOMAIN UpTo(m, k)) <= LeafN
        /\ Cardinality(DOMAIN Above(f, k) \cup DOMAIN Above(m, k)) <= LeafN
        /\ IsFiniteSet(DOMAIN UpTo(f, k) \cup DOMAIN UpTo(m, k))
        /\ IsFiniteSet(DOMAIN Above(f, k) \cup DOMAIN Above(m, k))
    BY <2>1, HalvesFitLeaf
  <2> HIDE DEF k
  <2> DEFINE fl == UpTo(f, k)
             ml == UpTo(m, k)
             fr == Above(f, k)
             mr == Above(m, k)
  <2> HIDE DEF fl, ml, fr, mr
  <2>3. Size(Apply(fl, ml)) <= LeafN /\ FitsAll(fl, ml)
    BY <1>1, <2>2, ApplyBelow DEF FitsAll, fl, ml
  <2>4. Size(Apply(fr, mr)) <= LeafN /\ FitsAll(fr, mr)
    BY <1>1, <2>2, ApplyBelow DEF FitsAll, fr, mr
  <2>5. IsNode(Leaf(Apply(fl, ml))) /\ IsNode(Leaf(Apply(fr, mr)))
    BY <1>2, <2>2, <2>3, <2>4 DEF fl, ml, fr, mr
  <2> QED BY <1>3, <2>3, <2>4, <2>5 DEF fl, ml, fr, mr, k
<1>4. CASE ~NeedsSplit(f, m)
  <2>1. ASSUME NEW j \in DOMAIN m
        PROVE  Typed(UpTo(m, j)) /\ Size(Apply(f, UpTo(m, j))) <= LeafN
    <3>1. FutureSize(f, UpTo(m, j)) <= LeafN
      <4>1. ~(FutureSize(f, UpTo(m, j)) > LeafN)
        BY <1>4 DEF NeedsSplit
      <4>2. FutureSize(f, UpTo(m, j)) \in Int
        <5>1. Typed(UpTo(m, j))
          BY HalfFits, SizesAssumption DEF IsMessages, Typed, MAX_FLUSH_SIZE
        <5> QED BY <5>1, FutureSizeBounds
      <4> QED BY <1>1, <4>1, <4>2
    <3>2. Typed(UpTo(m, j))
      BY HalfFits, SizesAssumption DEF IsMessages, Typed, MAX_FLUSH_SIZE
    <3>3. Size(Apply(f, UpTo(m, j))) <= FutureSize(f, UpTo(m, j))
          /\ Size(Apply(f, UpTo(m, j))) \in Nat /\ FutureSize(f, UpTo(m, j)) \in Int
      BY <3>2, FutureSizeBounds
    <3> QED BY <1>1, <3>1, <3>2, <3>3
  <2>2. Size(Apply(f, m)) <= LeafN
    <3>1. CASE DOMAIN m = {}
      <4>1. DOMAIN f \cup DOMAIN m = DOMAIN f /\ IsFiniteSet(DOMAIN f)
        BY <3>1, FiniteKeys DEF PairsTyped
      <4> QED BY <1>1, <4>1, ApplyBelow DEF Size
    <3>2. CASE DOMAIN m # {}
      <4>1. DOMAIN m \in SUBSET Nat /\ IsFiniteSet(DOMAIN m)
        BY <1>1, FiniteKeys DEF Typed
      <4>2. PICK j \in DOMAIN m : \A x \in DOMAIN m : x <= j
        BY <3>2, <4>1, GreatestNat
      <4>3. {x \in DOMAIN m : x <= j} = DOMAIN m
        BY <4>2
      <4>4. /\ DOMAIN UpTo(m, j) = DOMAIN m
            /\ \A x \in DOMAIN m : UpTo(m, j)[x] = m[x]
        BY <4>3 DEF UpTo, Restrict
      <4>5. Apply(f, UpTo(m, j)) = Apply(f, m)
        <5>1. \A x : EffectOn(f, UpTo(m, j), x) = EffectOn(f, m, x)
          BY <4>4 DEF EffectOn
        <5> QED BY <4>4, <5>1 DEF Apply
      <4> QED BY <2>1, <4>5
    <3> QED BY <3>1, <3>2
  <2>3. IsNode(Leaf(Apply(f, m)))
    BY <1>1, <1>2, <2>2
  <2> QED BY <1>4, <2>1, <2>3 DEF FitsAll
<1> QED BY <1>3, <1>4

(***************************************************************************)
(* Sequences without duplicates.                                           *)
(***************************************************************************)
LEMMA JoinedDistinct ==
  ASSUME NEW S, NEW a \in Seq(S), NEW b \in Seq(S), IsInjective(a), IsInjective(b),
         Range(a) \cap Range(b) = {}
  PROVE  IsInjective(a \o b) /\ Range(a \o b) = Range(a) \cup Range(b)
<1> DEFINE c == a \o b
           l == Len(a)
           r == Len(b)
<1>1. /\ DOMAIN a = 1 .. l /\ DOMAIN b = 1 .. r /\ l \in Nat /\ r \in Nat
  BY LenProperties
<1>2. /\ DOMAIN c = 1 .. l + r
      /\ \A i \in 1 .. l + r : c[i] = IF i <= l THEN a[i] ELSE b[i - l]
  <2>1. c \in Seq(S) /\ Len(c) = l + r
        /\ \A i \in 1 .. Len(c) : c[i] = IF i <= l THEN a[i] ELSE b[i - l]
    BY ConcatProperties
  <2> QED BY <2>1, LenProperties
<1> HIDE DEF c, l, r
<1>3. \A i \in 1 .. l : a[i] \in Range(a)
  BY <1>1 DEF Range
<1>4. \A i \in 1 .. r : b[i] \in Range(b)
  BY <1>1 DEF Range
<1>5. ASSUME NEW i \in 1 .. l + r
      PROVE  \/ i \in 1 .. l /\ c[i] = a[i] /\ c[i] \in Range(a)
             \/ i - l \in 1 .. r /\ c[i] = b[i - l] /\ c[i] \in Range(b) /\ ~(i <= l)
  <2>1. CASE i <= l
    BY <1>1, <1>2, <1>3, <2>1
  <2>2. CASE ~(i <= l)
    <3>1. i - l \in 1 .. r
      BY <1>1, <2>2
    <3> QED BY <1>2, <1>4, <2>2, <3>1
  <2> QED BY <2>1, <2>2
<1>6. IsInjective(c)
  <2> SUFFICES ASSUME NEW i \in 1 .. l + r, NEW j \in 1 .. l + r, c[i] = c[j]
               PROVE  i = j
    BY <1>2 DEF IsInjective
  <2>1. CASE i \in 1 .. l /\ c[i] = a[i] /\ c[i] \in Range(a)
    <3>1. j \in 1 .. l /\ c[j] = a[j]
      BY <1>5, <2>1
    <3> QED BY <1>1, <2>1, <3>1 DEF IsInjective
  <2>2. CASE i - l \in 1 .. r /\ c[i] = b[i - l] /\ c[i] \in Range(b)
    <3>1. j - l \in 1 .. r /\ c[j] = b[j - l]
      BY <1>5, <2>2
    <3>2. i - l = j - l
      BY <1>1, <2>2, <3>1 DEF IsInjective
    <3> QED BY <1>1, <3>2
  <2> QED BY <1>5, <2>1, <2>2
<1>7. Range(c) = Range(a) \cup Range(b)
  BY RangeConcatenation DEF c
<1> QED BY <1>6, <1>7 DEF c

(* Sequences without common elements joined. *)
LEMMA FlattenedDistinct ==
  ASSUME NEW S, NEW n \in Nat \ {0}, NEW s \in [1 .. n -> Seq(S)],
         \A i \in 1 .. n : IsInjective(s[i]),
         \A i, j \in 1 .. n : i # j => Range(s[i]) \cap Range(s[j]) = {}
  PROVE  /\ IsInjective(FlattenSeq(s)) /\ FlattenSeq(s) \in Seq(S)
         /\ Range(FlattenSeq(s)) = UNION {Range(s[i]) : i \in 1 .. n}
<1>1. PICK f \in [1 .. n -> Seq(S)] : Flattened(f, s, n)
  BY Flattens
<1> DEFINE upTo(m) == UNION {Range(s[i]) : i \in 1 .. m}
           good(m) == IsInjective(f[m]) /\ Range(f[m]) = upTo(m)
           Bad == {m \in 1 .. n : ~good(m)}
<1>2. Bad = {}
  <2> SUFFICES ASSUME Bad # {} PROVE FALSE
    OBVIOUS
  <2>1. PICK m \in Bad : \A y \in Bad : m <= y
    <3>1. Bad \subseteq Nat
      OBVIOUS
    <3> HIDE DEF Bad
    <3> QED BY <3>1, LeastNat
  <2>2. m \in 1 .. n /\ ~good(m)
    BY <2>1
  <2>3. CASE m = 1
    <3>1. f[1] = s[1] /\ 1 \in 1 .. n
      BY <1>1 DEF Flattened
    <3>2. upTo(1) = Range(s[1])
      <4>1. 1 .. 1 = {1}
        OBVIOUS
      <4> QED BY <4>1
    <3> QED BY <2>2, <2>3, <3>1, <3>2
  <2>4. CASE m # 1
    <3>1. m - 1 \in 1 .. n /\ m \in 2 .. n /\ ~(m <= m - 1) /\ m \notin 1 .. m - 1
      BY <2>2, <2>4
    <3>2. m - 1 \notin Bad
      <4> HIDE DEF Bad
      <4> QED BY <2>1, <3>1
    <3>3. good(m - 1)
      BY <3>1, <3>2
    <3>4. f[m] = f[m - 1] \o s[m]
      BY <1>1, <3>1 DEF Flattened
    <3>5. f[m - 1] \in Seq(S) /\ s[m] \in Seq(S) /\ IsInjective(s[m])
      BY <2>2, <3>1
    <3>6. 1 .. m = (1 .. m - 1) \cup {m}
      BY <2>2, <2>4
    <3>7. upTo(m) = upTo(m - 1) \cup Range(s[m])
      <4> HIDE DEF Bad, good
      <4> QED BY <3>6
    <3>8. Range(f[m - 1]) \cap Range(s[m]) = {}
      <4>1. \A i \in 1 .. m - 1 : i \in 1 .. n /\ i # m
        BY <2>2, <3>1, SMTT(30)
      <4>2. \A i \in 1 .. m - 1 : Range(s[i]) \cap Range(s[m]) = {}
        BY <2>2, <4>1
      <4>3. Range(f[m - 1]) = upTo(m - 1)
        BY <3>3
      <4> HIDE DEF Bad, good
      <4> QED BY <4>2, <4>3
    <3>9. IsInjective(f[m - 1]) /\ Range(f[m - 1]) = upTo(m - 1)
      BY <3>3
    <3> HIDE DEF upTo, Bad
    <3>10. IsInjective(f[m]) /\ Range(f[m]) = Range(f[m - 1]) \cup Range(s[m])
      BY <3>4, <3>5, <3>8, <3>9, JoinedDistinct
    <3>11. good(m)
      BY <3>7, <3>9, <3>10
    <3> QED BY <2>2, <3>11
  <2> QED BY <2>3, <2>4
<1>3. n \in 1 .. n
  OBVIOUS
<1>4. good(n) /\ f[n] \in Seq(S)
  BY <1>2, <1>3
<1> HIDE DEF upTo
<1> QED BY <1>1, <1>4 DEF Flattened, upTo

(* One element, or none. *)
LEMMA OneDistinct ==
  ASSUME NEW condition \in BOOLEAN, NEW e
  PROVE  /\ IsInjective(OneIf(condition, e)) /\ OneIf(condition, e) \in Seq({e})
         /\ Range(OneIf(condition, e)) = IF condition THEN {e} ELSE {}
         /\ IsInjective(<<e>>) /\ Range(<<e>>) = {e} /\ <<e>> \in Seq({e})
<1>1. DOMAIN <<e>> = 1 .. 1 /\ <<e>>[1] = e /\ <<e>> \in Seq({e})
  OBVIOUS
<1>2. IsInjective(<<e>>) /\ Range(<<e>>) = {e}
  BY <1>1 DEF IsInjective, Range
<1>3. IsInjective(<<>>) /\ Range(<<>>) = {} /\ <<>> \in Seq({e})
  BY DEF IsInjective, Range
<1> QED BY <1>1, <1>2, <1>3 DEF OneIf

(* A sequence without duplicates is as long as the set of its elements.     *)
LEMMA DistinctLength ==
  ASSUME NEW S, NEW s \in Seq(S), IsInjective(s)
  PROVE  IsFiniteSet(Range(s)) /\ Cardinality(Range(s)) = Len(s) /\ Len(s) \in Nat
<1>1. DOMAIN s = 1 .. Len(s) /\ Len(s) \in Nat
  BY LenProperties
<1>2. IsFiniteSet(1 .. Len(s)) /\ Cardinality(1 .. Len(s)) = Len(s)
  BY <1>1, FS_Interval, SMTT(30)
<1>3. s \in Surjection(1 .. Len(s), Range(s))
  <2>1. s \in [1 .. Len(s) -> Range(s)]
    <3>1. s = [i \in 1 .. Len(s) |-> s[i]]
      BY LenProperties
    <3>2. \A i \in 1 .. Len(s) : s[i] \in Range(s)
      BY <1>1 DEF Range
    <3> QED BY <3>1, <3>2
  <2>2. \A x \in Range(s) : \E i \in 1 .. Len(s) : s[i] = x
    BY <1>1 DEF Range
  <2> QED BY <2>1, <2>2 DEF Surjection
<1>4. s \in Injection(1 .. Len(s), Range(s))
  BY <1>1, <1>3 DEF Injection, IsInjective, Surjection
<1> QED BY <1>1, <1>2, <1>3, <1>4, FS_Surjection

(* insertPivots adds a child and a pivot for each child that is split.      *)
LEMMA InsertedChildren ==
  ASSUME NEW n, NEW below, BranchOK(n, below),
         n = Inner(n.pivots, n.children, n.upserts) \/ n = RootNode(n.pivots, n.children),
         IsInjective(n.children), NEW splits,
         DOMAIN splits \in SUBSET DOMAIN n.children,
         \A i \in DOMAIN splits : splits[i].page \notin Range(n.children),
         \A i, j \in DOMAIN splits : splits[i].page = splits[j].page => i = j
  PROVE  LET new == InsertPivots(n, splits) IN
         /\ IsInjective(new.children)
         /\ Range(new.children) = Range(n.children) \cup {splits[i].page : i \in DOMAIN splits}
         /\ Len(new.pivots) = Len(n.pivots) + Cardinality(DOMAIN splits)
         /\ IsFiniteSet(DOMAIN splits) /\ Cardinality(DOMAIN splits) \in Nat
         /\ Len(new.children) = Len(new.pivots) + 1
<1> DEFINE m == Len(n.pivots) + 1
           D == DOMAIN splits
           fresh == {splits[i].page : i \in D}
           S == Range(n.children) \cup fresh
           second == [i \in DOMAIN n.children |->
              <<n.children[i]>> \o OneIf(i \in D, splits[i].page)]
           new == InsertPivots(n, splits)
<1>1. /\ Len(n.pivots) \in Nat /\ n.children \in Seq(below) /\ Len(n.children) = m
      /\ DOMAIN n.children = 1 .. m /\ m \in Nat \ {0}
  BY BranchFacts DEF Branch
<1>2. new.children = FlattenSeq(second)
  <2>1. CASE n = Inner(n.pivots, n.children, n.upserts)
    <3>1. {"pivots", "children"} \subseteq DOMAIN n
      BY <2>1 DEF Inner
    <3> QED BY <3>1 DEF InsertPivots
  <2>2. CASE n = RootNode(n.pivots, n.children)
    <3>1. {"pivots", "children"} \subseteq DOMAIN n
      BY <2>2 DEF RootNode
    <3> QED BY <3>1 DEF InsertPivots
  <2> QED BY <2>1, <2>2
<1>3. Branch(new.pivots, new.children, S \cup below)
  <2>1. BranchOK(n, S \cup below)
    BY BranchMonotonic
  <2>2. \A i \in DOMAIN splits : splits[i].page \in S \cup below
    OBVIOUS
  <2> HIDE DEF S
  <2> QED BY <2>1, <2>2, InsertedShape
<1> HIDE DEF new
<1>4. ASSUME NEW i \in 1 .. m
      PROVE  /\ second[i] \in Seq(S) /\ IsInjective(second[i])
             /\ Range(second[i]) = {n.children[i]} \cup (IF i \in D THEN {splits[i].page} ELSE {})
             /\ n.children[i] \in Range(n.children)
  <2> DEFINE c == n.children[i]
             p == splits[i].page
             b == i \in D
             a == <<c>>
             o == OneIf(b, p)
  <2>1. second[i] = a \o o
    BY <1>1
  <2>2. c \in Range(n.children) /\ c \in S
    BY <1>1 DEF Range
  <2>3. (b => p \in S /\ p # c) /\ b \in BOOLEAN
    BY <2>2
  <2> HIDE DEF second
  <2>4. /\ IsInjective(a) /\ Range(a) = {c} /\ a \in Seq({c})
        /\ IsInjective(o) /\ Range(o) = IF b THEN {p} ELSE {}
        /\ o \in Seq({p})
    BY <2>3, OneDistinct
  <2> HIDE DEF c, p, b, a, o, S
  <2>5. a \in Seq(S) /\ o \in Seq(S)
    <3>1. Range(a) \subseteq S /\ Range(o) \subseteq S
      BY <2>2, <2>3, <2>4
    <3>2. a \in Seq(Range(a)) /\ o \in Seq(Range(o))
      BY <2>4, SeqOfRange
    <3> QED BY <3>1, <3>2, SeqMonotonic
  <2>6. Range(a) \cap Range(o) = {}
    BY <2>3, <2>4
  <2>7. IsInjective(a \o o) /\ Range(a \o o) = Range(a) \cup Range(o) /\ a \o o \in Seq(S)
    <3>1. a \in Seq(S) /\ o \in Seq(S) /\ IsInjective(a) /\ IsInjective(o)
      BY <2>4, <2>5
    <3>2. a \o o \in Seq(S)
      BY <3>1, ConcatProperties
    <3>3. IsInjective(a \o o) /\ Range(a \o o) = Range(a) \cup Range(o)
      BY <2>6, <3>1, JoinedDistinct
    <3> QED BY <3>2, <3>3
  <2> QED BY <2>1, <2>2, <2>4, <2>7 DEF c, p, b
<1>5. second \in [1 .. m -> Seq(S)]
  BY <1>1, <1>4
<1>6. ASSUME NEW i \in 1 .. m, NEW j \in 1 .. m, i # j
      PROVE  Range(second[i]) \cap Range(second[j]) = {}
  <2>1. n.children[i] # n.children[j]
    BY <1>1, <1>6 DEF IsInjective
  <2>2. /\ i \in D => splits[i].page # n.children[j] /\ (j \in D => splits[i].page # splits[j].page)
        /\ j \in D => splits[j].page # n.children[i]
    BY <1>4, <1>6
  <2>3. /\ Range(second[i]) = {n.children[i]} \cup (IF i \in D THEN {splits[i].page} ELSE {})
        /\ Range(second[j]) = {n.children[j]} \cup (IF j \in D THEN {splits[j].page} ELSE {})
    BY <1>4
  <2> DEFINE a == n.children[i]
             b == n.children[j]
             p == splits[i].page
             q == splits[j].page
  <2> HIDE DEF second, a, b, p, q
  <2>4. a # b /\ (i \in D => p # b /\ (j \in D => p # q)) /\ (j \in D => q # a)
    BY <2>1, <2>2 DEF a, b, p, q
  <2>5. ({a} \cup (IF i \in D THEN {p} ELSE {})) \cap ({b} \cup (IF j \in D THEN {q} ELSE {})) = {}
    <3> HIDE DEF D
    <3> QED BY <2>4
  <2> QED BY <2>3, <2>5 DEF a, b, p, q
<1>7. UNION {Range(second[i]) : i \in 1 .. m} = S
  <2>1. \A i \in 1 .. m : Range(second[i]) \subseteq S
    <3>1. ASSUME NEW i \in 1 .. m PROVE Range(second[i]) \subseteq S
      <4>1. i \in D => splits[i].page \in fresh
        OBVIOUS
      <4>2. /\ n.children[i] \in Range(n.children)
            /\ Range(second[i]) = {n.children[i]} \cup (IF i \in D THEN {splits[i].page} ELSE {})
        BY <1>4
      <4> HIDE DEF second, fresh, D
      <4> QED BY <4>1, <4>2
    <3> QED BY <3>1
  <2>2. ASSUME NEW x \in Range(n.children) PROVE \E i \in 1 .. m : x \in Range(second[i])
    <3>1. PICK i \in 1 .. m : x = n.children[i]
      BY <1>1 DEF Range
    <3> QED BY <1>4, <3>1
  <2>3. ASSUME NEW x \in fresh PROVE \E i \in 1 .. m : x \in Range(second[i])
    <3>1. PICK i \in D : x = splits[i].page
      OBVIOUS
    <3> QED BY <1>1, <1>4, <3>1
  <2> HIDE DEF second, fresh
  <2> QED BY <2>1, <2>2, <2>3
<1> HIDE DEF S, second
<1>8. /\ IsInjective(new.children) /\ new.children \in Seq(S) /\ Range(new.children) = S
  <2>1. m \in Nat \ {0} /\ \A i \in 1 .. m : IsInjective(second[i])
    BY <1>1, <1>4
  <2>2. \A i, j \in 1 .. m : i # j => Range(second[i]) \cap Range(second[j]) = {}
    BY <1>6
  <2> HIDE DEF m
  <2>3. /\ IsInjective(FlattenSeq(second)) /\ FlattenSeq(second) \in Seq(S)
        /\ Range(FlattenSeq(second)) = UNION {Range(second[i]) : i \in 1 .. m}
    BY <1>5, <2>1, <2>2, FlattenedDistinct, SMTT(30)
  <2> QED BY <1>2, <1>7, <2>3
<1>9. /\ IsFiniteSet(Range(n.children)) /\ Cardinality(Range(n.children)) = m
      /\ IsFiniteSet(S) /\ Cardinality(S) = Len(new.children)
  BY <1>1, <1>8, DistinctLength
<1>10. IsFiniteSet(D) /\ Cardinality(D) \in Nat /\ Cardinality(fresh) = Cardinality(D) /\ IsFiniteSet(fresh)
  <2>1. IsFiniteSet(1 .. m)
    <3>1. m \in Int
      BY <1>1
    <3> HIDE DEF m
    <3> QED BY <3>1, FS_Interval
  <2>2. IsFiniteSet(D) /\ Cardinality(D) \in Nat
    BY <1>1, <2>1, PartOfFinite
  <2> DEFINE g == [i \in D |-> splits[i].page]
  <2>3. g \in Surjection(D, fresh)
    BY DEF Surjection
  <2>4. g \in Injection(D, fresh)
    BY DEF Injection, IsInjective
  <2> HIDE DEF g, fresh, D
  <2> QED BY <2>2, <2>3, <2>4, FS_Surjection
<1>11. S = Range(n.children) \cup fresh /\ Range(n.children) \cap fresh = {}
  BY DEF S
<1> HIDE DEF D, fresh
<1>12. Len(new.children) = m + Cardinality(D)
  BY <1>9, <1>10, <1>11, UnionOfFinite, SMTT(30)
<1>13. Len(new.children) = Len(new.pivots) + 1 /\ Len(new.pivots) \in Nat
  BY <1>3, LenProperties DEF Branch
<1>14. Len(new.pivots) = Len(n.pivots) + Cardinality(D)
  BY <1>1, <1>10, <1>12, <1>13
<1> QED BY <1>8, <1>10, <1>11, <1>13, <1>14 DEF new, D, fresh

(***************************************************************************)
(* Parents and children.                                                   *)
(***************************************************************************)
(* The children of a page are pages of the tree. *)
LEMMA KidsInTree ==
  ASSUME TreeInv, NEW p \in Created
  PROVE  Kids(node[p]) \in SUBSET (Created \ {Root})
<1>1. CASE IsBranch(node[p])
  <2>1. PICK b \in BOOLEAN : BranchOK(node[p], Kin(b))
    BY <1>1, BranchKin
  <2>2. Range(node[p].children) \in SUBSET Kin(b)
    BY <2>1, RangeOfSeq DEF BranchOK
  <2> QED BY <1>1, <2>2 DEF Kids, Kin
<1>2. CASE ~IsBranch(node[p])
  BY <1>2 DEF Kids
<1> QED BY <1>1, <1>2

(* Every page keeps one parent when the children of the written pages come  *)
(* from written pages, or are new.                                          *)
LEMMA ParentsWrite ==
  ASSUME TreeInv, ParentsOK, NEW new, NEW k \in Nat, NewPages(new, k), node' = new ++ node,
         \A p \in DOMAIN new : IsBranch(new[p]) => IsInjective(new[p].children),
         \A p \in DOMAIN new : p \notin Kids(new[p]),
         \A p, q \in DOMAIN new : p # q => Kids(new[p]) \cap Kids(new[q]) = {},
         \A p \in DOMAIN new : \A c \in Kids(new[p]) :
           c \in Created => \E q \in DOMAIN new \cap Created : c \in Kids(node[q])
  PROVE  ParentsOK'
<1>1. /\ \A p \in DOMAIN new : node'[p] = new[p] /\ p \in Created'
      /\ \A p \in Created' \ DOMAIN new : node'[p] = node[p] /\ p \in Created
  BY WriteFacts
<1>2. ASSUME NEW p \in Created' PROVE IsBranch(node'[p]) => IsInjective(node'[p].children)
  BY <1>1 DEF ParentsOK
<1>3. ASSUME NEW p \in Created' PROVE p \notin Kids(node'[p])
  BY <1>1 DEF ParentsOK
<1>4. ASSUME NEW p \in DOMAIN new, NEW q \in Created' \ DOMAIN new
      PROVE  Kids(node'[p]) \cap Kids(node'[q]) = {}
  <2> SUFFICES ASSUME NEW c \in Kids(new[p]), c \in Kids(node[q]) PROVE FALSE
    BY <1>1
  <2>1. q \in Created /\ c \in Created
    BY <1>1, KidsInTree
  <2>2. PICK r \in DOMAIN new \cap Created : c \in Kids(node[r])
    BY <2>1
  <2>3. r # q
    OBVIOUS
  <2> QED BY <2>1, <2>2, <2>3 DEF ParentsOK
<1>5. ASSUME NEW p \in Created', NEW q \in Created', p # q
      PROVE  Kids(node'[p]) \cap Kids(node'[q]) = {}
  <2>1. CASE p \in DOMAIN new /\ q \in DOMAIN new
    BY <1>1, <1>5, <2>1
  <2>2. CASE p \in DOMAIN new /\ q \notin DOMAIN new
    BY <1>4, <2>2
  <2>3. CASE p \notin DOMAIN new /\ q \in DOMAIN new
    BY <1>4, <2>3
  <2>4. CASE p \notin DOMAIN new /\ q \notin DOMAIN new
    BY <1>1, <1>5, <2>4 DEF ParentsOK
  <2> QED BY <2>1, <2>2, <2>3, <2>4
<1> QED BY <1>2, <1>3, <1>5 DEF ParentsOK

(* The shape of a node with children. *)
LEMMA BranchShape ==
  ASSUME TreeInv, NEW p \in Created, IsBranch(node[p])
  PROVE  /\ \E b \in BOOLEAN : BranchOK(node[p], Kin(b))
         /\ \/ p = Root /\ node[p] = RootNode(node[p].pivots, node[p].children)
            \/ p # Root /\ node[p] = Inner(node[p].pivots, node[p].children, node[p].upserts)
         /\ Kids(node[p]) = Range(node[p].children)
<1>1. NodeOK(p, node[p], Created \ {Root})
  BY DEF TreeInv, PagesOK
<1>2. \/ p = Root /\ node[p] = RootNode(node[p].pivots, node[p].children)
      \/ p # Root /\ node[p] = Inner(node[p].pivots, node[p].children, node[p].upserts)
  BY <1>1 DEF NodeOK, LeafOK, RootOK, InnerOK, Zeros, IsBranch
<1> QED BY <1>2, BranchKin DEF Kids

(* Children of node h are split or changed, and it gets the new ones: the   *)
(* node whose children page p has now is from[p].                           *)
SplitsOf(h, splits, from, new) ==
  /\ h \in DOMAIN new /\ new[h] = InsertPivots(node[h], splits)
  /\ DOMAIN splits \in SUBSET DOMAIN node[h].children
  /\ \A i \in DOMAIN splits : splits[i].page \notin Created
  /\ \A i, j \in DOMAIN splits : splits[i].page = splits[j].page => i = j
  /\ \A p \in DOMAIN new \ {h} :
       /\ from[p] \in (DOMAIN new \cap Created) \ {h} /\ (p \in Created => from[p] = p)
       /\ Kids(new[p]) \subseteq Kids(node[from[p]])
       /\ IsBranch(new[p]) => IsInjective(new[p].children)
  /\ \A p, q \in DOMAIN new \ {h} :
       p # q /\ from[p] = from[q] => Kids(new[p]) \cap Kids(new[q]) = {}

LEMMA ParentsSplit ==
  ASSUME TreeInv, ParentsOK, NEW new, NEW k \in Nat, NewPages(new, k), node' = new ++ node,
         NEW h \in Created, IsBranch(node[h]), NEW splits, NEW from, SplitsOf(h, splits, from, new)
  PROVE  /\ ParentsOK'
         /\ Kids(new[h]) = Kids(node[h]) \cup {splits[i].page : i \in DOMAIN splits}
         /\ Len(new[h].pivots) = Len(node[h].pivots) + Cardinality(DOMAIN splits)
         /\ Len(new[h].children) = Len(new[h].pivots) + 1
         /\ Cardinality(DOMAIN splits) \in Nat
         /\ new[h].type = node[h].type
         /\ IsInner(h) => new[h].upserts = node[h].upserts
<1> DEFINE n == node[h]
           m == InsertPivots(n, splits)
           fresh == {splits[i].page : i \in DOMAIN splits}
<1>1. PICK b \in BOOLEAN : BranchOK(n, Kin(b))
  BY BranchShape
<1>2. /\ n = Inner(n.pivots, n.children, n.upserts) \/ n = RootNode(n.pivots, n.children)
      /\ Kids(n) = Range(n.children)
  BY BranchShape
<1>3. IsInjective(n.children)
  BY DEF ParentsOK
<1>4. \A i \in DOMAIN splits : splits[i].page \notin Range(n.children)
  BY <1>2, KidsInTree DEF SplitsOf
<1>5. /\ IsInjective(m.children)
      /\ Range(m.children) = Range(n.children) \cup fresh
      /\ Len(m.pivots) = Len(n.pivots) + Cardinality(DOMAIN splits)
      /\ Cardinality(DOMAIN splits) \in Nat
      /\ Len(m.children) = Len(m.pivots) + 1
  <2>1. /\ DOMAIN splits \in SUBSET DOMAIN n.children
        /\ \A i, j \in DOMAIN splits : splits[i].page = splits[j].page => i = j
    BY DEF SplitsOf
  <2> HIDE DEF n, Kin
  <2> QED BY <1>1, <1>2, <1>3, <1>4, <2>1, InsertedChildren
<1>6. m.type = n.type /\ (n.type = "inner" => m.upserts = n.upserts)
  BY <1>2 DEF InsertPivots, Inner, RootNode
<1>7. new[h] = m
  BY DEF SplitsOf
<1> HIDE DEF m
<1>8. Kids(m) = Kids(n) \cup fresh
  BY <1>2, <1>5, <1>6 DEF Kids, IsBranch
<1>9. fresh \cap Created = {}
  BY DEF SplitsOf
<1>10. \A p \in DOMAIN new : IsBranch(new[p]) => IsInjective(new[p].children)
  BY <1>5, <1>7 DEF SplitsOf
<1>11. ASSUME NEW p \in DOMAIN new PROVE p \notin Kids(new[p])
  <2>1. CASE p = h
    BY <1>7, <1>8, <1>9, <2>1 DEF ParentsOK
  <2>2. CASE p # h
    <3>1. Kids(new[p]) \subseteq Kids(node[from[p]]) /\ from[p] \in Created /\ (p \in Created => from[p] = p)
      BY <2>2 DEF SplitsOf
    <3>2. Kids(node[from[p]]) \subseteq Created /\ from[p] \notin Kids(node[from[p]])
      BY <3>1, KidsInTree DEF ParentsOK
    <3> QED BY <3>1, <3>2
  <2> QED BY <2>1, <2>2
<1>12. ASSUME NEW p \in DOMAIN new \ {h} PROVE Kids(new[p]) \cap Kids(new[h]) = {}
  <2>1. Kids(new[p]) \subseteq Kids(node[from[p]]) /\ from[p] \in Created /\ from[p] # h
    BY DEF SplitsOf
  <2>2. Kids(node[from[p]]) \subseteq Created /\ Kids(node[from[p]]) \cap Kids(n) = {}
    BY <2>1, KidsInTree DEF ParentsOK
  <2> QED BY <1>7, <1>8, <1>9, <2>1, <2>2
<1>13. ASSUME NEW p \in DOMAIN new, NEW q \in DOMAIN new, p # q
       PROVE  Kids(new[p]) \cap Kids(new[q]) = {}
  <2>1. CASE p = h \/ q = h
    BY <1>12, <1>13, <2>1
  <2>2. CASE p # h /\ q # h
    <3>1. /\ Kids(new[p]) \subseteq Kids(node[from[p]]) /\ from[p] \in Created
          /\ Kids(new[q]) \subseteq Kids(node[from[q]]) /\ from[q] \in Created
          /\ from[p] = from[q] => Kids(new[p]) \cap Kids(new[q]) = {}
      BY <1>13, <2>2 DEF SplitsOf
    <3>2. from[p] # from[q] => Kids(node[from[p]]) \cap Kids(node[from[q]]) = {}
      BY <3>1 DEF ParentsOK
    <3> QED BY <3>1, <3>2
  <2> QED BY <2>1, <2>2
<1>14. ASSUME NEW p \in DOMAIN new, NEW c \in Kids(new[p]), c \in Created
       PROVE  \E q \in DOMAIN new \cap Created : c \in Kids(node[q])
  <2>1. CASE p = h
    <3>1. c \in Kids(node[h])
      BY <1>7, <1>8, <1>9, <1>14, <2>1
    <3> QED BY <3>1 DEF SplitsOf
  <2>2. CASE p # h
    BY <2>2 DEF SplitsOf
  <2> QED BY <2>1, <2>2
<1>15. ParentsOK'
  BY <1>10, <1>11, <1>13, <1>14, ParentsWrite
<1> QED BY <1>5, <1>6, <1>7, <1>8, <1>15 DEF IsInner

(***************************************************************************)
(* Steps and RoomInv.                                                      *)
(***************************************************************************)
(* A thread that takes no step keeps its room: nobody else changes the      *)
(* nodes it has locked.                                                     *)
LEMMA RoomKept ==
  ASSUME TreeInv, RoomInv, NEW u \in Threads, Stays(u), message'[u] = message[u],
         Created \subseteq Created',
         \A p \in Created : access[u][p] # "none" => node'[p] = node[p]
  PROVE  CallOK(u)' /\ QueueFits(u)' /\ RootFits(u)'
<1>1. CallOK(u) /\ QueueFits(u) /\ RootFits(u)
  BY DEF RoomInv
<1>2. CallOK(u)'
  BY <1>1 DEF CallOK, Stays, Upserting
<1>3. QueueFits(u)'
  <2>1. queue'[u] = queue[u] /\ pc'[u] = pc[u] /\ access'[u] = access[u]
    BY DEF Stays
  <2>2. ASSUME NEW e, EntryFits(u, e)
        PROVE  EntryFits(u, e)' /\ node'[e.page] = node[e.page]
    <3>1. e.page \in Created /\ access[u][e.page] = "write"
      BY <2>2 DEF EntryFits
    <3>2. node'[e.page] = node[e.page] /\ e.page \in Created'
      BY <3>1
    <3>3. Blocks(node'[e.page], e.messages) = Blocks(node[e.page], e.messages)
      BY <3>2
    <3>4. EntryFits(u, e)'
      BY <2>1, <2>2, <3>2, <3>3 DEF EntryFits, IsInner
    <3> QED BY <3>2, <3>4
  <2>7. \A i \in DOMAIN queue[u] : EntryFits(u, queue[u][i])
    BY <1>1 DEF QueueFits
  <2>8. \A i \in DOMAIN queue[u] : node'[queue[u][i].page] = node[queue[u][i].page]
    BY <2>2, <2>7
  <2>3. \A i, j \in DOMAIN queue[u] : i < j =>
          /\ queue[u][j].page # queue[u][i].page
          /\ queue[u][j].page \notin Kids(node[queue[u][i].page])
    BY <1>1 DEF QueueFits
  <2>4. /\ queue[u] \in Seq(Range(queue[u]))
        /\ pc[u] \notin {"flush", "failed"} => queue[u] = <<>>
    BY <1>1 DEF QueueFits
  <2>5. \A i, j \in DOMAIN queue'[u] : i < j =>
          /\ queue'[u][j].page # queue'[u][i].page
          /\ queue'[u][j].page \notin Kids(node'[queue'[u][i].page])
    BY <2>1, <2>3, <2>8
  <2>6. ASSUME NEW i \in DOMAIN queue'[u], NEW e, e = queue'[u][i] PROVE EntryFits(u, e)'
    BY <2>1, <2>2, <2>6, <2>7
  <2> QED BY <2>1, <2>4, <2>5, <2>6 DEF QueueFits
<1>4. RootFits(u)'
  <2> SUFFICES ASSUME pc[u] = "target", exclusiveMode[u]
               PROVE  Len(node'[Root].pivots) < RootN
    BY DEF RootFits, Stays
  <2>1. access[u][Root] = "write" /\ Root \in Created
    BY AtTargetFacts, PageNumbers
  <2>2. node'[Root] = node[Root]
    BY <2>1
  <2> QED BY <1>1, <2>2 DEF RootFits
<1> QED BY <1>2, <1>3, <1>4

(* The parts of a step put together. *)
OthersCalls(t) == \A u \in Threads \ {t} : message'[u] = message[u]

CurrentIn(t, pages) ==
  current' = current \/ \E p \in pages \cup {None} : current' = [current EXCEPT ![t] = p]
(* A step of thread t keeps RoomInv when it keeps what RoomInv says of t    *)
(* and leaves the rest to the others.                                       *)
LEMMA RoomStep ==
  ASSUME TreeInv, TreeInv', RoomInv, NEW t \in Threads,
         OthersStay(t), OthersCalls(t), OthersPages(t),
         HeaderFits', NodesFit', ParentsOK', CurrentIn(t, Created'),
         CallOK(t)', QueueFits(t)', RootFits(t)'
  PROVE  RoomInv'
<1>1. LocksOK /\ Created \subseteq AllPages
  BY PageNumbers DEF TreeInv
<1>2. ASSUME NEW u \in Threads \ {t}
      PROVE  CallOK(u)' /\ QueueFits(u)' /\ RootFits(u)'
  <2>1. \A p \in Created : access[u][p] # "none" => node'[p] = node[p]
    BY <1>1 DEF LocksOK, OthersPages
  <2>2. Created \subseteq Created' /\ Stays(u) /\ message'[u] = message[u]
    BY DEF OthersPages, PagesGrow, OthersStay, OthersCalls
  <2> QED BY <2>1, <2>2, RoomKept
<1>3. current' \in [Threads -> Created' \cup {None}]
  <2>1. current \in [Threads -> Created \cup {None}] /\ Created \subseteq Created'
    BY DEF RoomInv, OthersPages, PagesGrow
  <2> QED BY <2>1 DEF CurrentIn
<1> QED BY <1>2, <1>3 DEF RoomInv

(* Steps that change no node. *)
LEMMA QuietRoom ==
  ASSUME TreeInv, TreeInv', RoomInv, NEW t \in Threads, UNCHANGED tree, Open,
         OthersStay(t), OthersCalls(t), CurrentIn(t, Created),
         currentTimeStamp' \in Nat, loaded' \in Nat,
         CallOK(t)', QueueFits(t)', RootFits(t)'
  PROVE  RoomInv'
<1>1. /\ node' = node /\ stale' = stale /\ rootLeaf' = rootLeaf /\ headerFile' = headerFile
      /\ Created' = Created
  BY DEF tree, header, Created
<1>2. OthersPages(t)
  BY <1>1 DEF OthersPages, PagesGrow, IsInner
<1>3. HeaderFits'
  BY <1>1 DEF HeaderFits, Open
<1>4. NodesFit' /\ ParentsOK'
  BY <1>1 DEF RoomInv, NodesFit, ParentsOK
<1>5. CurrentIn(t, Created')
  BY <1>1
<1> QED BY <1>2, <1>3, <1>4, <1>5, RoomStep

(* An empty queue fits.                                                     *)
LEMMA NoQueue ==
  ASSUME NEW t, queue'[t] = <<>>
  PROVE  QueueFits(t)'
<1>1. DOMAIN queue'[t] = {} /\ queue'[t] \in Seq(Range(queue'[t]))
  OBVIOUS
<1> QED BY <1>1 DEF QueueFits

(* Steps inside a call that change no node and keep the queue. *)
LEMMA QuietGo ==
  ASSUME TreeInv, TreeInv', RoomInv, NEW t \in Threads, UNCHANGED tree, UNCHANGED client,
         pc[t] \notin {"client", "failed"}, OthersStay(t), CurrentIn(t, Created), queue' = queue,
         pc'[t] \in {"header", "target"} => Upserting(t),
         pc[t] = "flush" => /\ pc'[t] \in {"flush", "failed"}
                            /\ \A p \in Created : access[t][p] = "write" => access'[t][p] = "write",
         RootFits(t)'
  PROVE  RoomInv'
<1>1. /\ call' = call /\ message' = message /\ currentTimeStamp' = currentTimeStamp
      /\ loaded' = loaded /\ node' = node /\ Created' = Created
  BY DEF client, tree, Created
<1>2. CallOK(t) /\ QueueFits(t) /\ HeaderFits /\ Open
  BY InCall DEF RoomInv
<1>3. CallOK(t)'
  BY <1>1, <1>2 DEF CallOK, Upserting
<1>4. QueueFits(t)'
  <2>1. CASE pc[t] # "flush"
    <3>1. queue'[t] = <<>>
      BY <1>2, <2>1 DEF QueueFits
    <3> QED BY <3>1, NoQueue
  <2>2. CASE pc[t] = "flush"
    <3>1. \A i \in DOMAIN queue[t] : EntryFits(t, queue[t][i])
      BY <1>2 DEF QueueFits
    <3>2. ASSUME NEW e, EntryFits(t, e) PROVE EntryFits(t, e)'
      BY <1>1, <2>2, <3>2 DEF EntryFits, IsInner, Blocks, ChildIndex
    <3>3. ASSUME NEW i \in DOMAIN queue'[t], NEW e, e = queue'[t][i] PROVE EntryFits(t, e)'
      BY <3>1, <3>2, <3>3
    <3> QED BY <1>1, <1>2, <2>2, <3>3 DEF QueueFits
  <2> QED BY <2>1, <2>2
<1>5. OthersCalls(t)
  BY <1>1 DEF OthersCalls
<1>6. currentTimeStamp' \in Nat /\ loaded' \in Nat
  BY <1>1, <1>2 DEF HeaderFits
<1> QED BY <1>2, <1>3, <1>4, <1>5, <1>6, QuietRoom

(* A call that begins. *)
LEMMA BeginRoom ==
  ASSUME TreeInv, TreeInv', RoomInv, NEW t \in Threads, NEW c \in CallType, Begin(t, c),
         loaded' \in Nat
  PROVE  RoomInv'
<1>1. LocalTypes /\ Open /\ pc[t] = "client" /\ QueueFits(t) /\ currentTimeStamp \in Nat
  BY DEF TreeInv, Begin, At, RoomInv, HeaderFits
<1>2. UNCHANGED tree /\ access' = access /\ Created' = Created /\ current' = current /\ queue' = queue
  BY DEF Begin, tree, Created
<1>3. OthersStay(t) /\ OthersCalls(t)
  BY <1>1, <1>2 DEF OthersStay, OthersCalls, Stays, Begin, Go, LocalTypes
<1>4. CurrentIn(t, Created)
  BY <1>2 DEF CurrentIn
<1>5. call'[t] = c /\ pc'[t] = IF c.op = "find" THEN "pinRoot" ELSE "header"
  BY <1>1 DEF LocalTypes, Begin, Go
<1>6. CASE c.op = "find"
  <2>1. currentTimeStamp' = currentTimeStamp /\ ~Upserting(t)'
    BY <1>5, <1>6 DEF Begin, Upserting, UpsertType
  <2>2. CallOK(t)'
    BY <1>5, <1>6, <2>1 DEF CallOK
  <2>3. RootFits(t)'
    BY <1>5, <1>6 DEF RootFits
  <2>4. QueueFits(t)'
    BY <1>1, <1>2, NoQueue DEF QueueFits
  <2> QED BY <1>1, <1>2, <1>3, <1>4, <2>1, <2>2, <2>3, <2>4, QuietRoom
<1>7. CASE c.op # "find"
  <2>1. c.op \in UpsertType /\ c.value \in Nat
    BY <1>7 DEF CallType
  <2>2. /\ currentTimeStamp' = currentTimeStamp + 1
        /\ message'[t] = Upsert(c.op, c.value, currentTimeStamp')
    BY <1>1, <1>7 DEF Begin, LocalTypes
  <2>3. currentTimeStamp' \in Nat
    BY <1>1, <2>2
  <2>4. message'[t] \in Messages(Nat, Nat) /\ message'[t].type = c.op
    BY <2>1, <2>2, <2>3 DEF Upsert, Messages
  <2>5. CallOK(t)'
    BY <1>5, <2>1, <2>4 DEF CallOK, Upserting
  <2>6. RootFits(t)'
    BY <1>5, <1>7 DEF RootFits
  <2>7. QueueFits(t)'
    BY <1>1, <1>2, NoQueue DEF QueueFits
  <2> QED BY <1>1, <1>2, <1>3, <1>4, <2>3, <2>5, <2>6, <2>7, QuietRoom
<1> QED BY <1>6, <1>7

(* The steps that change no page.                                           *)
LEMMA ReadHeaderRoom ==
  ASSUME TreeInv, TreeInv', RoomInv, NEW t \in Threads, ReadHeader(t)
  PROVE  RoomInv'
<1>1. pc[t] = "header" /\ LocalTypes
  BY DEF ReadHeader, At, TreeInv
<1>2. /\ UNCHANGED tree /\ UNCHANGED client /\ access' = access /\ queue' = queue
      /\ current' = current /\ exclusiveMode' = exclusiveMode
  BY DEF ReadHeader
<1>3. pc'[t] = "pinRoot"
  BY <1>1 DEF ReadHeader, Go, LocalTypes
<1>4. OthersStay(t)
  BY <1>1, <1>2 DEF OthersStay, Stays, ReadHeader, Go, LocalTypes, client
<1>5. CurrentIn(t, Created) /\ RootFits(t)'
  BY <1>2, <1>3 DEF CurrentIn, RootFits
<1> QED BY <1>1, <1>2, <1>3, <1>4, <1>5, QuietGo

LEMMA PinRootRoom ==
  ASSUME TreeInv, TreeInv', RoomInv, NEW t \in Threads, PinRoot(t)
  PROVE  RoomInv'
<1>1. pc[t] = "pinRoot" /\ LocalTypes /\ Root \in Created
  BY PageNumbers DEF PinRoot, At, TreeInv
<1>2. /\ UNCHANGED tree /\ UNCHANGED client /\ queue' = queue /\ exclusiveMode' = exclusiveMode
      /\ mode' = mode /\ current' = [current EXCEPT ![t] = Root]
  BY DEF PinRoot
<1>3. pc'[t] = "root"
  BY <1>1 DEF PinRoot, Go, LocalTypes
<1>4. \A u \in Threads \ {t} : access'[u] = access[u]
  <2>1. Holds(t, {}, {Root}) \/ Holds(t, {Root}, {})
    BY DEF PinRoot
  <2> QED BY <2>1, HoldsRow
<1>5. OthersStay(t)
  BY <1>1, <1>2, <1>4 DEF OthersStay, Stays, PinRoot, Go, LocalTypes, client
<1>6. CurrentIn(t, Created) /\ RootFits(t)'
  BY <1>1, <1>2, <1>3 DEF CurrentIn, RootFits
<1> QED BY <1>1, <1>2, <1>3, <1>5, <1>6, QuietGo

LEMMA RetryRoom ==
  ASSUME TreeInv, TreeInv', RoomInv, NEW t \in Threads, pc[t] \in {"root", "target"}, Retry(t)
  PROVE  RoomInv'
<1>1. LocalTypes
  BY DEF TreeInv
<1>2. UNCHANGED tree /\ UNCHANGED client /\ queue' = queue /\ current' = current
  BY DEF Retry
<1>3. pc'[t] = "pinRoot"
  BY <1>1 DEF Retry, Go, LocalTypes
<1>4. \A u \in Threads \ {t} : access'[u] = access[u]
  BY HoldsRow DEF Retry
<1>5. OthersStay(t)
  BY <1>1, <1>2, <1>4 DEF OthersStay, Stays, Retry, Go, LocalTypes, client
<1>6. CurrentIn(t, Created) /\ RootFits(t)'
  BY <1>2, <1>3 DEF CurrentIn, RootFits
<1> QED BY <1>2, <1>3, <1>5, <1>6, QuietGo

(* The second descent goes on only when the root has room for a pivot.      *)
LEMMA PinTargetRoom ==
  ASSUME TreeInv, TreeInv', RoomInv, NEW t \in Threads, PinTarget(t)
  PROVE  RoomInv'
<1> DEFINE p == ChildOf(Here(t), Key(t))
<1>1. pc[t] = "root" /\ LocalTypes /\ Upserting(t) /\ ~IsLeaf(Root)
  BY DEF PinTarget, AtRoot, At, TreeInv
<1>2. current[t] = Root /\ IsBranch(node[Root]) /\ Root \in Created
  BY <1>1, AtRootFacts, PageNumbers
<1>3. p \in Created
  BY <1>2, ChildInTree DEF Here
<1>4. /\ UNCHANGED tree /\ UNCHANGED client /\ queue' = queue /\ exclusiveMode' = exclusiveMode
      /\ mode' = mode /\ current' = [current EXCEPT ![t] = p] /\ node' = node
  BY DEF PinTarget, tree
<1>5. \A u \in Threads \ {t} : access'[u] = access[u]
  BY HoldsRow DEF PinTarget
<1>6. OthersStay(t)
  BY <1>1, <1>4, <1>5 DEF OthersStay, Stays, PinTarget, Go, LocalTypes, client
<1>7. CurrentIn(t, Created)
  <2> HIDE DEF p
  <2> QED BY <1>3, <1>4 DEF CurrentIn
<1>8. RootFits(t)'
  <2>1. Len(node[Root].pivots) # RootN
    BY DEF PinTarget, RootIsFull
  <2>2. node[Root].type = "root"
    BY <1>1, RootShape DEF RootOK
  <2>3. Len(node[Root].pivots) \in 1 .. RootN
    BY <1>2, <2>2 DEF RoomInv, NodesFit, IsNode
  <2>4. Len(node[Root].pivots) < RootN
    BY <2>1, <2>3, SizesAssumption
  <2> QED BY <1>4, <2>4 DEF RootFits
<1> QED BY <1>1, <1>4, <1>6, <1>7, <1>8, QuietGo

LEMMA PinFlushChildRoom ==
  ASSUME TreeInv, TreeInv', RoomInv, NEW t \in Threads, NEW i, PinFlushChild(t, i)
  PROVE  RoomInv'
<1>1. pc[t] = "flush" /\ LocalTypes
  BY DEF PinFlushChild, At, TreeInv
<1>2. UNCHANGED tree /\ UNCHANGED client /\ queue' = queue /\ current' = current
  BY DEF PinFlushChild
<1>3. pc'[t] \in {"flush", "failed"}
  BY <1>1 DEF PinFlushChild, Go, LocalTypes
<1>4. /\ \A u \in Threads \ {t} : access'[u] = access[u]
      /\ \A p \in AllPages : access'[t][p] = IF p \in HeldBy(t) \cup {Child(t, i)} THEN "write" ELSE "none"
  BY HoldsRow DEF PinFlushChild
<1>5. OthersStay(t)
  BY <1>1, <1>2, <1>4 DEF OthersStay, Stays, PinFlushChild, Go, LocalTypes, client
<1>6. CurrentIn(t, Created) /\ RootFits(t)'
  BY <1>2, <1>3 DEF CurrentIn, RootFits
<1>7. \A p \in Created : access[t][p] = "write" => access'[t][p] = "write"
  <2>1. Created \subseteq AllPages
    BY PageNumbers
  <2> QED BY <1>4, <2>1 DEF HeldBy, AllPages
<1> QED BY <1>1, <1>2, <1>3, <1>5, <1>6, <1>7, QuietGo

(* The thread answers. *)
LEMMA AnswerRoom ==
  ASSUME TreeInv, TreeInv', RoomInv, NEW t \in Threads, NEW r, Answer(t, r), pc[t] # "client",
         headerFile' = headerFile, OthersPages(t), NodesFit', ParentsOK'
  PROVE  RoomInv'
<1>1. LocalTypes /\ Open /\ HeaderFits
  BY InCall DEF RoomInv
<1>2. Created \subseteq Created'
  BY DEF OthersPages, PagesGrow
<1>3. OthersStay(t)
  BY <1>2, AnswerStep
<1>4. OthersCalls(t)
  BY <1>1 DEF Answer, OthersCalls, LocalTypes
<1>5. CurrentIn(t, Created')
  BY DEF Answer, CurrentIn
<1>6. HeaderFits'
  BY <1>1 DEF Answer, HeaderFits, Open
<1>7. pc'[t] = "client" /\ queue'[t] = <<>>
  BY <1>1 DEF Answer, LocalTypes, Go
<1>8. CallOK(t)' /\ RootFits(t)'
  BY <1>7 DEF CallOK, RootFits
<1>9. QueueFits(t)'
  BY <1>7, NoQueue
<1> QED BY <1>3, <1>4, <1>5, <1>6, <1>8, <1>9, RoomStep

(* Answers and failures change no page either.                              *)
LEMMA QuietAnswerRoom ==
  ASSUME TreeInv, TreeInv', RoomInv, NEW t \in Threads, NEW r, Answer(t, r), pc[t] # "client",
         UNCHANGED tree
  PROVE  RoomInv'
<1>1. /\ node' = node /\ stale' = stale /\ rootLeaf' = rootLeaf /\ headerFile' = headerFile
      /\ Created' = Created
  BY DEF tree, header, Created
<1>2. OthersPages(t)
  BY <1>1 DEF OthersPages, PagesGrow, IsInner
<1>3. NodesFit' /\ ParentsOK'
  BY <1>1 DEF RoomInv, NodesFit, ParentsOK
<1> QED BY <1>1, <1>2, <1>3, AnswerRoom

LEMMA FailRoom ==
  ASSUME TreeInv, TreeInv', RoomInv, NEW t \in Threads, Fail(t),
         pc[t] \notin {"client", "failed"}
  PROVE  RoomInv'
<1>1. LocalTypes
  BY DEF TreeInv
<1>2. /\ UNCHANGED tree /\ UNCHANGED client /\ queue' = queue /\ current' = current
      /\ access' = access /\ exclusiveMode' = exclusiveMode /\ mode' = mode
  BY DEF Fail
<1>3. pc'[t] = "failed"
  BY <1>1 DEF Fail, Go, LocalTypes
<1>4. OthersStay(t)
  BY <1>1, <1>2 DEF OthersStay, Stays, Fail, Go, LocalTypes, client
<1>5. CurrentIn(t, Created) /\ RootFits(t)'
  BY <1>2, <1>3 DEF CurrentIn, RootFits
<1> QED BY <1>2, <1>3, <1>4, <1>5, QuietGo

LEMMA FindInRootLeafRoom ==
  ASSUME TreeInv, TreeInv', RoomInv, NEW t \in Threads, FindInRootLeaf(t)
  PROVE  RoomInv'
<1>1. Answer(t, None) /\ UNCHANGED tree /\ pc[t] = "root"
  BY DEF FindInRootLeaf, At
<1> QED BY <1>1, QuietAnswerRoom

LEMMA FindOnRoom ==
  ASSUME TreeInv, TreeInv', RoomInv, NEW t \in Threads, pc[t] \in {"root", "find"},
         NEW p \in Created, Holds(t, {p}, {}), UNCHANGED tree,
         current' = [current EXCEPT ![t] = p], pc' = [pc EXCEPT ![t] = "find"],
         UNCHANGED <<client, exclusiveMode, mode, queue>>
  PROVE  RoomInv'
<1>1. LocalTypes
  BY DEF TreeInv
<1>2. \A u \in Threads \ {t} : access'[u] = access[u]
  BY HoldsRow
<1>3. pc'[t] = "find"
  BY <1>1 DEF LocalTypes
<1>4. OthersStay(t)
  BY <1>1, <1>2 DEF OthersStay, Stays, LocalTypes, client
<1>5. CurrentIn(t, Created) /\ RootFits(t)'
  BY <1>3 DEF CurrentIn, RootFits
<1> QED BY <1>3, <1>4, <1>5, QuietGo

(* One step of find down the tree: it answers, fails, or goes on.           *)
LEMMA FindChildRoom ==
  ASSUME TreeInv, TreeInv', RoomInv, NEW t \in Threads, FindChild(t)
  PROVE  RoomInv'
<1> DEFINE p == ChildOf(Here(t), Key(t))
           sum == accumulated[t]
           upserts == node[p].upserts
           value == ValueIn(node[p].pairs, Key(t))
           found == IF Key(t) \in DOMAIN upserts THEN upserts[Key(t)].type ELSE "nothing"
<1>1. UNCHANGED tree
  BY DEF FindChild
<1>2. \/ pc[t] = "root" /\ ~IsLeaf(Root)
      \/ pc[t] = "find"
  BY DEF FindChild, At
<1>3. pc[t] \in {"root", "find"}
  BY <1>2
<1>4. p \in Created
  <2>1. CASE pc[t] = "root" /\ ~IsLeaf(Root)
    <3>1. current[t] = Root /\ IsBranch(node[Root]) /\ Root \in Created
      BY <2>1, AtRootFacts, PageNumbers
    <3> QED BY <3>1, ChildInTree DEF Here
  <2>2. CASE pc[t] = "find"
    <3>1. current[t] \in Created \ {Root} /\ IsInner(current[t])
      BY <2>2, InCall DEF FindOK
    <3>2. IsBranch(node[current[t]])
      BY <3>1, PageShape
    <3> QED BY <3>1, <3>2, ChildInTree DEF Here
  <2> QED BY <1>2, <2>1, <2>2
<1>5. IF IsLeaf(p)
      THEN IF value # None THEN Answer(t, value + sum)
           ELSE IF sum = 0 THEN Answer(t, None) ELSE Fail(t)
      ELSE IF node[p] = Zeros THEN Fail(t)
      ELSE CASE found = "insert" -> Answer(t, upserts[Key(t)].value + sum)
             [] found = "erase" -> Answer(t, None)
             [] OTHER ->
                  /\ Holds(t, {p}, {})
                  /\ current' = [current EXCEPT ![t] = p]
                  /\ Go(t, "find")
                  /\ UNCHANGED <<client, exclusiveMode, mode, queue>>
  BY DEF FindChild
<1> HIDE DEF p, sum, upserts, value, found
<1>6. CASE IsLeaf(p) \/ node[p] = Zeros
  BY <1>1, <1>3, <1>5, <1>6, QuietAnswerRoom, FailRoom
<1>7. CASE ~IsLeaf(p) /\ node[p] # Zeros
  <2>1. CASE found = "insert"
    BY <1>1, <1>3, <1>5, <1>7, <2>1, QuietAnswerRoom
  <2>2. CASE found = "erase"
    BY <1>1, <1>3, <1>5, <1>7, <2>2, QuietAnswerRoom
  <2>3. CASE found \notin {"insert", "erase"}
    <3>1. /\ Holds(t, {p}, {})
          /\ current' = [current EXCEPT ![t] = p]
          /\ pc' = [pc EXCEPT ![t] = "find"]
          /\ UNCHANGED <<client, exclusiveMode, mode, queue>>
      BY <1>5, <1>7, <2>3 DEF Go
    <3> QED BY <1>1, <1>3, <1>4, <3>1, FindOnRoom
  <2> QED BY <2>1, <2>2, <2>3
<1> QED BY <1>6, <1>7

(* Pages that are dropped and read again are leaves, or zeros.              *)
LEMMA DroppedRoom ==
  ASSUME TreeInv, RoomInv, NEW pages \in SUBSET DOMAIN stale, Dropped(pages),
         \A p \in pages, u \in Threads : access[u][p] = "none",
         UNCHANGED <<access, client, locals>>
  PROVE  /\ NodesFit' /\ ParentsOK' /\ current' \in [Threads -> Created' \cup {None}]
         /\ \A u \in Threads : CallOK(u)' /\ QueueFits(u)' /\ RootFits(u)'
<1>1. \A p \in DOMAIN stale :
        p \in Created /\ LeafOK(node[p]) /\ (LeafOK(stale[p]) \/ stale[p] = Zeros)
  BY DEF TreeInv, PagesOK
<1> DEFINE back == Restrict(stale, pages)
           rest == Restrict(stale, DOMAIN stale \ pages)
<1>2. /\ DOMAIN back = pages /\ \A p \in pages : back[p] = stale[p]
      /\ DOMAIN rest = DOMAIN stale \ pages /\ \A p \in DOMAIN stale \ pages : rest[p] = stale[p]
  BY DEF Restrict
<1>3. node' = back ++ node /\ stale' = rest
  BY DEF Dropped
<1> HIDE DEF back, rest
<1>4. /\ Created' = Created
      /\ \A p \in pages : node'[p] = stale[p]
      /\ \A p \in Created \ pages : node'[p] = node[p]
  <2>1. /\ DOMAIN node' = DOMAIN back \cup DOMAIN node
        /\ \A p \in DOMAIN back : node'[p] = back[p]
        /\ \A p \in DOMAIN node \ DOMAIN back : node'[p] = node[p]
    BY <1>3, OverIs DEF Over
  <2>2. pages \subseteq DOMAIN node
    BY <1>1 DEF Created
  <2> QED BY <1>2, <2>1, <2>2 DEF Created
<1>5. NodesFit'
  BY <1>2, <1>3, <1>4 DEF RoomInv, NodesFit
<1>6. \A p \in pages : p \in Created /\ ~IsBranch(node'[p])
  <2>1. ASSUME NEW p \in pages PROVE p \in Created /\ ~IsBranch(node'[p])
    <3>1. node'[p].type \in {"leaf", "zeros"} /\ p \in Created
      BY <1>1, <1>4 DEF LeafOK, Zeros
    <3> QED BY <3>1 DEF IsBranch
  <2> QED BY <2>1
<1>7. ParentsOK'
  <2>1. \A p \in Created : IsBranch(node'[p]) => node'[p] = node[p]
    BY <1>4, <1>6
  <2>2. ParentsOK
    BY DEF RoomInv
  <2>3. \A p \in Created : Kids(node'[p]) = {} \/ Kids(node'[p]) = Kids(node[p])
    BY <2>1 DEF Kids
  <2>4. \A p \in Created : IsBranch(node'[p]) => IsInjective(node'[p].children)
    BY <2>1, <2>2 DEF ParentsOK
  <2>5. \A p, q \in Created : p # q => Kids(node'[p]) \cap Kids(node'[q]) = {}
    BY <2>2, <2>3 DEF ParentsOK
  <2>6. \A p \in Created : p \notin Kids(node'[p])
    BY <2>2, <2>3 DEF ParentsOK
  <2> QED BY <1>4, <2>4, <2>5, <2>6 DEF ParentsOK
<1>8. ASSUME NEW u \in Threads PROVE CallOK(u)' /\ QueueFits(u)' /\ RootFits(u)'
  <2>1. Stays(u) /\ message'[u] = message[u]
    BY DEF Stays, client, locals
  <2>2. \A p \in Created : access[u][p] # "none" => node'[p] = node[p]
    BY <1>4
  <2> QED BY <1>4, <2>1, <2>2, RoomKept
<1>9. current' \in [Threads -> Created' \cup {None}]
  BY <1>4 DEF locals, RoomInv
<1> QED BY <1>5, <1>7, <1>8, <1>9

(* Steps of nobody: evictions, restarts, and none at all.                   *)
LEMMA EvictRoom == ASSUME TreeInv, RoomInv, Evict PROVE RoomInv'
<1>1. PICK pages \in SUBSET DOMAIN stale :
        (\A p \in pages, t \in Threads : access[t][p] = "none") /\ Dropped(pages)
  BY DEF Evict
<1>2. Open /\ UNCHANGED header /\ UNCHANGED <<access, client, locals>>
  BY DEF Evict
<1>3. /\ NodesFit' /\ ParentsOK' /\ current' \in [Threads -> Created' \cup {None}]
      /\ \A u \in Threads : CallOK(u)' /\ QueueFits(u)' /\ RootFits(u)'
  BY <1>1, <1>2, DroppedRoom
<1>4. HeaderFits'
  BY <1>2 DEF RoomInv, HeaderFits, header, client, Open
<1> QED BY <1>3, <1>4 DEF RoomInv

LEMMA CloseRoom == ASSUME TreeInv, RoomInv, Close PROVE RoomInv'
<1>1. /\ Dropped(DOMAIN stale) /\ headerFile' = Header
      /\ UNCHANGED <<access, client, locals>> /\ \A t \in Threads : pc[t] = "client"
  BY DEF Close, At
<1>2. \A p \in DOMAIN stale, u \in Threads : access[u][p] = "none"
  <2>1. \A p \in DOMAIN stale : p \in AllPages
    BY PageNumbers DEF TreeInv, PagesOK
  <2> QED BY <1>1, <2>1 DEF TreeInv, ThreadOK, StartOK, Outside, HasOnly
<1>3. /\ NodesFit' /\ ParentsOK' /\ current' \in [Threads -> Created' \cup {None}]
      /\ \A u \in Threads : CallOK(u)' /\ QueueFits(u)' /\ RootFits(u)'
  BY <1>1, <1>2, DroppedRoom
<1>4. HeaderFits'
  BY <1>1 DEF RoomInv, HeaderFits, Header, client
<1> QED BY <1>3, <1>4 DEF RoomInv

(* What a step leaves alone that changes no node and no thread. *)
LEMMA AloneRoom ==
  ASSUME TreeInv, RoomInv, node' = node, stale' = stale, access' = access, call' = call,
         message' = message, UNCHANGED locals, HeaderFits'
  PROVE  RoomInv'
<1>1. Created' = Created
  BY DEF Created
<1>2. NodesFit' /\ ParentsOK'
  BY <1>1 DEF RoomInv, NodesFit, ParentsOK
<1>3. ASSUME NEW u \in Threads PROVE CallOK(u)' /\ QueueFits(u)' /\ RootFits(u)'
  <2>1. Stays(u) /\ message'[u] = message[u]
    BY DEF Stays, locals
  <2> QED BY <1>1, <2>1, RoomKept
<1>4. current' \in [Threads -> Created' \cup {None}]
  BY <1>1 DEF locals, RoomInv
<1> QED BY <1>2, <1>3, <1>4 DEF RoomInv

LEMMA ReopenRoom == ASSUME TreeInv, RoomInv, Reopen PROVE RoomInv'
<1>1. /\ node' = node /\ stale' = stale /\ access' = access /\ call' = call /\ message' = message
      /\ UNCHANGED locals /\ loaded' = loaded /\ headerFile' = None /\ ~Open
      /\ currentTimeStamp' = headerFile.currentTimeStamp
  BY DEF Reopen
<1>2. HeaderFits'
  BY <1>1 DEF RoomInv, HeaderFits, Open
<1> QED BY <1>1, <1>2, AloneRoom

LEMMA IdleRoom == ASSUME TreeInv, RoomInv, UNCHANGED vars PROVE RoomInv'
<1>1. /\ node' = node /\ stale' = stale /\ access' = access /\ call' = call /\ message' = message
      /\ UNCHANGED locals /\ loaded' = loaded /\ headerFile' = headerFile
      /\ currentTimeStamp' = currentTimeStamp
  BY DEF vars, state, tree, header, client
<1>2. HeaderFits'
  BY <1>1 DEF RoomInv, HeaderFits, Open
<1> QED BY <1>1, <1>2, AloneRoom

(***************************************************************************)
(* Steps that change nodes.                                                *)
(***************************************************************************)
LEMMA WrittenFit ==
  ASSUME TreeInv, RoomInv, NEW new, NEW k \in Nat, NewPages(new, k), node' = new ++ node,
         \A p \in DOMAIN new : IsNode(new[p]), \A p \in DOMAIN stale' : IsNode(stale'[p])
  PROVE  NodesFit'
<1>1. /\ \A p \in DOMAIN new : node'[p] = new[p]
      /\ \A p \in Created' \ DOMAIN new : node'[p] = node[p] /\ p \in Created
  BY WriteFacts
<1>2. \A p \in Created' : IsNode(node'[p])
  BY <1>1 DEF RoomInv, NodesFit
<1> QED BY <1>2 DEF NodesFit

(* What is stale was a node before, and write has no other effect.          *)
LEMMA StaleFits ==
  ASSUME RoomInv, NEW new, Write(new)
  PROVE  (\A p \in DOMAIN stale' : IsNode(stale'[p])) /\ node' = new ++ node
<1>1. /\ DOMAIN stale' \subseteq DOMAIN stale
      /\ \A p \in DOMAIN stale' : stale'[p] = stale[p]
  BY DEF Write, Restrict
<1> QED BY <1>1 DEF RoomInv, NodesFit, Write

(* What t writes, it has locked: others see their pages unchanged.          *)
LEMMA OthersWritten ==
  ASSUME TreeInv, NEW t \in Threads, NEW new, NEW k \in Nat, NewPages(new, k), Locked(t, new),
         node' = new ++ node, rootLeaf' => rootLeaf
  PROVE  OthersPages(t)
<1>1. /\ Created \subseteq Created' /\ \A p \in Created : IsInner(p)' <=> IsInner(p)
      /\ \A p \in Created' \ DOMAIN new : node'[p] = node[p]
  BY WriteFacts
<1> QED BY <1>1 DEF OthersPages, PagesGrow, Locked

(* Written pages that have the children they had, or none. *)
LEMMA KidsKept ==
  ASSUME TreeInv, ParentsOK, NEW new, NEW k \in Nat, NewPages(new, k), node' = new ++ node,
         \A p \in DOMAIN new :
           \/ ~IsBranch(new[p])
           \/ p \in Created /\ IsBranch(node[p]) /\ new[p].children = node[p].children
  PROVE  ParentsOK'
<1>1. \A p \in DOMAIN new : \/ ~IsBranch(new[p]) /\ Kids(new[p]) = {}
                            \/ p \in Created /\ Kids(new[p]) = Kids(node[p])
  BY DEF Kids
<1>2. \A p \in DOMAIN new : IsBranch(new[p]) => IsInjective(new[p].children)
  BY DEF ParentsOK
<1>3. \A p \in DOMAIN new : p \notin Kids(new[p])
  BY <1>1 DEF ParentsOK
<1>4. \A p, q \in DOMAIN new : p # q => Kids(new[p]) \cap Kids(new[q]) = {}
  BY <1>1 DEF ParentsOK
<1>5. \A p \in DOMAIN new : \A c \in Kids(new[p]) : \E q \in DOMAIN new \cap Created : c \in Kids(node[q])
  BY <1>1
<1> QED BY <1>2, <1>3, <1>4, <1>5, ParentsWrite

(* The thread writes, and answers. *)
LEMMA ChangeRoom ==
  ASSUME TreeInv, TreeInv', RoomInv, NEW t \in Threads, pc[t] # "client", NEW new, NEW k \in Nat,
         NewPages(new, k), Locked(t, new), Change(t, new), headerFile' = headerFile,
         rootLeaf' => rootLeaf, \A p \in DOMAIN new : IsNode(new[p]), ParentsOK'
  PROVE  RoomInv'
<1>1. Answer(t, None) /\ Write(new)
  BY DEF Change
<1>2. node' = new ++ node /\ \A p \in DOMAIN stale' : IsNode(stale'[p])
  BY <1>1, StaleFits
<1>3. NodesFit'
  BY <1>2, WrittenFit
<1>4. OthersPages(t)
  BY <1>2, OthersWritten
<1> QED BY <1>1, <1>3, <1>4, AnswerRoom

(* It writes, and goes on with a queue. *)
QueueRoom(q) ==
  /\ \A e \in Range(q) :
       /\ IsMessages(e.messages, MAX_FLUSH_SIZE)
       /\ Cardinality(Blocks(node'[e.page], e.messages)) <= InnerN - Len(node'[e.page].pivots)
  /\ \A i, j \in DOMAIN q : i < j =>
       /\ q[j].page # q[i].page
       /\ q[j].page \notin Kids(node'[q[i].page])

LEMMA ContinueRoom ==
  ASSUME TreeInv, TreeInv', RoomInv, NEW t \in Threads, pc[t] # "client", NEW new, NEW k \in Nat,
         NewPages(new, k), Locked(t, new), Write(new), UNCHANGED header,
         \A p \in DOMAIN new : IsNode(new[p]), ParentsOK',
         NEW newQueue, QueueRoom(newQueue), Continue(t, newQueue)
  PROVE  RoomInv'
<1>1. rootLeaf' = rootLeaf /\ headerFile' = headerFile
  BY DEF header
<1>2. CASE newQueue = <<>>
  <2>1. Change(t, new)
    BY <1>2 DEF Continue, Change
  <2> QED BY <1>1, <2>1, ChangeRoom
<1>3. CASE newQueue # <<>>
  <2>1. Flushes(t, newQueue)
    BY <1>3 DEF Continue
  <2>2. LocalTypes /\ Open /\ CallOK(t) /\ HeaderFits
    BY InCall DEF RoomInv
  <2>3. /\ UNCHANGED client /\ exclusiveMode' = exclusiveMode /\ mode' = mode /\ current' = current
        /\ queue'[t] = newQueue /\ pc'[t] = "flush"
    BY <2>1, <2>2 DEF Flushes, LocalTypes, Go
  <2>4. \A u \in Threads \ {t} : access'[u] = access[u]
    BY <2>1, HoldsRow DEF Flushes
  <2>5. OthersStay(t)
    BY <2>1, <2>2, <2>3, <2>4 DEF Flushes, OthersStay, Stays, LocalTypes, Go, client
  <2>6. OthersCalls(t) /\ CurrentIn(t, Created')
    BY <2>3 DEF OthersCalls, client, CurrentIn
  <2>7. node' = new ++ node /\ \A p \in DOMAIN stale' : IsNode(stale'[p])
    BY StaleFits
  <2>8. NodesFit'
    BY <2>7, WrittenFit
  <2>9. OthersPages(t)
    BY <1>1, <2>7, OthersWritten
  <2>10. HeaderFits'
    BY <1>1, <2>2, <2>3 DEF HeaderFits, Open, client
  <2>11. CallOK(t)'
    BY <2>2, <2>3 DEF CallOK, client, Upserting
  <2>12. RootFits(t)'
    BY <2>3 DEF RootFits
  <2>13. QueueFits(t)'
    <3>1. /\ newQueue \in Seq(Range(newQueue))
          /\ \A e \in Range(newQueue) : EntryOK(t, e)'
      <4>1. FlushOK(t)'
        BY DEF TreeInv, ThreadOK
      <4> QED BY <2>3, <4>1 DEF FlushOK
    <3>2. ASSUME NEW i \in DOMAIN queue'[t], NEW e, e = queue'[t][i] PROVE EntryFits(t, e)'
      <4>1. e \in Range(newQueue)
        BY <2>3, <3>2 DEF Range
      <4> QED BY <3>1, <4>1 DEF EntryOK, EntryFits, QueueRoom, IsInner
    <3> QED BY <2>3, <3>1, <3>2 DEF QueueFits, QueueRoom
  <2> QED BY <2>5, <2>6, <2>8, <2>9, <2>10, <2>11, <2>12, <2>13, RoomStep
<1> QED BY <1>2, <1>3

(* The message of a thread. *)
LEMMA AloneFacts ==
  ASSUME RoomInv, NEW t \in Threads, pc[t] # "client", Upserting(t)
  PROVE  /\ Typed(Alone(t)) /\ IsMessages(Alone(t), MAX_FLUSH_SIZE) /\ Size(Alone(t)) = 1
         /\ DOMAIN Alone(t) = {Key(t)} /\ Alone(t)[Key(t)].type = call[t].op
         /\ Key(t) \in Keys /\ MAX_FLUSH_SIZE \in Nat /\ MAX_FLUSH_SIZE >= 2
<1>1. /\ call[t] \in CallType /\ message[t] \in Messages(Nat, Nat) /\ message[t].type = call[t].op
  BY DEF RoomInv, CallOK
<1>2. Key(t) \in Keys
  BY <1>1 DEF CallType, Key
<1> DEFINE k == Key(t)
<1>3. DOMAIN Alone(t) = {k} /\ Alone(t)[k] = message[t] /\ Range(Alone(t)) = {message[t]}
  BY DEF Alone, Range
<1> HIDE DEF k
<1>4. Typed(Alone(t))
  BY <1>1, <1>2, <1>3 DEF Typed, k
<1>5. Size(Alone(t)) = 1
  BY <1>3, FS_Singleton DEF Size
<1>6. MAX_FLUSH_SIZE \in Nat /\ MAX_FLUSH_SIZE >= 2
  BY SizesAssumption DEF MAX_FLUSH_SIZE
<1>7. IsMessages(Alone(t), MAX_FLUSH_SIZE)
  BY <1>4, <1>5, <1>6 DEF IsMessages, Typed
<1> QED BY <1>1, <1>2, <1>3, <1>4, <1>5, <1>6, <1>7 DEF k

(* A leaf and what is in it. *)
LEMMA LeafFacts ==
  ASSUME TreeInv, RoomInv, NEW p \in Created, IsLeaf(p)
  PROVE  PairsTyped(node[p].pairs) /\ Size(node[p].pairs) <= LeafN
BY DEF RoomInv, NodesFit, IsNode, IsLeaf, PairsTyped

(* A leaf takes one message. *)
LEMMA LeafTakes ==
  ASSUME TreeInv, TreeInv', RoomInv, NEW t \in Threads, pc[t] # "client", Upserting(t),
         NEW p \in Created, IsLeaf(p), access[t][p] = "write", NEW pairs, pairs = node[p].pairs,
         ~LeafIsFull(pairs) \/ call[t].op # "insert" \/ Key(t) \in DOMAIN pairs,
         Change(t, Only(p, Leaf(Apply(pairs, Alone(t))))), UNCHANGED header
  PROVE  RoomInv'
<1> DEFINE leaf == Leaf(Apply(pairs, Alone(t)))
           new == Only(p, leaf)
<1>1. DOMAIN new = {p} /\ new[p] = leaf
  BY DEF Only
<1>2. leaf.type = "leaf" /\ ~IsInner(p)
  BY LeafNode DEF IsLeaf, IsInner
<1>3. IsNode(leaf)
  <2>1. PairsTyped(pairs) /\ Size(pairs) <= LeafN
    BY LeafFacts
  <2>2. /\ Typed(Alone(t)) /\ DOMAIN Alone(t) = {Key(t)} /\ Alone(t)[Key(t)].type = call[t].op
    BY AloneFacts
  <2> QED BY <2>1, <2>2, OneMessageFits DEF LeafIsFull
<1> HIDE DEF leaf, new
<1>4. NewPages(new, 0)
  BY <1>1, <1>2, SamePages
<1>5. Locked(t, new)
  BY <1>1 DEF Locked
<1>6. Change(t, new) /\ node' = new ++ node /\ headerFile' = headerFile /\ rootLeaf' = rootLeaf
  BY DEF new, leaf, Change, Write, header
<1>7. ParentsOK'
  BY <1>1, <1>2, <1>4, <1>6, KidsKept DEF IsBranch, RoomInv
<1> QED BY <1>1, <1>3, <1>4, <1>5, <1>6, <1>7, ChangeRoom

(* A message takes effect in the root that is a leaf.                       *)
LEMMA RootLeafKeepsRoom ==
  ASSUME TreeInv, TreeInv', RoomInv, NEW t \in Threads, RootLeafKeeps(t)
  PROVE  RoomInv'
<1>1. pc[t] = "root" /\ Upserting(t) /\ IsLeaf(Root)
  BY DEF RootLeafKeeps, At
<1>2. access[t][Root] = "write" /\ Root \in Created /\ current[t] = Root
  BY <1>1, AtRootFacts, PageNumbers
<1> DEFINE pairs == node[Root].pairs
<1>3. /\ Change(t, Only(Root, Leaf(Apply(pairs, Alone(t))))) /\ UNCHANGED header
      /\ ~LeafIsFull(pairs) \/ call[t].op # "insert" \/ Key(t) \in DOMAIN pairs
  BY <1>2 DEF RootLeafKeeps, Here
<1> QED BY <1>1, <1>2, <1>3, LeafTakes

(* Only insert, update and erase come to a target.                          *)
LEMMA TargetUpserts ==
  ASSUME RoomInv, NEW t \in Threads, pc[t] = "target"
  PROVE  Upserting(t)
BY DEF RoomInv, CallOK

(* A message takes effect in a leaf below the root.                         *)
LEMMA TargetLeafKeepsRoom ==
  ASSUME TreeInv, TreeInv', RoomInv, NEW t \in Threads, TargetLeafKeeps(t)
  PROVE  RoomInv'
<1>1. pc[t] = "target" /\ IsLeaf(current[t])
  BY DEF TargetLeafKeeps, AtLeaf, At
<1>2. access[t][current[t]] = "write" /\ current[t] \in Created /\ Upserting(t)
  BY <1>1, AtTargetFacts, TargetUpserts
<1> DEFINE pairs == node[current[t]].pairs
<1>3. /\ Change(t, Only(current[t], Leaf(Apply(pairs, Alone(t))))) /\ UNCHANGED header
      /\ ~LeafIsFull(pairs) \/ call[t].op # "insert"
  BY DEF TargetLeafKeeps, Here, LeafMustSplit
<1> QED BY <1>1, <1>2, <1>3, LeafTakes

(* An inner node and what is in it. *)
LEMMA InnerFacts ==
  ASSUME TreeInv, RoomInv, NEW p \in Created \ {Root}, IsInner(p)
  PROVE  /\ IsMessages(node[p].upserts, InnerBN) /\ Typed(node[p].upserts)
         /\ Len(node[p].pivots) <= InnerN /\ Len(node[p].children) = Len(node[p].pivots) + 1
         /\ Len(node[p].pivots) \in Nat
         /\ \E b \in BOOLEAN : InnerOK(node[p], Kin(b))
         /\ InnerBN \in Nat \ {0} /\ InnerN \in Nat
<1>1. /\ IsMessages(node[p].upserts, InnerBN)
      /\ Len(node[p].pivots) <= InnerN /\ Len(node[p].children) = Len(node[p].pivots) + 1
  BY DEF RoomInv, NodesFit, IsNode, IsInner
<1>2. PICK b \in BOOLEAN : BranchOK(node[p], Kin(b))
  BY PageShape, BranchKin
<1>3. InnerOK(node[p], Kin(b))
  BY <1>2, PageShape DEF InnerOK
<1>4. Len(node[p].pivots) \in Nat
  <2> HIDE DEF Kin
  <2> QED BY <1>2, BranchFacts
<1> QED BY <1>1, <1>3, <1>4, SizesAssumption DEF IsMessages, Typed

(* A message is squashed or stored: the buffer has room.                    *)
LEMMA StoreUpsertRoom ==
  ASSUME TreeInv, TreeInv', RoomInv, NEW t \in Threads, StoreUpsert(t)
  PROVE  RoomInv'
<1> DEFINE p == current[t]
           old == node[p].upserts
           upserts == MergeUpserts(Alone(t), old)
           n == WithUpserts(node[p], upserts)
           new == Only(p, n)
<1>1. pc[t] = "target" /\ IsInner(p) /\ (Key(t) \in DOMAIN old \/ Size(old) < InnerBN)
  BY DEF StoreUpsert, AtInner, At, Stores, Here
<1>2. access[t][p] = "write" /\ p \in Created \ {Root} /\ Upserting(t)
  BY <1>1, AtTargetFacts, TargetUpserts
<1>3. Change(t, new) /\ UNCHANGED header
  BY DEF StoreUpsert, WithUpserts, Here
<1>4. node' = new ++ node /\ headerFile' = headerFile /\ rootLeaf' = rootLeaf
  BY <1>3 DEF Change, Write, header
<1>5. DOMAIN new = {p} /\ new[p] = n
  BY DEF Only
<1> HIDE DEF p
<1>6. IsMessages(upserts, InnerBN)
  <2>1. /\ Typed(old) /\ IsMessages(old, InnerBN) /\ InnerBN \in Nat
    BY <1>1, <1>2, InnerFacts
  <2>2. /\ Typed(Alone(t)) /\ Size(Alone(t)) = 1 /\ DOMAIN Alone(t) = {Key(t)}
    BY <1>1, <1>2, AloneFacts
  <2>3. /\ Typed(upserts) /\ DOMAIN upserts = {Key(t)} \cup DOMAIN old
        /\ Size(upserts) <= 1 + Size(old) /\ Size(old) \in Nat /\ Size(upserts) \in Nat
    BY <2>1, <2>2, MergeFits
  <2> HIDE DEF upserts, old
  <2>4. Size(upserts) <= InnerBN
    <3>1. CASE Key(t) \in DOMAIN old
      <4>1. DOMAIN upserts = DOMAIN old
        BY <2>3, <3>1
      <4> QED BY <2>1, <4>1 DEF Size, IsMessages
    <3>2. CASE Size(old) < InnerBN
      BY <2>1, <2>3, <3>2
    <3> QED BY <1>1, <3>1, <3>2 DEF old
  <2> QED BY <2>3, <2>4 DEF IsMessages, Typed
<1>7. /\ NewPages(new, 0) /\ Locked(t, new)
  <2> HIDE DEF upserts
  <2> QED BY <1>1, <1>2, <1>4, InnerWritten
<1>8. /\ n.type = "inner" /\ n.children = node[p].children /\ n.pivots = node[p].pivots
      /\ n.upserts = upserts /\ IsNode(n) /\ IsBranch(node[p])
  <2>1. PICK b \in BOOLEAN : InnerOK(node[p], Kin(b))
    BY <1>1, <1>2, InnerFacts
  <2>2. /\ n.type = "inner" /\ n.children = node[p].children /\ n.pivots = node[p].pivots
    <3> HIDE DEF Kin, upserts
    <3> QED BY <2>1, WithUpsertsShape DEF InnerOK
  <2>3. n.upserts = upserts
    <3>1. node[p] = Inner(node[p].pivots, node[p].children, node[p].upserts)
      BY <2>1 DEF InnerOK
    <3> HIDE DEF upserts
    <3>2. n = Inner(node[p].pivots, node[p].children, upserts)
      BY <3>1 DEF WithUpserts, Inner
    <3> QED BY <3>2 DEF Inner
  <2>4. Len(node[p].pivots) <= InnerN /\ Len(node[p].children) = Len(node[p].pivots) + 1
    BY <1>1, <1>2, InnerFacts
  <2> HIDE DEF n
  <2> QED BY <1>1, <1>6, <2>2, <2>3, <2>4 DEF IsNode, IsBranch, IsInner
<1> HIDE DEF n, new
<1>9. ParentsOK'
  BY <1>2, <1>4, <1>5, <1>7, <1>8, KidsKept DEF RoomInv
<1> QED BY <1>1, <1>3, <1>4, <1>5, <1>7, <1>8, <1>9, ChangeRoom

(***************************************************************************)
(* Nodes that are split.                                                   *)
(***************************************************************************)
(* The halves of a leaf that one or more messages are for. *)
LEMMA LeafHalves ==
  ASSUME NEW f, PairsTyped(f), Size(f) <= LeafN, NEW m, IsMessages(m, MAX_FLUSH_SIZE),
         DOMAIN m # {}
  PROVE  LET k == LeafMedian(f, m) IN
         /\ IsNode(Leaf(Apply(UpTo(f, k), UpTo(m, k))))
         /\ IsNode(Leaf(Apply(Above(f, k), Above(m, k))))
<1> DEFINE k == LeafMedian(f, m)
           fl == UpTo(f, k)
           ml == UpTo(m, k)
           fr == Above(f, k)
           mr == Above(m, k)
<1>1. LeafN \in Nat
  BY SizesAssumption
<1>2. ASSUME NEW g, PairsTyped(g), NEW h, Typed(h), IsFiniteSet(DOMAIN g \cup DOMAIN h),
             Cardinality(DOMAIN g \cup DOMAIN h) <= LeafN
      PROVE  IsNode(Leaf(Apply(g, h)))
  <2>1. PairsTyped(Apply(g, h)) /\ Size(Apply(g, h)) <= LeafN
    BY <1>1, <1>2, ApplyTyped, ApplyBelow
  <2> QED BY <2>1 DEF IsNode, Leaf, PairsTyped
<1>3. DOMAIN f \cup DOMAIN m # {}
  OBVIOUS
<1>4. /\ PairsTyped(fl) /\ PairsTyped(fr) /\ Typed(ml) /\ Typed(mr)
      /\ Cardinality(DOMAIN fl \cup DOMAIN ml) <= LeafN
      /\ Cardinality(DOMAIN fr \cup DOMAIN mr) <= LeafN
      /\ IsFiniteSet(DOMAIN fl \cup DOMAIN ml) /\ IsFiniteSet(DOMAIN fr \cup DOMAIN mr)
  BY <1>3, HalvesFitLeaf
<1> HIDE DEF fl, ml, fr, mr
<1>5. IsNode(Leaf(Apply(fl, ml))) /\ IsNode(Leaf(Apply(fr, mr)))
  BY <1>2, <1>4
<1> QED BY <1>5 DEF fl, ml, fr, mr

(* A root that is a leaf becomes a root above two leaves.                   *)
LEMMA RootLeafSplitsRoom ==
  ASSUME TreeInv, TreeInv', RoomInv, NEW t \in Threads, RootLeafSplits(t)
  PROVE  RoomInv'
<1> DEFINE pairs == node[Root].pairs
           median == LeafMedian(pairs, Alone(t))
           left == Leaf(Apply(UpTo(pairs, median), UpTo(Alone(t), median)))
           right == Leaf(Apply(Above(pairs, median), Above(Alone(t), median)))
           F == Fresh
           root == RootNode(<<median>>, <<F + 1, F>>)
           new == Only(Root, root) ++ Only(F, right) ++ Only(F + 1, left)
<1>1. pc[t] = "root" /\ Upserting(t) /\ IsLeaf(Root)
  BY DEF RootLeafSplits, At
<1>2. access[t][Root] = "write" /\ current[t] = Root /\ rootLeaf \in BOOLEAN /\ rootLeaf
  BY <1>1, AtRootFacts DEF HeaderOK
<1>3. /\ Root \in Created /\ Created = 1 .. F - 1 /\ F \in Nat /\ F > Root /\ Root = 1
  BY PageNumbers DEF Root
<1>4. /\ F + 1 <= MaxPages /\ Change(t, new) /\ rootLeaf' = FALSE /\ headerFile' = headerFile
  BY <1>2 DEF RootLeafSplits, Here
<1>5. IsNode(left) /\ IsNode(right)
  <2>1. PairsTyped(pairs) /\ Size(pairs) <= LeafN
    BY <1>1, <1>3, LeafFacts
  <2>2. IsMessages(Alone(t), MAX_FLUSH_SIZE) /\ DOMAIN Alone(t) # {}
    BY <1>1, AloneFacts
  <2> HIDE DEF pairs
  <2> QED BY <2>1, <2>2, LeafHalves
<1>6. left.type = "leaf" /\ right.type = "leaf"
  BY LeafNode
<1> HIDE DEF median, left, right
<1>7. /\ DOMAIN new = {Root, F, F + 1}
      /\ new[Root] = root /\ new[F] = right /\ new[F + 1] = left
  <2>1. F # Root /\ F + 1 # Root /\ F + 1 # F
    BY <1>3
  <2> QED BY <2>1, OverIs DEF Over, Only
<1> HIDE DEF new
<1>8. /\ root.type = "root" /\ root.children = <<F + 1, F>> /\ ~IsInner(Root)
      /\ IsInjective(root.children) /\ Kids(root) = {F + 1, F} /\ IsNode(root)
  <2>1. /\ root.type = "root" /\ root.children = <<F + 1, F>> /\ root.pivots = <<median>>
    BY DEF RootNode
  <2>2. F + 1 # F
    BY <1>3
  <2>3. IsInjective(<<F + 1, F>>) /\ Range(<<F + 1, F>>) = {F + 1, F}
    <3>1. DOMAIN <<F + 1, F>> = {1, 2}
      OBVIOUS
    <3> QED BY <2>2, <3>1 DEF IsInjective, Range
  <2>4. Len(<<median>>) = 1 /\ Len(<<F + 1, F>>) = 2 /\ 1 \in 1 .. RootN
    BY SizesAssumption
  <2> HIDE DEF root
  <2> QED BY <2>1, <2>3, <2>4, RootShape DEF Kids, IsBranch, IsNode
<1> HIDE DEF root
<1>9. NewPages(new, 2)
  <2>1. {Root, F, F + 1} \subseteq 1 .. F + 2 - 1 /\ F .. F + 2 - 1 = {F, F + 1} /\ F + 2 - 1 <= MaxPages
    BY <1>3, <1>4
  <2>2. {Root, F, F + 1} \cap Created = {Root}
    BY <1>3
  <2>3. \A p \in DOMAIN new \cap Created : (new[p].type = "inner") <=> IsInner(p)
    BY <1>7, <1>8, <2>2
  <2> QED BY <1>7, <2>1, <2>3 DEF NewPages, F
<1>10. Locked(t, new)
  <2>1. {Root, F, F + 1} \cap Created = {Root}
    BY <1>3
  <2> QED BY <1>2, <1>7, <2>1 DEF Locked
<1>11. node' = new ++ node
  BY <1>4 DEF Change, Write
<1>12. ParentsOK'
  <2>1. Kids(left) = {} /\ Kids(right) = {} /\ ~IsBranch(left) /\ ~IsBranch(right)
    BY <1>6 DEF Kids, IsBranch
  <2>2. F # Root /\ F + 1 # Root /\ F + 1 # F /\ F \notin Created /\ F + 1 \notin Created
    BY <1>3
  <2>3. \A p \in DOMAIN new : IsBranch(new[p]) => IsInjective(new[p].children)
    BY <1>7, <1>8, <2>1
  <2>4. \A p \in DOMAIN new : p \notin Kids(new[p])
    BY <1>7, <1>8, <2>1, <2>2
  <2>5. \A p, q \in DOMAIN new : p # q => Kids(new[p]) \cap Kids(new[q]) = {}
    BY <1>7, <2>1
  <2>6. \A p \in DOMAIN new : \A c \in Kids(new[p]) : c \notin Created
    BY <1>7, <1>8, <2>1, <2>2
  <2> QED BY <1>9, <1>11, <2>3, <2>4, <2>5, <2>6, ParentsWrite DEF RoomInv
<1>13. \A p \in DOMAIN new : IsNode(new[p])
  BY <1>5, <1>7, <1>8
<1> QED BY <1>1, <1>2, <1>4, <1>9, <1>10, <1>12, <1>13, ChangeRoom

(* Some of the pivots of a node, and the children around them. *)
LEMMA Segment ==
  ASSUME NEW n, NEW below, BranchOK(n, below), IsInjective(n.children),
         NEW a \in Nat, NEW b \in Nat, a <= b, b <= Len(n.pivots)
  PROVE  LET c == SubSeq(n.children, a + 1, b + 1)
             p == SubSeq(n.pivots, a + 1, b)
         IN
         /\ IsInjective(c) /\ Len(c) = Len(p) + 1 /\ Len(p) = b - a
         /\ \A x \in Range(c) : \E i \in a + 1 .. b + 1 : i \in DOMAIN n.children /\ x = n.children[i]
<1> DEFINE c == SubSeq(n.children, a + 1, b + 1)
           p == SubSeq(n.pivots, a + 1, b)
<1>1. /\ DOMAIN n.pivots = 1 .. Len(n.pivots) /\ Len(n.pivots) \in Nat
      /\ DOMAIN n.children = 1 .. Len(n.pivots) + 1
      /\ \A i \in 1 .. Len(n.pivots) + 1 : n.children[i] \in below
  BY BranchFacts
<1>2. \A i \in a + 1 .. b : n.pivots[i] \in Range(n.pivots)
  BY <1>1, SMTT(30) DEF Range
<1>3. Len(p) = IF a + 1 <= b THEN b - (a + 1) + 1 ELSE 0
  BY <1>2, SubSeqProperties
<1>4. \A i \in a + 1 .. b + 1 : n.children[i] \in below /\ i \in DOMAIN n.children
  BY <1>1
<1>5. /\ c \in Seq(below)
      /\ Len(c) = IF a + 1 <= b + 1 THEN b + 1 - (a + 1) + 1 ELSE 0
      /\ \A i \in 1 .. b + 1 - (a + 1) + 1 : c[i] = n.children[a + 1 + i - 1]
  BY <1>4, SubSeqProperties
<1> HIDE DEF p, c
<1>6. Len(p) = b - a /\ Len(c) = b - a + 1 /\ DOMAIN c = 1 .. b - a + 1
  <2>1. DOMAIN c = 1 .. Len(c)
    BY <1>5, LenProperties
  <2> QED BY <1>3, <1>5, <2>1
<1>7. \A i \in DOMAIN c : a + i \in a + 1 .. b + 1 /\ c[i] = n.children[a + i]
  <2>1. ASSUME NEW i \in 1 .. b - a + 1
        PROVE  a + i \in a + 1 .. b + 1 /\ c[i] = n.children[a + i]
    <3>1. i \in 1 .. b + 1 - (a + 1) + 1 /\ a + 1 + i - 1 = a + i /\ a + i \in a + 1 .. b + 1
      OBVIOUS
    <3> QED BY <1>5, <3>1
  <2> QED BY <1>6, <2>1
<1>8. IsInjective(c)
  <2> SUFFICES ASSUME NEW i \in DOMAIN c, NEW j \in DOMAIN c, c[i] = c[j] PROVE i = j
    BY DEF IsInjective
  <2>1. a + i \in DOMAIN n.children /\ a + j \in DOMAIN n.children /\ n.children[a + i] = n.children[a + j]
    BY <1>4, <1>7
  <2>2. a + i = a + j
    BY <2>1 DEF IsInjective
  <2> QED BY <1>6, <2>2
<1>9. \A x \in Range(c) : \E i \in a + 1 .. b + 1 : i \in DOMAIN n.children /\ x = n.children[i]
  <2> SUFFICES ASSUME NEW i \in DOMAIN c
               PROVE  \E j \in a + 1 .. b + 1 : j \in DOMAIN n.children /\ c[i] = n.children[j]
    BY DEF Range
  <2> QED BY <1>4, <1>7
<1> QED BY <1>6, <1>8, <1>9 DEF p, c

(* Part i of a root that is split has at most ChildPivots pivots, and its   *)
(* children come from the i-th section of the children of the root.         *)
Section(i) == (i - 1) * (ChildPivots + 1) + 1 .. (i - 1) * (ChildPivots + 1) + ChildPivots + 1

(* The children of the root that come into different parts.                 *)
LEMMA SectionsApart ==
  ASSUME NEW i \in Nat \ {0}, NEW j \in Nat \ {0}, i # j
  PROVE  Section(i) \cap Section(j) = {}
<1> DEFINE d == ChildPivots + 1
<1>1. d \in Nat \ {0} /\ ChildPivots \in Nat /\ ChildPivots = d - 1
  BY SizesAssumption DEF ChildPivots
<1> HIDE DEF d
<1>2. ASSUME NEW a \in Nat \ {0}, NEW b \in Nat \ {0}, a < b PROVE (a - 1) * d + d <= (b - 1) * d
  <2>1. PICK e \in Nat : b = a + 1 + e
    <3>1. b - a - 1 \in Nat /\ b = a + 1 + (b - a - 1)
      BY <1>2
    <3> QED BY <3>1
  <2>2. (b - 1) * d = (a - 1) * d + d + e * d
    BY <1>1, <2>1, SMT
  <2>3. e * d \in Nat /\ (a - 1) * d \in Nat /\ (b - 1) * d \in Nat
    BY <1>1, SMT
  <2> QED BY <1>1, <2>2, <2>3
<1>3. ASSUME NEW a \in Nat \ {0}, NEW b \in Nat \ {0}, a < b, NEW x \in Section(a), x \in Section(b)
      PROVE  FALSE
  <2> DEFINE u == (a - 1) * d
             v == (b - 1) * d
  <2>1. u \in Nat /\ v \in Nat
    BY <1>1, SMT
  <2>2. u + d <= v
    BY <1>2, <1>3
  <2>3. x \in u + 1 .. u + ChildPivots + 1 /\ x \in v + 1 .. v + ChildPivots + 1
    BY <1>3 DEF Section, d
  <2> HIDE DEF u, v
  <2> QED BY <1>1, <2>1, <2>2, <2>3
<1>4. i < j \/ j < i
  OBVIOUS
<1> QED BY <1>3, <1>4

(* A part of the root is an inner node that fits.                           *)
LEMMA PartFacts ==
  ASSUME NEW n, NEW below, BranchOK(n, below), Len(n.pivots) >= 1, NEW i \in 1 .. Parts(n),
         IsInjective(n.children)
  PROVE  LET part == PartOfRoot(n, i) IN
         /\ part.type = "inner" /\ IsInjective(part.children) /\ part.upserts = Empty
         /\ Len(part.children) = Len(part.pivots) + 1 /\ Len(part.pivots) <= InnerN
         /\ \A x \in Range(part.children) : \E j \in Section(i) :
              j \in DOMAIN n.children /\ x = n.children[j]
<1> DEFINE L == Len(n.pivots)
           c == ChildPivots
           parts == Parts(n)
           start == (i - 1) * (c + 1)
           rest == L - start
           size == Min({c, rest})
<1>1. L \in Nat /\ c \in Nat \ {0} /\ parts \in Nat \ {0} /\ i \in 1 .. parts
  BY BranchFacts, PartsNumber
<1>2. parts = (L + c) \div (c + 1)
  BY DEF Parts
<1>3. PartOfRoot(n, i) = Inner(SubSeq(n.pivots, start + 1, start + size),
                               SubSeq(n.children, start + 1, start + size + 1), Empty)
  BY DEF PartOfRoot
<1>0. Section(i) = start + 1 .. start + c + 1
  BY DEF Section
<1>9. c <= InnerN /\ InnerN \in Nat
  BY SizesAssumption DEF ChildPivots
<1> HIDE DEF L, c, parts
<1>4. start \in Nat /\ start <= L
  BY <1>1, <1>2, PartBounds
<1> HIDE DEF start
<1>5. size \in Nat /\ size <= L - start /\ size <= c
  <2>1. rest \in Nat /\ rest = L - start
    BY <1>1, <1>4
  <2> HIDE DEF rest
  <2>2. size \in {c, rest} /\ size <= rest /\ size <= c
    <3>1. c \in Int /\ rest \in Int
      BY <1>1, <2>1
    <3> QED BY <3>1, MinOfTwo, Zenon
  <2> HIDE DEF size
  <2> QED BY <1>1, <2>1, <2>2
<1> HIDE DEF size
<1> DEFINE b == start + size
           ch == SubSeq(n.children, start + 1, b + 1)
           pv == SubSeq(n.pivots, start + 1, b)
<1>6. b \in Nat /\ start <= b /\ b <= Len(n.pivots) /\ b - start = size /\ b <= start + c
  BY <1>1, <1>4, <1>5 DEF L
<1>7. PartOfRoot(n, i) = Inner(pv, ch, Empty)
  BY <1>3
<1> HIDE DEF b
<1>8. /\ IsInjective(ch) /\ Len(ch) = Len(pv) + 1 /\ Len(pv) = b - start
      /\ \A x \in Range(ch) : \E j \in start + 1 .. b + 1 : j \in DOMAIN n.children /\ x = n.children[j]
  BY <1>4, <1>6, Segment
<1>10. start + 1 .. b + 1 \subseteq Section(i)
  BY <1>0, <1>1, <1>4, <1>6
<1> HIDE DEF ch, pv
<1>11. Len(pv) <= InnerN
  <2>1. Len(pv) = size
    BY <1>6, <1>8
  <2> QED BY <1>1, <1>5, <1>9, <2>1
<1>12. \A x \in Range(ch) : \E j \in Section(i) : j \in DOMAIN n.children /\ x = n.children[j]
  BY <1>8, <1>10
<1>13. LET part == PartOfRoot(n, i) IN
       part.type = "inner" /\ part.pivots = pv /\ part.children = ch /\ part.upserts = Empty
  BY <1>7 DEF Inner
<1> QED BY <1>8, <1>11, <1>12, <1>13

(* The root after its split has room, and no child twice. *)
LEMMA RootPartsFit ==
  ASSUME NEW n, NEW from, BranchOK(n, from), Len(n.pivots) = RootN, NEW first \in Nat
  PROVE  LET root == RootOfParts(n, first) IN
         /\ root.type = "root" /\ IsNode(root) /\ IsInjective(root.children)
         /\ Range(root.children) = first .. first + Parts(n) - 1
<1> DEFINE root == RootOfParts(n, first)
           L == Len(n.pivots)
           c == ChildPivots
           m == Parts(n)
           l == Len(root.pivots)
<1>1. L >= 1 /\ L \in Nat /\ L = RootN
  BY SizesAssumption
<1>2. m \in Nat \ {0} /\ c \in Nat \ {0}
  BY <1>1, PartsNumber
<1>3. L >= 2 * c + 1
  BY SizesAssumption DEF ChildPivots
<1>4. m = (L + c) \div (c + 1)
  BY DEF Parts
<1>5. m >= 2 /\ m - 1 <= L
  <2> HIDE DEF L, c, m
  <2>1. m * (c + 1) <= L + c /\ L + c < m * (c + 1) + (c + 1)
    BY <1>1, <1>2, <1>4, SMT
  <2>2. m # 1
    BY <1>1, <1>2, <1>3, <2>1
  <2>3. m * (c + 1) = m * c + m /\ m * c >= m
    BY <1>2, SMT
  <2> DEFINE x == m * c
  <2>4. x \in Nat
    BY <1>2, SMT
  <2>5. x + m <= L + c /\ x >= m
    BY <2>1, <2>3
  <2> HIDE DEF x
  <2> QED BY <1>1, <1>2, <1>3, <2>2, <2>4, <2>5
<1>6. /\ RootOK(root, first .. first + m - 1) /\ DOMAIN root.children = 1 .. m
      /\ Range(root.children) = first .. first + m - 1
  BY <1>1, RootOfPartsShape
<1>7. root.type = "root" /\ BranchOK(root, first .. first + m - 1)
  BY <1>6 DEF RootOK
<1>8. IsInjective(root.children)
  <2>1. root.children = [i \in 1 .. m |-> first + i - 1]
    BY DEF RootOfParts, RootNode
  <2> HIDE DEF m
  <2>2. IsInjective([i \in 1 .. m |-> first + i - 1])
    BY <1>2 DEF IsInjective
  <2> QED BY <2>1, <2>2
<1> HIDE DEF root, m, L, c
<1>9. l \in Nat /\ DOMAIN root.children = 1 .. l + 1 /\ Len(root.children) = l + 1
  BY <1>7, BranchFacts
<1> HIDE DEF l
<1>10. l + 1 = m
  <2>1. l + 1 \in 1 .. m /\ m \in 1 .. l + 1
    BY <1>2, <1>6, <1>9
  <2> QED BY <1>2, <1>9, <2>1
<1>11. l \in 1 .. RootN
  BY <1>1, <1>2, <1>5, <1>9, <1>10
<1>12. IsNode(root)
  BY <1>7, <1>9, <1>11 DEF IsNode, l
<1> QED BY <1>6, <1>7, <1>8, <1>12 DEF root, m

(* An empty buffer fits everywhere.                                         *)
LEMMA EmptyFits == ASSUME NEW n \in Nat PROVE IsMessages(Empty, n) /\ Typed(Empty)
<1>1. DOMAIN Empty = {} /\ Range(Empty) = {}
  BY DEF Empty, Range
<1>2. Size(Empty) = 0
  BY <1>1, FS_EmptySet DEF Size
<1> QED BY <1>1, <1>2 DEF IsMessages, Typed

(* The root is split into inner nodes that fit.                             *)
LEMMA SplitRootRoom ==
  ASSUME TreeInv, TreeInv', RoomInv, NEW t \in Threads, SplitRoot(t)
  PROVE  RoomInv'
<1> DEFINE n == node[Root]
           F == Fresh
           k == Parts(n)
           root == RootOfParts(n, F)
           target == ChildOf(root, Key(t))
           part(p) == PartOfRoot(n, p - F + 1)
           mine(p) == IF p = target THEN WithUpserts(part(p), Alone(t)) ELSE part(p)
           new == [p \in {Root} \cup ToSet(root.children) |-> IF p = Root THEN root ELSE mine(p)]
<1>1. pc[t] = "root" /\ ~IsLeaf(Root) /\ exclusiveMode[t] /\ RootIsFull /\ Upserting(t)
  BY DEF SplitRoot, AtRoot, At
<1>2. current[t] = Root /\ access[t][Root] = "write" /\ IsBranch(n)
  BY <1>1, AtRootFacts
<1>3. /\ Root \in Created /\ Created = 1 .. F - 1 /\ F \in Nat /\ F > Root /\ Root = 1
  BY PageNumbers DEF Root
<1>4. F + k - 1 <= MaxPages /\ Change(t, new) /\ headerFile' = headerFile /\ rootLeaf' = rootLeaf
  BY <1>2 DEF SplitRoot, Here, WithUpserts, header
<1>5. PICK b \in BOOLEAN : BranchOK(n, Kin(b))
  BY <1>2, <1>3, BranchKin
<1>6. Len(n.pivots) = RootN /\ Len(n.pivots) >= 1
  BY <1>1, SizesAssumption DEF RootIsFull
<1>7. k \in Nat \ {0}
  BY <1>5, <1>6, PartsNumber
<1>0. IsInjective(n.children) /\ Kids(n) = Range(n.children) /\ Kids(n) \subseteq Created
  <2>1. Kids(n) = Range(n.children)
    BY <1>2 DEF Kids
  <2>2. IsInjective(n.children)
    BY <1>2, <1>3 DEF RoomInv, ParentsOK
  <2> QED BY <1>3, <2>1, <2>2, KidsInTree
<1> HIDE DEF n, F, k, target
<1>8. /\ root.type = "root" /\ IsNode(root) /\ IsInjective(root.children)
      /\ Range(root.children) = F .. F + k - 1
  BY <1>3, <1>5, <1>6, RootPartsFit DEF k
<1> HIDE DEF root
<1>9. /\ DOMAIN new = {Root} \cup (F .. F + k - 1) /\ new[Root] = root
      /\ \A p \in F .. F + k - 1 : new[p] = mine(p) /\ p # Root /\ p \notin Created
  <2>1. ToSet(root.children) = F .. F + k - 1
    BY <1>8 DEF Range, ToSet
  <2>2. \A p \in F .. F + k - 1 : p # Root /\ p \notin Created
    BY <1>3
  <2> HIDE DEF mine
  <2> QED BY <2>1, <2>2
<1> HIDE DEF new
<1>10. ASSUME NEW p \in F .. F + k - 1
       PROVE  /\ mine(p).type = "inner" /\ IsNode(mine(p)) /\ IsInjective(mine(p).children)
              /\ \A x \in Range(mine(p).children) : \E j \in Section(p - F + 1) :
                   j \in DOMAIN n.children /\ x = n.children[j]
  <2> DEFINE q == part(p)
             u == mine(p)
  <2>1. p - F + 1 \in 1 .. Parts(n)
    BY <1>3, <1>7 DEF k
  <2>2. InnerOK(q, Kin(b))
    <3> HIDE DEF Kin
    <3> QED BY <1>5, <1>6, <2>1, PartOfRootShape
  <2>3. /\ q.type = "inner" /\ IsInjective(q.children) /\ q.upserts = Empty
        /\ Len(q.children) = Len(q.pivots) + 1 /\ Len(q.pivots) <= InnerN
        /\ \A x \in Range(q.children) : \E j \in Section(p - F + 1) :
             j \in DOMAIN n.children /\ x = n.children[j]
    BY <1>0, <1>5, <1>6, <2>1, PartFacts
  <2> HIDE DEF q
  <2>4. u.type = "inner" /\ u.children = q.children /\ u.pivots = q.pivots
    <3>1. LET w == WithUpserts(q, Alone(t)) IN
          w.type = "inner" /\ w.children = q.children /\ w.pivots = q.pivots
      <4> HIDE DEF Kin
      <4> QED BY <2>2, WithUpsertsShape DEF InnerOK
    <3>2. u = q \/ u = WithUpserts(q, Alone(t))
      BY DEF q
    <3> HIDE DEF u
    <3> QED BY <2>3, <3>1, <3>2
  <2>5. IsMessages(u.upserts, InnerBN)
    <3>1. IsMessages(Empty, InnerBN) /\ InnerBN \in Nat /\ InnerBN >= 1
      BY SizesAssumption, EmptyFits
    <3>2. IsMessages(Alone(t), InnerBN)
      <4>1. Typed(Alone(t)) /\ Size(Alone(t)) = 1
        BY <1>1, AloneFacts
      <4> QED BY <3>1, <4>1 DEF IsMessages, Typed
    <3>3. u = q \/ u = WithUpserts(q, Alone(t))
      BY DEF q
    <3>4. WithUpserts(q, Alone(t)).upserts = Alone(t)
      <4>1. q = Inner(q.pivots, q.children, q.upserts)
        BY <2>2 DEF InnerOK
      <4> DEFINE pv == q.pivots
                 ch == q.children
                 up == q.upserts
                 al == Alone(t)
      <4>2. q = Inner(pv, ch, up)
        BY <4>1
      <4> HIDE DEF pv, ch, up, al
      <4>3. WithUpserts(q, al) = Inner(pv, ch, al)
        BY <4>2 DEF WithUpserts, Inner
      <4>4. WithUpserts(q, al).upserts = al
        BY <4>3 DEF Inner
      <4> QED BY <4>4 DEF al
    <3> HIDE DEF u
    <3> QED BY <2>3, <3>1, <3>2, <3>3, <3>4
  <2> HIDE DEF u
  <2>6. IsNode(u)
    BY <2>3, <2>4, <2>5 DEF IsNode
  <2> QED BY <2>3, <2>4, <2>6 DEF u
<1> HIDE DEF mine
<1>11. NewPages(new, k)
  <2>1. {Root} \cup (F .. F + k - 1) \subseteq 1 .. F + k - 1
    BY <1>3, <1>7
  <2>2. ({Root} \cup (F .. F + k - 1)) \cap Created = {Root}
    BY <1>3, <1>9
  <2>3. ~IsInner(Root)
    BY <1>2, <1>3, RootShape DEF IsInner, n
  <2>4. \A p \in DOMAIN new \cap Created : (new[p].type = "inner") <=> IsInner(p)
    BY <1>8, <1>9, <2>2, <2>3
  <2> QED BY <1>4, <1>9, <2>1, <2>4 DEF NewPages, F
<1>12. Locked(t, new)
  BY <1>2, <1>9 DEF Locked
<1>13. node' = new ++ node
  BY <1>4 DEF Change, Write
<1>14. \A p \in F .. F + k - 1 :
         /\ IsBranch(mine(p)) /\ Kids(mine(p)) = Range(mine(p).children)
         /\ Kids(mine(p)) \subseteq Kids(n)
  <2>1. ASSUME NEW p \in F .. F + k - 1
        PROVE  /\ IsBranch(mine(p)) /\ Kids(mine(p)) = Range(mine(p).children)
               /\ Kids(mine(p)) \subseteq Kids(n)
    <3>1. IsBranch(mine(p)) /\ Kids(mine(p)) = Range(mine(p).children)
      BY <1>10 DEF IsBranch, Kids
    <3>2. Range(mine(p).children) \subseteq Range(n.children)
      BY <1>10 DEF Range
    <3> QED BY <1>0, <3>1, <3>2
  <2> QED BY <2>1
<1>15. Kids(root) = F .. F + k - 1
  BY <1>8 DEF Kids, IsBranch
<1>16. ASSUME NEW p \in F .. F + k - 1, NEW q \in F .. F + k - 1, p # q
       PROVE  Kids(mine(p)) \cap Kids(mine(q)) = {}
  <2> SUFFICES ASSUME NEW x, x \in Kids(mine(p)), x \in Kids(mine(q)) PROVE FALSE
    OBVIOUS
  <2>1. PICK i \in Section(p - F + 1) : i \in DOMAIN n.children /\ x = n.children[i]
    BY <1>10, <1>14
  <2>2. PICK j \in Section(q - F + 1) : j \in DOMAIN n.children /\ x = n.children[j]
    BY <1>10, <1>14
  <2>3. i = j
    BY <1>0, <2>1, <2>2 DEF IsInjective
  <2>4. p - F + 1 \in Nat \ {0} /\ q - F + 1 \in Nat \ {0} /\ p - F + 1 # q - F + 1
    BY <1>3, <1>7, <1>16
  <2>5. Section(p - F + 1) \cap Section(q - F + 1) = {}
    BY <2>4, SectionsApart
  <2> QED BY <2>3, <2>5
<1>17. ParentsOK'
  <2>1. \A p \in DOMAIN new : IsBranch(new[p]) => IsInjective(new[p].children)
    BY <1>8, <1>9, <1>10
  <2>2. \A p \in DOMAIN new : p \notin Kids(new[p])
    BY <1>0, <1>3, <1>9, <1>14, <1>15
  <2>3. \A p, q \in DOMAIN new : p # q => Kids(new[p]) \cap Kids(new[q]) = {}
    <3>1. \A p \in F .. F + k - 1 : Kids(mine(p)) \cap Kids(root) = {}
      BY <1>0, <1>9, <1>14, <1>15
    <3> QED BY <1>9, <1>16, <3>1
  <2>4. \A p \in DOMAIN new : \A c \in Kids(new[p]) :
          c \in Created => \E q \in DOMAIN new \cap Created : c \in Kids(node[q])
    <3>1. Root \in DOMAIN new \cap Created /\ Kids(node[Root]) = Kids(n)
      BY <1>3, <1>9 DEF n
    <3> QED BY <1>9, <1>14, <1>15, <3>1
  <2> QED BY <1>7, <1>11, <1>13, <2>1, <2>2, <2>3, <2>4, ParentsWrite DEF RoomInv
<1>18. \A p \in DOMAIN new : IsNode(new[p])
  BY <1>8, <1>9, <1>10
<1> QED BY <1>1, <1>4, <1>7, <1>11, <1>12, <1>17, <1>18, ChangeRoom

(* The halves of an inner node: either has room for a pivot from each of    *)
(* its children.                                                            *)
LEMMA HalvesRoom ==
  ASSUME NEW n, NEW below, InnerOK(n, below), IsInjective(n.children),
         IsMessages(n.upserts, InnerBN), Len(n.pivots) <= InnerN, Len(n.pivots) >= 1
  PROVE  LET l == LeftInner(n)
             r == RightInner(n)
         IN
         /\ l.type = "inner" /\ r.type = "inner" /\ IsNode(l) /\ IsNode(r)
         /\ IsInjective(l.children) /\ IsInjective(r.children)
         /\ Kids(l) \subseteq Kids(n) /\ Kids(r) \subseteq Kids(n) /\ Kids(l) \cap Kids(r) = {}
         /\ \A m : Cardinality(Blocks(l, m)) <= InnerN - Len(l.pivots)
         /\ \A m : Cardinality(Blocks(r, m)) <= InnerN - Len(r.pivots)
<1> DEFINE L == Len(n.pivots)
           s == SplitIndex(n)
           l == LeftInner(n)
           r == RightInner(n)
           ul == UpTo(n.upserts, InnerPivot(n))
           ur == Above(n.upserts, InnerPivot(n))
           pl == SubSeq(n.pivots, 0 + 1, s - 1)
           cl == SubSeq(n.children, 0 + 1, s - 1 + 1)
           pr == SubSeq(n.pivots, s + 1, L)
           cr == SubSeq(n.children, s + 1, L + 1)
<1>1. BranchOK(n, below) /\ n.type = "inner"
  BY DEF InnerOK
<1>2. L \in Nat /\ L >= 1 /\ Len(n.children) = L + 1
  BY <1>1, BranchFacts
<1>3. s = (L - 1) \div 2 + 1
  BY DEF SplitIndex
<1>4. InnerN \in Nat /\ InnerN % 2 = 1 /\ InnerBN \in Nat /\ L <= InnerN
  BY SizesAssumption
<1>5. IsMessages(ul, InnerBN) /\ IsMessages(ur, InnerBN)
  BY <1>4, HalfFits
<1>6. InnerOK(l, below) /\ InnerOK(r, below)
  BY <1>1, <1>2, HalvesShape
<1> HIDE DEF L, s, ul, ur
<1>7. s \in 1 .. L /\ 2 * (s - 1) + 1 <= InnerN /\ 2 * (L - s) + 1 <= InnerN
  BY <1>2, <1>3, <1>4
<1>8. l = Inner(pl, cl, ul)
  <2>1. s - 1 + 1 = s /\ 0 + 1 = 1
    BY <1>2, <1>7
  <2>2. l = Inner(SubSeq(n.pivots, 1, s - 1), SubSeq(n.children, 1, s), ul)
    BY DEF LeftInner, s, ul
  <2> QED BY <2>1, <2>2
<1>9. r = Inner(pr, cr, ur)
  BY <1>2 DEF RightInner, s, ur, L
<1>10. /\ IsInjective(cl) /\ Len(cl) = Len(pl) + 1 /\ Len(pl) = s - 1 - 0
       /\ \A x \in Range(cl) : \E i \in 0 + 1 .. s - 1 + 1 : i \in DOMAIN n.children /\ x = n.children[i]
  <2>1. 0 \in Nat /\ s - 1 \in Nat /\ 0 <= s - 1 /\ s - 1 <= Len(n.pivots)
    BY <1>2, <1>7 DEF L
  <2> QED BY <1>1, <2>1, Segment
<1>11. /\ IsInjective(cr) /\ Len(cr) = Len(pr) + 1 /\ Len(pr) = L - s
       /\ \A x \in Range(cr) : \E i \in s + 1 .. L + 1 : i \in DOMAIN n.children /\ x = n.children[i]
  <2>1. s \in Nat /\ L \in Nat /\ s <= L /\ L <= Len(n.pivots)
    BY <1>2, <1>7 DEF L
  <2> QED BY <1>1, <2>1, Segment
<1> HIDE DEF pl, cl, pr, cr, l, r
<1>12. /\ l.type = "inner" /\ l.pivots = pl /\ l.children = cl /\ l.upserts = ul
       /\ r.type = "inner" /\ r.pivots = pr /\ r.children = cr /\ r.upserts = ur
  BY <1>8, <1>9 DEF Inner
<1>13. Kids(l) = Range(cl) /\ Kids(r) = Range(cr) /\ Kids(n) = Range(n.children)
  BY <1>1, <1>12 DEF Kids, IsBranch
<1>14. Kids(l) \subseteq Kids(n) /\ Kids(r) \subseteq Kids(n)
  BY <1>10, <1>11, <1>13 DEF Range
<1>15. Kids(l) \cap Kids(r) = {}
  <2> SUFFICES ASSUME NEW x \in Range(cl), x \in Range(cr) PROVE FALSE
    BY <1>13
  <2>1. PICK i \in 0 + 1 .. s - 1 + 1 : i \in DOMAIN n.children /\ x = n.children[i]
    BY <1>10
  <2>2. PICK j \in s + 1 .. L + 1 : j \in DOMAIN n.children /\ x = n.children[j]
    BY <1>11
  <2>3. i = j
    BY <2>1, <2>2 DEF IsInjective
  <2> QED BY <1>2, <1>7, <2>3
<1>16. Len(pl) \in Nat /\ Len(pr) \in Nat /\ 2 * Len(pl) + 1 <= InnerN /\ 2 * Len(pr) + 1 <= InnerN
  BY <1>2, <1>7, <1>10, <1>11
<1>17. IsNode(l) /\ IsNode(r)
  BY <1>4, <1>5, <1>10, <1>11, <1>12, <1>16, SMTT(30) DEF IsNode
<1>18. ASSUME NEW m
       PROVE  /\ Cardinality(Blocks(l, m)) <= InnerN - Len(l.pivots)
              /\ Cardinality(Blocks(r, m)) <= InnerN - Len(r.pivots)
  <2>1. /\ Cardinality(Blocks(l, m)) \in Nat /\ Cardinality(Blocks(l, m)) <= Len(l.pivots) + 1
        /\ Cardinality(Blocks(r, m)) \in Nat /\ Cardinality(Blocks(r, m)) <= Len(r.pivots) + 1
    BY <1>6, BlocksPartition DEF InnerOK
  <2> DEFINE x == Cardinality(Blocks(l, m))
             y == Cardinality(Blocks(r, m))
  <2> HIDE DEF x, y
  <2>2. x \in Nat /\ x <= Len(pl) + 1 /\ y \in Nat /\ y <= Len(pr) + 1
    BY <1>12, <2>1 DEF x, y
  <2>3. x <= InnerN - Len(pl) /\ y <= InnerN - Len(pr)
    BY <1>4, <1>16, <2>2
  <2> QED BY <1>12, <2>3 DEF x, y
<1> QED BY <1>10, <1>11, <1>12, <1>14, <1>15, <1>17, <1>18 DEF l, r

(* What comes into the queue for one page, and for the halves of a node. *)
LEMMA EntryRoom ==
  ASSUME NEW page, NEW messages
  PROVE  LET q == Entry(page, messages) IN
         /\ IsInjective(q) /\ q \in Seq(Range(q))
         /\ \A e \in Range(q) : e.page = page /\ e.messages = messages
         /\ \A e, f \in Range(q) : e = f
<1> DEFINE entry == [page |-> page, messages |-> messages]
<1>1. entry.page = page /\ entry.messages = messages
  OBVIOUS
<1> HIDE DEF entry
<1>2. Entry(page, messages) = OneIf(DOMAIN messages # {}, entry)
  BY DEF Entry, entry
<1>3. (DOMAIN messages # {}) \in BOOLEAN
  OBVIOUS
<1>4. /\ IsInjective(OneIf(DOMAIN messages # {}, entry))
      /\ Range(OneIf(DOMAIN messages # {}, entry)) \subseteq {entry}
  BY <1>3, OneDistinct
<1> QED BY <1>1, <1>2, <1>4, EntryFacts

(* The entries for the halves of a node are for different pages.            *)
LEMMA SplitEntriesRoom ==
  ASSUME NEW left, NEW right, left # right, NEW pivot, NEW messages,
         IsMessages(messages, MAX_FLUSH_SIZE)
  PROVE  LET q == SplitEntries(left, right, pivot, messages) IN
         /\ IsInjective(q) /\ q \in Seq(Range(q))
         /\ \A e \in Range(q) : e.page \in {left, right} /\ IsMessages(e.messages, MAX_FLUSH_SIZE)
         /\ \A e, f \in Range(q) : e.page = f.page => e = f
<1> DEFINE a == Entry(left, UpTo(messages, pivot))
           b == Entry(right, Above(messages, pivot))
           S == Range(a) \cup Range(b)
<1>1. /\ IsInjective(a) /\ a \in Seq(Range(a)) /\ \A e, f \in Range(a) : e = f
      /\ \A e \in Range(a) : e.page = left /\ e.messages = UpTo(messages, pivot)
  BY EntryRoom
<1>2. /\ IsInjective(b) /\ b \in Seq(Range(b)) /\ \A e, f \in Range(b) : e = f
      /\ \A e \in Range(b) : e.page = right /\ e.messages = Above(messages, pivot)
  BY EntryRoom
<1>3. IsMessages(UpTo(messages, pivot), MAX_FLUSH_SIZE) /\ IsMessages(Above(messages, pivot), MAX_FLUSH_SIZE)
  <2>1. MAX_FLUSH_SIZE \in Nat
    BY SizesAssumption DEF MAX_FLUSH_SIZE
  <2> QED BY <2>1, HalfFits
<1>4. SplitEntries(left, right, pivot, messages) = a \o b
  BY DEF SplitEntries
<1> HIDE DEF a, b
<1>5. a \in Seq(S) /\ b \in Seq(S)
  BY <1>1, <1>2, SeqMonotonic
<1>6. Range(a) \cap Range(b) = {}
  BY <1>1, <1>2
<1>7. IsInjective(a \o b) /\ Range(a \o b) = S
  <2> HIDE DEF S
  <2>1. IsInjective(a \o b) /\ Range(a \o b) = Range(a) \cup Range(b)
    BY <1>1, <1>2, <1>5, <1>6, JoinedDistinct
  <2> QED BY <2>1 DEF S
<1>8. a \o b \in Seq(S)
  BY <1>5, ConcatProperties
<1> QED BY <1>1, <1>2, <1>3, <1>4, <1>7, <1>8

(* The root and the halves of one of its children.                         *)
LEMMA TargetHalvesRoom ==
  ASSUME TreeInv, RoomInv, NEW t \in Threads, pc[t] = "target", exclusiveMode[t], Fresh <= MaxPages,
         NEW left, NEW right, NEW i \in DOMAIN node[Root].children, NEW pivot,
         NEW new, new = TargetHalves(t, i, pivot, left, right),
         NewPages(new, 1), node' = new ++ node, DOMAIN new = {Root, current[t], Fresh},
         new[current[t]] = left, new[Fresh] = right,
         IsNode(left), IsNode(right),
         Kids(left) \subseteq Kids(node[current[t]]), Kids(right) \subseteq Kids(node[current[t]]),
         Kids(left) \cap Kids(right) = {},
         IsBranch(left) => IsInjective(left.children),
         IsBranch(right) => IsInjective(right.children)
  PROVE  ParentsOK' /\ \A p \in DOMAIN new : IsNode(new[p])
<1> DEFINE F == Fresh
           c == current[t]
           splits == Only(i, [pivot |-> pivot, page |-> F])
           from == [p \in {c, F} |-> c]
           r == node[Root]
<1>1. ~IsLeaf(Root) /\ c \in Created \ {Root}
  BY AtTargetFacts
<1>2. /\ F \notin Created /\ F # Root /\ Root \in Created /\ F # c
  BY <1>1, PageNumbers
<1>3. IsBranch(r) /\ r.type = "root" /\ Len(r.pivots) \in 1 .. RootN
  <2>1. IsBranch(r) /\ r.type = "root"
    BY <1>1, RootShape DEF IsBranch, RootOK
  <2>2. IsNode(r)
    BY <1>2 DEF RoomInv, NodesFit
  <2> QED BY <2>1, <2>2 DEF IsNode
<1>4. Len(r.pivots) < RootN
  BY DEF RoomInv, RootFits
<1>5. DOMAIN splits = {i} /\ splits[i].page = F
  BY DEF Only
<1>6. new[Root] = InsertPivots(r, splits)
  <2> DEFINE m == InsertPivots(r, splits)
  <2>1. new = Only(Root, m) ++ Only(c, left) ++ Only(F, right)
    BY DEF TargetHalves
  <2>2. c # Root /\ F # Root /\ F # c
    BY <1>1, <1>2
  <2> HIDE DEF m, c, F, splits, from, r
  <2>3. new[Root] = m
    BY <2>1, <2>2, OverIs DEF Over, Only
  <2> QED BY <2>3 DEF m
<1> HIDE DEF splits
<1>7. ASSUME NEW p \in DOMAIN new \ {Root}
      PROVE  /\ from[p] = c /\ (p \in Created => p = c) /\ Kids(new[p]) \subseteq Kids(node[c])
             /\ IsBranch(new[p]) => IsInjective(new[p].children)
  <2>1. p = c \/ p = F
    BY <1>7
  <2> QED BY <1>2, <2>1
<1>8. \A p, q \in DOMAIN new \ {Root} : p # q => Kids(new[p]) \cap Kids(new[q]) = {}
  <2>1. \A p \in DOMAIN new \ {Root} : p = c \/ p = F
    OBVIOUS
  <2> QED BY <2>1
<1> HIDE DEF from
<1>9. SplitsOf(Root, splits, from, new)
  <2>1. c \in (DOMAIN new \cap Created) \ {Root} /\ Root \in DOMAIN new
    BY <1>1
  <2>2. DOMAIN splits \in SUBSET DOMAIN node[Root].children
    BY <1>5
  <2>3. /\ \A j \in DOMAIN splits : splits[j].page \notin Created
        /\ \A j, l \in DOMAIN splits : splits[j].page = splits[l].page => j = l
    BY <1>2, <1>5
  <2> QED BY <1>6, <1>7, <1>8, <2>1, <2>2, <2>3 DEF SplitsOf
<1>10. /\ ParentsOK' /\ Len(new[Root].pivots) = Len(r.pivots) + Cardinality(DOMAIN splits)
       /\ Len(new[Root].children) = Len(new[Root].pivots) + 1 /\ new[Root].type = r.type
  BY <1>2, <1>3, <1>9, ParentsSplit DEF RoomInv
<1>11. Len(new[Root].pivots) = Len(r.pivots) + 1
  <2>1. Cardinality({i}) = 1
    BY FS_Singleton
  <2>2. Len(new[Root].pivots) = Len(r.pivots) + Cardinality({i})
    BY <1>5, <1>10
  <2> HIDE DEF r
  <2> QED BY <2>1, <2>2
<1> DEFINE L == Len(r.pivots)
<1>12. L + 1 \in 1 .. RootN
  <2>1. L \in 1 .. RootN /\ L < RootN /\ RootN \in Nat
    BY <1>3, <1>4, SizesAssumption
  <2> HIDE DEF L
  <2> QED BY <2>1
<1>13. IsNode(new[Root])
  BY <1>3, <1>10, <1>11, <1>12 DEF IsNode
<1> QED BY <1>10, <1>13

(* A full leaf below the root is split.                                     *)
LEMMA TargetLeafSplitsRoom ==
  ASSUME TreeInv, TreeInv', RoomInv, NEW t \in Threads, TargetLeafSplits(t)
  PROVE  RoomInv'
<1> DEFINE c == current[t]
           F == Fresh
           median == LeafMedian(Here(t).pairs, Alone(t))
           left == Leaf(Apply(UpTo(Here(t).pairs, median), UpTo(Alone(t), median)))
           right == Leaf(Apply(Above(Here(t).pairs, median), Above(Alone(t), median)))
           i == ChildIndex(node[Root], Key(t))
           new == Only(Root, InsertPivots(node[Root], Only(i, [pivot |-> median, page |-> Fresh])))
                    ++ Only(current[t], left) ++ Only(Fresh, right)
           clean == IF Key(t) <= median THEN Only(c, node[c]) ELSE Only(F, Zeros)
<1>1. pc[t] = "target" /\ IsLeaf(c) /\ exclusiveMode[t] /\ F <= MaxPages /\ Answer(t, None)
      /\ UNCHANGED header
  BY DEF TargetLeafSplits, AtLeaf, At
<1>2. \/ Write(new)
      \/ node' = new ++ node /\ stale' = clean ++ stale
  BY DEF TargetLeafSplits, Here
<1>3. node' = new ++ node
  BY <1>2 DEF Write
<1>4. /\ c \in Created \ {Root} /\ access[t][c] = "write" /\ ~IsInner(c) /\ IsInner(c) = FALSE
      /\ ~IsLeaf(Root)
  BY <1>1, AtTargetFacts DEF IsLeaf, IsInner
<1>5. /\ F \notin Created /\ F # Root /\ F \in Nat /\ Root \in Created
  BY PageNumbers
<1>6. IsNode(left) /\ IsNode(right)
  <2> DEFINE f == Here(t).pairs
  <2>1. PairsTyped(f) /\ Size(f) <= LeafN
    BY <1>1, <1>4, LeafFacts DEF Here
  <2>2. IsMessages(Alone(t), MAX_FLUSH_SIZE) /\ DOMAIN Alone(t) # {}
    BY <1>1, TargetUpserts, AloneFacts
  <2> HIDE DEF f
  <2>3. LET k == LeafMedian(f, Alone(t)) IN
        /\ IsNode(Leaf(Apply(UpTo(f, k), UpTo(Alone(t), k))))
        /\ IsNode(Leaf(Apply(Above(f, k), Above(Alone(t), k))))
    BY <2>1, <2>2, LeafHalves
  <2> QED BY <2>3 DEF f
<1>7. /\ ~IsBranch(left) /\ Kids(left) = {} /\ ~IsBranch(right) /\ Kids(right) = {}
  <2>1. left.type = "leaf" /\ right.type = "leaf"
    BY LeafNode
  <2> HIDE DEF left, right
  <2> QED BY <2>1 DEF IsBranch, Kids
<1>8. Half(t, c, left, IsInner(c)) /\ Half(t, F, right, IsInner(c))
  BY <1>4, <1>5, HalfIsLeaf
<1>9. i \in DOMAIN node[Root].children
  BY <1>4, <1>5, RootShape, ChildInTree
<1> HIDE DEF median, left, right, i
<1>10. /\ NewPages(new, 1) /\ Locked(t, new) /\ DOMAIN new = {Root, c, F}
       /\ ParentsOK' /\ \A p \in DOMAIN new : IsNode(new[p])
  <2> HIDE DEF new
  <2>1. new = TargetHalves(t, i, median, left, right)
    BY DEF new, TargetHalves
  <2>2. /\ NewPages(new, 1) /\ Locked(t, new) /\ DOMAIN new = {Root, c, F}
        /\ new[c] = left /\ new[F] = right
    <3>1. pc[t] = "target" /\ exclusiveMode[t] /\ Fresh <= MaxPages
      BY <1>1
    <3>2. Half(t, current[t], left, IsInner(current[t])) /\ Half(t, Fresh, right, IsInner(current[t]))
      BY <1>8
    <3>3. /\ NewPages(new, 1) /\ Locked(t, new) /\ DOMAIN new = {Root, current[t], Fresh}
          /\ new[current[t]] = left /\ new[Fresh] = right
      <4> HIDE DEF c, F, clean
      <4> QED BY <1>3, <2>1, <3>1, <3>2, TargetSplit
    <3> QED BY <3>3
  <2> QED BY <1>1, <1>3, <1>6, <1>7, <1>9, <2>1, <2>2, TargetHalvesRoom
<1> HIDE DEF new
<1>11. \A p \in DOMAIN stale' : IsNode(stale'[p])
  <2>1. CASE Write(new)
    BY <2>1, StaleFits
  <2>2. CASE stale' = clean ++ stale
    <3>1. \A p \in DOMAIN clean : IsNode(clean[p])
      <4>1. IsNode(node[c])
        BY <1>4 DEF RoomInv, NodesFit
      <4>2. IsNode(Zeros)
        BY DEF IsNode, Zeros
      <4> QED BY <4>1, <4>2 DEF Only
    <3> HIDE DEF clean
    <3>2. \A p \in DOMAIN stale : IsNode(stale[p])
      BY DEF RoomInv, NodesFit
    <3>3. \A p \in DOMAIN stale' : \/ p \in DOMAIN clean /\ stale'[p] = clean[p]
                                   \/ p \in DOMAIN stale /\ stale'[p] = stale[p]
      BY <2>2, OverIs DEF Over
    <3> QED BY <3>1, <3>2, <3>3
  <2> QED BY <1>2, <2>1, <2>2
<1>12. NodesFit'
  BY <1>3, <1>10, <1>11, WrittenFit
<1>13. rootLeaf' = rootLeaf /\ headerFile' = headerFile
  BY <1>1 DEF header
<1>14. OthersPages(t)
  BY <1>3, <1>10, <1>13, OthersWritten
<1> QED BY <1>1, <1>10, <1>12, <1>13, <1>14, AnswerRoom

(* What is kept of a full buffer and one message, and what is not. *)
LEMMA TargetKeeps ==
  ASSUME TreeInv, RoomInv, NEW t \in Threads, AtInner(t), ~Stores(t),
         NEW removed \in Removed(Here(t), Alone(t))
  PROVE  LET n    == node[current[t]]
             kept == Keep(n, Alone(t), removed)
             out  == Restrict(Together(n, Alone(t)), removed)
         IN
         /\ pc[t] = "target" /\ current[t] \in Created \ {Root} /\ IsInner(current[t])
         /\ access[t][current[t]] = "write" /\ Here(t) = n
         /\ Len(n.pivots) <= InnerN /\ Len(n.pivots) \in Nat /\ Len(n.children) = Len(n.pivots) + 1
         /\ \E b \in BOOLEAN : InnerOK(n, Kin(b)) /\ InnerOK(kept, Kin(b))
         /\ kept.pivots = n.pivots /\ kept.children = n.children /\ Kids(kept) = Kids(n)
         /\ IsInjective(n.children)
         /\ IsMessages(kept.upserts, InnerBN) /\ IsMessages(out, MAX_FLUSH_SIZE)
         /\ Cardinality(Blocks(n, out)) <= 1
<1> DEFINE c == current[t]
           n == node[c]
           m == Alone(t)
           kept == Keep(n, m, removed)
           out == Restrict(Together(n, m), removed)
<1>1. pc[t] = "target" /\ IsInner(c) /\ Here(t) = n
  BY DEF AtInner, At, Here
<1>2. access[t][c] = "write" /\ c \in Created \ {Root} /\ Upserting(t)
  BY <1>1, AtTargetFacts, TargetUpserts
<1>3. /\ IsMessages(n.upserts, InnerBN) /\ Typed(n.upserts)
      /\ Len(n.pivots) <= InnerN /\ Len(n.children) = Len(n.pivots) + 1
      /\ Len(n.pivots) \in Nat /\ InnerBN \in Nat
  BY <1>1, <1>2, InnerFacts
<1>4. PICK b \in BOOLEAN : InnerOK(n, Kin(b))
  BY <1>1, <1>2, InnerFacts
<1>5. IsMessages(m, MAX_FLUSH_SIZE) /\ Size(m) = 1
  BY <1>1, <1>2, AloneFacts
<1>6. Size(n.upserts) + Size(m) = InnerBN + 1
  <2>1. Size(n.upserts) \in Nat
    BY <1>3, FiniteKeys DEF Size, Typed
  <2>2. Size(n.upserts) <= InnerBN /\ ~(Size(n.upserts) < InnerBN)
    BY <1>1, <1>3 DEF IsMessages, Stores
  <2> QED BY <1>3, <1>5, <2>1, <2>2
<1>7. removed \in Removed(n, m)
  BY <1>1
<1> HIDE DEF c, m, n
<1>8. Size(n.upserts) + Size(m) > InnerBN
  BY <1>3, <1>6
<1>9. /\ InnerOK(kept, Kin(b)) /\ kept.pivots = n.pivots /\ kept.children = n.children
      /\ IsMessages(kept.upserts, InnerBN) /\ IsMessages(out, MAX_FLUSH_SIZE)
      /\ Cardinality(Blocks(n, out)) <= 1
  <2> HIDE DEF Kin
  <2> QED BY <1>3, <1>4, <1>5, <1>6, <1>7, <1>8, KeepFits
<1> HIDE DEF kept, out
<1>10. n.type = "inner" /\ kept.type = "inner"
  BY <1>4, <1>9 DEF InnerOK
<1>11. Kids(kept) = Kids(n)
  BY <1>9, <1>10 DEF Kids, IsBranch
<1>12. IsInjective(n.children)
  BY <1>2, <1>10 DEF RoomInv, ParentsOK, IsBranch, n
<1> QED BY <1>1, <1>2, <1>3, <1>4, <1>9, <1>11, <1>12 DEF c, m, n, kept, out

(* A full buffer is flushed: its node has room for one pivot.               *)
LEMMA FlushTargetRoom ==
  ASSUME TreeInv, TreeInv', RoomInv, NEW t \in Threads, FlushTarget(t)
  PROVE  RoomInv'
<1> DEFINE c == current[t]
           n == node[c]
<1>1. AtInner(t) /\ ~Stores(t) /\ ~TargetIsFull(t) /\ UNCHANGED header
  BY DEF FlushTarget
<1>2. PICK removed \in Removed(Here(t), Alone(t)) :
        /\ Write(Only(c, Keep(Here(t), Alone(t), removed)))
        /\ Continue(t, Entry(c, Restrict(Together(Here(t), Alone(t)), removed)))
  BY DEF FlushTarget
<1> DEFINE kept == Keep(n, Alone(t), removed)
           out == Restrict(Together(n, Alone(t)), removed)
           upserts == Restrict(Together(n, Alone(t)), DOMAIN Together(n, Alone(t)) \ removed)
           new == Only(c, kept)
           newQueue == Entry(c, out)
<1>3. /\ pc[t] = "target" /\ c \in Created \ {Root} /\ IsInner(c)
      /\ access[t][c] = "write" /\ Here(t) = n
      /\ Len(n.pivots) <= InnerN /\ Len(n.pivots) \in Nat /\ Len(n.children) = Len(n.pivots) + 1
      /\ \E b \in BOOLEAN : InnerOK(n, Kin(b)) /\ InnerOK(kept, Kin(b))
      /\ kept.pivots = n.pivots /\ kept.children = n.children /\ Kids(kept) = Kids(n)
      /\ IsMessages(kept.upserts, InnerBN) /\ IsMessages(out, MAX_FLUSH_SIZE)
      /\ Cardinality(Blocks(n, out)) <= 1
  BY <1>1, <1>2, TargetKeeps
<1>4. Write(new) /\ Continue(t, newQueue) /\ node' = new ++ node
  BY <1>2, <1>3 DEF Write
<1>5. kept = WithUpserts(n, upserts)
  BY DEF Keep, WithUpserts
<1> HIDE DEF upserts, kept, out, c, n
<1>6. n = node[c] /\ DOMAIN new = {c} /\ new[c] = kept
  BY DEF n, Only
<1>7. NewPages(new, 0) /\ Locked(t, new)
  BY <1>3, <1>4, <1>5, <1>6, InnerWritten
<1> HIDE DEF new
<1>8. node'[c] = kept
  BY <1>4, <1>6, <1>7, WriteFacts
<1>9. kept.type = "inner" /\ n.type = "inner" /\ IsNode(kept)
  <2>1. kept.type = "inner" /\ n.type = "inner"
    BY <1>3 DEF InnerOK
  <2> QED BY <1>3, <2>1 DEF IsNode
<1>10. ParentsOK'
  <2>1. IsBranch(node[c])
    BY <1>6, <1>9 DEF IsBranch
  <2> QED BY <1>3, <1>4, <1>6, <1>7, <2>1, KidsKept DEF RoomInv
<1>11. Cardinality(Blocks(kept, out)) <= InnerN - Len(kept.pivots)
  <2>1. Blocks(kept, out) = Blocks(n, out)
    BY <1>3, BlocksOfPivots
  <2>2. Cardinality(Blocks(n, out)) \in Nat
    <3>1. PICK b \in BOOLEAN : InnerOK(n, Kin(b))
      BY <1>3
    <3> HIDE DEF Kin
    <3> QED BY <3>1, BlocksPartition DEF InnerOK
  <2>3. Len(n.pivots) # InnerN
    BY <1>1, <1>3 DEF TargetIsFull
  <2> DEFINE x == Cardinality(Blocks(n, out))
             L == Len(n.pivots)
  <2> HIDE DEF x, L
  <2>4. x <= InnerN - L
    <3>1. x \in Nat /\ x <= 1 /\ L \in Nat /\ L <= InnerN /\ L # InnerN /\ InnerN \in Nat
      BY <1>3, <2>2, <2>3, SizesAssumption DEF x, L
    <3> QED BY <3>1
  <2> QED BY <1>3, <2>1, <2>4 DEF x, L
<1>12. QueueRoom(newQueue)
  <2>1. /\ \A e \in Range(newQueue) : e.page = c /\ e.messages = out
        /\ \A e, f \in Range(newQueue) : e = f
        /\ IsInjective(newQueue)
    BY EntryRoom
  <2> HIDE DEF newQueue
  <2>2. ASSUME NEW e \in Range(newQueue)
        PROVE  /\ IsMessages(e.messages, MAX_FLUSH_SIZE)
               /\ Cardinality(Blocks(node'[e.page], e.messages)) <= InnerN - Len(node'[e.page].pivots)
    <3>1. e.page = c /\ e.messages = out
      BY <2>1
    <3> QED BY <1>3, <1>8, <1>11, <3>1
  <2>3. ASSUME NEW i \in DOMAIN newQueue, NEW j \in DOMAIN newQueue PROVE i = j
    <3>1. newQueue[i] \in Range(newQueue) /\ newQueue[j] \in Range(newQueue)
      BY DEF Range
    <3>2. newQueue[i] = newQueue[j]
      BY <2>1, <3>1
    <3> QED BY <2>1, <3>2 DEF IsInjective
  <2>4. \A i, j \in DOMAIN newQueue : ~(i < j)
    <3>1. DOMAIN newQueue = 1 .. Len(newQueue) /\ Len(newQueue) \in Nat
      BY EntryRoom, LenProperties DEF newQueue
    <3> QED BY <2>3, <3>1
  <2> QED BY <2>2, <2>4 DEF QueueRoom
<1> HIDE DEF newQueue
<1> QED BY <1>1, <1>3, <1>4, <1>6, <1>7, <1>9, <1>10, <1>12, ContinueRoom

(* A full buffer of a full node: each half has room for pivots.             *)
LEMMA FlushSplitTargetRoom ==
  ASSUME TreeInv, TreeInv', RoomInv, NEW t \in Threads, FlushSplitTarget(t)
  PROVE  RoomInv'
<1> DEFINE c == current[t]
           F == Fresh
           n == node[c]
           i == ChildIndex(node[Root], Key(t))
<1>1. /\ AtInner(t) /\ ~Stores(t) /\ UNCHANGED header /\ exclusiveMode[t] /\ F <= MaxPages
      /\ Len(Here(t).pivots) = InnerN
  BY DEF FlushSplitTarget, TargetIsFull
<1>2. PICK removed \in Removed(Here(t), Alone(t)) :
        LET kept == Keep(Here(t), Alone(t), removed) IN
        /\ Write(Only(Root, InsertPivots(node[Root], Only(i, [pivot |-> InnerPivot(kept), page |-> Fresh])))
                ++ Only(c, LeftInner(kept)) ++ Only(Fresh, RightInner(kept)))
        /\ Continue(t, SplitEntries(c, Fresh, InnerPivot(kept),
                                    Restrict(Together(Here(t), Alone(t)), removed)))
  BY DEF FlushSplitTarget
<1> DEFINE kept == Keep(n, Alone(t), removed)
           out == Restrict(Together(n, Alone(t)), removed)
           left == LeftInner(kept)
           right == RightInner(kept)
           middle == InnerPivot(kept)
           new == TargetHalves(t, i, middle, left, right)
           newQueue == SplitEntries(c, F, middle, out)
<1>3. /\ pc[t] = "target" /\ c \in Created \ {Root} /\ IsInner(c)
      /\ access[t][c] = "write" /\ Here(t) = n
      /\ \E b \in BOOLEAN : InnerOK(n, Kin(b)) /\ InnerOK(kept, Kin(b))
      /\ kept.pivots = n.pivots /\ kept.children = n.children /\ Kids(kept) = Kids(n)
      /\ IsInjective(n.children)
      /\ IsMessages(kept.upserts, InnerBN) /\ IsMessages(out, MAX_FLUSH_SIZE)
  BY <1>1, <1>2, TargetKeeps
<1>4. Write(new) /\ Continue(t, newQueue) /\ node' = new ++ node
  BY <1>2, <1>3 DEF Write, TargetHalves
<1>5. /\ F \notin Created /\ F # Root /\ F \in Nat /\ Root \in Created /\ F # c
  BY <1>3, PageNumbers
<1>6. PICK b \in BOOLEAN : InnerOK(kept, Kin(b))
  BY <1>3
<1>7. Len(kept.pivots) <= InnerN /\ Len(kept.pivots) >= 1
  BY <1>1, <1>3, SizesAssumption
<1> HIDE DEF kept, out
<1>8. /\ left.type = "inner" /\ right.type = "inner" /\ IsNode(left) /\ IsNode(right)
      /\ IsInjective(left.children) /\ IsInjective(right.children)
      /\ Kids(left) \subseteq Kids(n) /\ Kids(right) \subseteq Kids(n) /\ Kids(left) \cap Kids(right) = {}
      /\ \A m : Cardinality(Blocks(left, m)) <= InnerN - Len(left.pivots)
      /\ \A m : Cardinality(Blocks(right, m)) <= InnerN - Len(right.pivots)
  <2>1. IsInjective(kept.children)
    BY <1>3
  <2> HIDE DEF Kin, n
  <2> QED BY <1>3, <1>6, <1>7, <2>1, HalvesRoom
<1>9. InnerOK(left, Kin(b)) /\ InnerOK(right, Kin(b))
  <2> HIDE DEF Kin
  <2> QED BY <1>6, <1>7, HalvesShape DEF InnerOK
<1>10. Half(t, c, left, IsInner(c)) /\ Half(t, F, right, IsInner(c))
  <2> HIDE DEF Kin, left, right
  <2>1. IsInner(c) = TRUE
    BY <1>3 DEF IsInner
  <2> QED BY <1>3, <1>5, <1>9, <2>1, HalfIsInner
<1>11. i \in DOMAIN node[Root].children
  BY <1>3, <1>5, AtTargetFacts, RootShape, ChildInTree
<1> HIDE DEF left, right, middle, i
<1>12. /\ NewPages(new, 1) /\ Locked(t, new) /\ DOMAIN new = {Root, c, F}
       /\ new[c] = left /\ new[F] = right
       /\ ParentsOK' /\ \A p \in DOMAIN new : IsNode(new[p])
  <2>1. node' = new ++ node
    BY <1>4
  <2>2. new = TargetHalves(t, i, middle, left, right)
    OBVIOUS
  <2> HIDE DEF new
  <2>3. pc[t] = "target" /\ exclusiveMode[t] /\ Fresh <= MaxPages
    BY <1>1, <1>3
  <2>4. Half(t, current[t], left, IsInner(current[t])) /\ Half(t, Fresh, right, IsInner(current[t]))
    BY <1>10
  <2>5. Kids(left) \subseteq Kids(node[current[t]]) /\ Kids(right) \subseteq Kids(node[current[t]])
    BY <1>8
  <2> HIDE DEF c, F, n
  <2>6. /\ NewPages(new, 1) /\ Locked(t, new) /\ DOMAIN new = {Root, current[t], Fresh}
        /\ new[current[t]] = left /\ new[Fresh] = right
    BY <2>1, <2>2, <2>3, <2>4, TargetSplit
  <2>7. ParentsOK' /\ \A p \in DOMAIN new : IsNode(new[p])
    BY <1>8, <1>11, <2>1, <2>2, <2>3, <2>5, <2>6, TargetHalvesRoom
  <2> QED BY <2>6, <2>7 DEF c, F
<1> HIDE DEF new
<1>13. node'[c] = left /\ node'[F] = right
  BY <1>4, <1>12, WriteFacts
<1>14. Kids(n) \subseteq Created /\ c \notin Kids(n)
  <2>1. Kids(node[c]) \in SUBSET (Created \ {Root})
    BY <1>3, KidsInTree
  <2> QED BY <1>3, <2>1 DEF RoomInv, ParentsOK
<1>15. QueueRoom(newQueue)
  <2>1. /\ IsInjective(newQueue)
        /\ \A e \in Range(newQueue) : e.page \in {c, F} /\ IsMessages(e.messages, MAX_FLUSH_SIZE)
        /\ \A e, f \in Range(newQueue) : e.page = f.page => e = f
        /\ newQueue \in Seq(Range(newQueue))
    BY <1>3, <1>5, SplitEntriesRoom
  <2> HIDE DEF newQueue, n
  <2>2. \A e \in Range(newQueue) :
          Cardinality(Blocks(node'[e.page], e.messages)) <= InnerN - Len(node'[e.page].pivots)
    <3> SUFFICES ASSUME NEW e \in Range(newQueue)
                 PROVE  Cardinality(Blocks(node'[e.page], e.messages)) <= InnerN - Len(node'[e.page].pivots)
      OBVIOUS
    <3>1. e.page = c \/ e.page = F
      BY <2>1
    <3>2. CASE e.page = c
      BY <1>8, <1>13, <3>2
    <3>3. CASE e.page = F
      BY <1>8, <1>13, <3>3
    <3> QED BY <3>1, <3>2, <3>3
  <2>3. ASSUME NEW j \in DOMAIN newQueue, NEW k \in DOMAIN newQueue, j < k
        PROVE  /\ newQueue[k].page # newQueue[j].page
               /\ newQueue[k].page \notin Kids(node'[newQueue[j].page])
    <3>1. newQueue[j] \in Range(newQueue) /\ newQueue[k] \in Range(newQueue)
      BY DEF Range
    <3>2. j # k
      <4>1. DOMAIN newQueue = 1 .. Len(newQueue) /\ Len(newQueue) \in Nat
        BY <2>1, LenProperties
      <4> QED BY <2>3, <4>1
    <3>3. newQueue[k].page # newQueue[j].page
      BY <2>1, <3>1, <3>2 DEF IsInjective
    <3>4. newQueue[k].page \in {c, F} /\ newQueue[j].page \in {c, F}
      BY <2>1, <3>1
    <3>5. Kids(node'[newQueue[j].page]) \subseteq Kids(n)
      BY <1>8, <1>13, <3>4
    <3>6. newQueue[k].page \notin Kids(n)
      BY <1>5, <1>14, <3>4
    <3> QED BY <3>3, <3>5, <3>6
  <2> QED BY <2>1, <2>2, <2>3 DEF QueueRoom
<1> HIDE DEF newQueue
<1> QED BY <1>1, <1>3, <1>4, <1>12, <1>15, ContinueRoom

(***************************************************************************)
(* A flush from a node to its children.                                    *)
(***************************************************************************)
(* Every child that is split has a new page for its right half. *)
LEMMA RightInverse ==
  ASSUME TreeInv, NEW split \in SUBSET (Nat \ {0}), IsFiniteSet(split)
  PROVE  /\ \A p \in RightPages(split) : Split(split, p) \in split /\ Right(split, Split(split, p)) = p
         /\ \A i, j \in split : Right(split, i) = Right(split, j) => i = j
         /\ \A i \in split : Right(split, i) \in RightPages(split)
<1> DEFINE k == Cardinality(split)
           F == Fresh
<1>1. k \in Nat /\ F \in Nat /\ RightPages(split) = F .. F + k - 1
  BY RightHalves, PageNumbers
<1>2. \A i \in split : Right(split, i) = F + Rank(split, i) /\ Right(split, i) \in RightPages(split)
  BY RightHalves DEF Right, Rank
<1>3. split \in SUBSET Nat
  OBVIOUS
<1>4. \A i \in split : Rank(split, i) \in 0 .. k - 1
  BY <1>3, RankBounds
<1>5. ASSUME NEW p \in RightPages(split)
      PROVE  Split(split, p) \in split /\ Right(split, Split(split, p)) = p
  <2>1. p - F \in 0 .. k - 1 /\ F + (p - F) = p
    BY <1>1
  <2>2. PICK i \in split : Rank(split, i) = p - F
    BY <1>3, <2>1, RankOnto
  <2>3. Right(split, i) = p
    BY <1>2, <2>1, <2>2
  <2> QED BY <2>3 DEF Split
<1>6. ASSUME NEW i \in split, NEW j \in split, Right(split, i) = Right(split, j), i # j
      PROVE  FALSE
  <2>1. i < j \/ j < i
    BY <1>6
  <2>2. Rank(split, i) < Rank(split, j) \/ Rank(split, j) < Rank(split, i)
    BY <1>3, <2>1, RankLess
  <2> HIDE DEF F, k
  <2>3. F + Rank(split, i) = F + Rank(split, j)
    BY <1>2, <1>6
  <2> QED BY <1>1, <1>4, <2>2, <2>3
<1> QED BY <1>2, <1>5, <1>6

(* The node that is flushed and the children that messages go to. *)
LEMMA TargetKids ==
  ASSUME TreeInv, RoomInv, NEW t \in Threads, pc[t] = "flush"
  PROVE  LET q == Flushed(t) IN
         /\ q \in Created \ {Root} /\ IsInner(q) /\ IsBranch(node[q]) /\ access[t][q] = "write"
         /\ \A i \in Targets(t) : i \in DOMAIN node[q].children /\ Child(t, i) \in Kids(node[q])
         /\ \A i, j \in Targets(t) : Child(t, i) = Child(t, j) => i = j
         /\ \A i \in Targets(t) : ChildAt(t, Child(t, i)) = i /\ Child(t, i) \in LeftPages(t)
         /\ LeftPages(t) \subseteq Kids(node[q]) /\ LeftPages(t) \subseteq Created \ {Root}
         /\ q \notin LeftPages(t) /\ Kids(node[q]) \subseteq Created \ {Root}
         /\ IsMessages(ToFlush(t), MAX_FLUSH_SIZE)
         /\ Cardinality(Targets(t)) <= InnerN - Len(node[q].pivots)
         /\ Cardinality(Targets(t)) \in Nat /\ Len(node[q].pivots) \in Nat
         /\ IsFiniteSet(Targets(t)) /\ Targets(t) \in SUBSET (Nat \ {0})
<1> DEFINE q == Flushed(t)
<1>1. /\ q \in Created \ {Root} /\ IsBranch(node[q]) /\ IsInner(q) /\ access[t][q] = "write"
      /\ \A i \in Targets(t) : i \in DOMAIN node[q].children
      /\ queue[t] \in Seq(Range(queue[t])) /\ queue[t] # <<>>
  BY FlushFacts
<1>2. Kids(node[q]) = Range(node[q].children) /\ IsInjective(node[q].children)
  BY <1>1 DEF Kids, RoomInv, ParentsOK
<1>3. \A i \in Targets(t) : Child(t, i) = node[q].children[i] /\ Child(t, i) \in Kids(node[q])
  BY <1>1, <1>2 DEF Child, Range
<1>4. \A i, j \in Targets(t) : Child(t, i) = Child(t, j) => i = j
  BY <1>1, <1>2, <1>3 DEF IsInjective
<1>5. \A i \in Targets(t) : ChildAt(t, Child(t, i)) = i /\ Child(t, i) \in LeftPages(t)
  BY <1>4 DEF ChildAt, LeftPages
<1>6. Kids(node[q]) \subseteq Created \ {Root} /\ q \notin Kids(node[q])
  BY <1>1, KidsInTree DEF RoomInv, ParentsOK
<1>7. LeftPages(t) \subseteq Kids(node[q])
  BY <1>3 DEF LeftPages
<1>8. EntryFits(t, Head(queue[t]))
  <2>1. 1 \in DOMAIN queue[t] /\ Head(queue[t]) = queue[t][1]
    BY <1>1
  <2> QED BY <2>1 DEF RoomInv, QueueFits
<1>9. /\ IsMessages(ToFlush(t), MAX_FLUSH_SIZE)
      /\ Cardinality(Blocks(node[q], ToFlush(t))) <= InnerN - Len(node[q].pivots)
  BY <1>8 DEF EntryFits, ToFlush, Flushed
<1>10. IsFiniteSet(Targets(t)) /\ Targets(t) \in SUBSET (Nat \ {0}) /\ Cardinality(Targets(t)) \in Nat
  BY TargetsFinite, FS_CardinalityType
<1>11. PICK b \in BOOLEAN : BranchOK(node[q], Kin(b))
  BY <1>1, BranchKin
<1>12. Targets(t) = IndexesOf(node[q], ToFlush(t))
  BY DEF Targets, IndexesOf, IndexOf
<1> HIDE DEF q
<1>13. /\ Cardinality(Targets(t)) = Cardinality(Blocks(node[q], ToFlush(t)))
       /\ Len(node[q].pivots) \in Nat
  <2> HIDE DEF Kin
  <2>1. Cardinality(IndexesOf(node[q], ToFlush(t))) = Cardinality(Blocks(node[q], ToFlush(t)))
    BY <1>11, BlocksPartition
  <2>2. Len(node[q].pivots) \in Nat
    BY <1>11, BranchFacts
  <2> QED BY <1>12, <2>1, <2>2
<1> QED BY <1>1, <1>3, <1>4, <1>5, <1>6, <1>7, <1>9, <1>10, <1>13 DEF q

(* What may be written in place of child c, or beside it. *)
HalfRoom(c, n) ==
  /\ IsNode(n) /\ Kids(n) \subseteq Kids(node[c])
  /\ IsBranch(n) => IsInjective(n.children)

LEMMA FlushedRoom ==
  ASSUME TreeInv, RoomInv, NEW t \in Threads, pc[t] = "flush",
         NEW inner, NEW split, NEW rights, NEW lefts, NEW splits,
         Flushing(t, split, rights, lefts, splits, inner),
         NEW new, new = FlushedPages(t, rights, lefts, splits),
         NewPages(new, Cardinality(split)), Cardinality(split) \in Nat, node' = new ++ node,
         \A p \in LeftPages(t) : HalfRoom(p, lefts[p]),
         \A p \in RightPages(split) :
           LET c == Child(t, Split(split, p)) IN
           HalfRoom(c, rights[p]) /\ Kids(rights[p]) \cap Kids(lefts[c]) = {}
  PROVE  /\ ParentsOK' /\ \A p \in DOMAIN new : IsNode(new[p])
         /\ \A p \in LeftPages(t) : node'[p] = lefts[p]
         /\ \A p \in RightPages(split) : node'[p] = rights[p] /\ p \notin Created
         /\ Kids(node'[Flushed(t)]) = Kids(node[Flushed(t)]) \cup RightPages(split)
         /\ \A p \in Created \ (LeftPages(t) \cup {Flushed(t)}) : node'[p] = node[p]
<1> DEFINE q == Flushed(t)
           m == InsertPivots(node[q], splits)
           from == [p \in RightPages(split) \cup LeftPages(t) |->
                      IF p \in RightPages(split) THEN Child(t, Split(split, p)) ELSE p]
<1>1. /\ q \in Created \ {Root} /\ IsInner(q) /\ IsBranch(node[q])
      /\ \A i \in Targets(t) : i \in DOMAIN node[q].children /\ Child(t, i) \in LeftPages(t)
      /\ \A i, j \in Targets(t) : Child(t, i) = Child(t, j) => i = j
      /\ LeftPages(t) \subseteq Kids(node[q]) /\ LeftPages(t) \subseteq Created \ {Root}
      /\ q \notin LeftPages(t)
      /\ Cardinality(Targets(t)) <= InnerN - Len(node[q].pivots)
      /\ Cardinality(Targets(t)) \in Nat /\ Len(node[q].pivots) \in Nat
      /\ IsFiniteSet(Targets(t)) /\ Targets(t) \in SUBSET (Nat \ {0})
  BY TargetKids
<1>2. /\ split \in SUBSET Targets(t) /\ DOMAIN rights = RightPages(split)
      /\ DOMAIN lefts = LeftPages(t) /\ DOMAIN splits = split
      /\ \A i \in split : splits[i].page = Right(split, i)
  BY DEF Flushing
<1>3. split \in SUBSET (Nat \ {0}) /\ IsFiniteSet(split) /\ Cardinality(split) <= Cardinality(Targets(t))
  BY <1>1, <1>2, FS_Subset
<1>4. /\ \A p \in RightPages(split) : Split(split, p) \in split /\ Right(split, Split(split, p)) = p
      /\ \A i, j \in split : Right(split, i) = Right(split, j) => i = j
      /\ \A i \in split : Right(split, i) \in RightPages(split)
      /\ \A p \in RightPages(split) : p \notin Created
  BY <1>3, RightInverse, RightHalves
<1> HIDE DEF q, m
<1>5. /\ DOMAIN new = RightPages(split) \cup LeftPages(t) \cup {q}
      /\ \A p \in RightPages(split) : new[p] = rights[p]
      /\ \A p \in LeftPages(t) : new[p] = lefts[p]
      /\ new[q] = m
  <2>1. new = rights ++ lefts ++ Only(q, m)
    BY DEF FlushedPages, q, m
  <2>2. q \notin RightPages(split) \cup LeftPages(t) /\ LeftPages(t) \cap RightPages(split) = {}
    BY <1>1, <1>4
  <2> QED BY <1>2, <2>1, <2>2, OverIs DEF Over, Only
<1>6. \A p \in RightPages(split) : from[p] = Child(t, Split(split, p)) /\ from[p] \in LeftPages(t)
  BY <1>1, <1>2, <1>4
<1>7. \A p \in LeftPages(t) : from[p] = p
  BY <1>1, <1>4
<1> HIDE DEF from
<1>8. \A p \in DOMAIN new \ {q} :
        /\ from[p] \in (DOMAIN new \cap Created) \ {q} /\ (p \in Created => from[p] = p)
        /\ HalfRoom(from[p], new[p])
  <2> SUFFICES ASSUME NEW p \in DOMAIN new \ {q}
               PROVE  /\ from[p] \in (DOMAIN new \cap Created) \ {q} /\ (p \in Created => from[p] = p)
                      /\ HalfRoom(from[p], new[p])
    OBVIOUS
  <2>1. CASE p \in RightPages(split)
    BY <1>1, <1>4, <1>5, <1>6, <2>1
  <2>2. CASE p \in LeftPages(t)
    BY <1>1, <1>5, <1>7, <2>2
  <2> QED BY <1>5, <2>1, <2>2
<1>9. ASSUME NEW p \in DOMAIN new \ {q}, NEW u \in DOMAIN new \ {q}, p # u, from[p] = from[u]
      PROVE  Kids(new[p]) \cap Kids(new[u]) = {}
  <2>1. /\ p \in RightPages(split) \/ p \in LeftPages(t)
        /\ u \in RightPages(split) \/ u \in LeftPages(t)
    BY <1>5
  <2>2. CASE p \in RightPages(split) /\ u \in RightPages(split)
    <3>1. Split(split, p) = Split(split, u)
      BY <1>1, <1>2, <1>4, <1>6, <1>9, <2>2
    <3> QED BY <1>4, <1>9, <2>2, <3>1
  <2>3. CASE p \in RightPages(split) /\ u \in LeftPages(t)
    BY <1>5, <1>6, <1>7, <1>9, <2>3
  <2>4. CASE u \in RightPages(split) /\ p \in LeftPages(t)
    BY <1>5, <1>6, <1>7, <1>9, <2>4
  <2>5. CASE p \in LeftPages(t) /\ u \in LeftPages(t)
    BY <1>7, <1>9, <2>5
  <2> QED BY <2>1, <2>2, <2>3, <2>4, <2>5
<1>10. SplitsOf(q, splits, from, new)
  <2>1. q \in DOMAIN new /\ new[q] = InsertPivots(node[q], splits)
    BY <1>5 DEF m
  <2>2. DOMAIN splits \in SUBSET DOMAIN node[q].children
    BY <1>1, <1>2
  <2>3. /\ \A i \in DOMAIN splits : splits[i].page \notin Created
        /\ \A i, j \in DOMAIN splits : splits[i].page = splits[j].page => i = j
    BY <1>2, <1>4
  <2> QED BY <1>8, <1>9, <2>1, <2>2, <2>3 DEF SplitsOf, HalfRoom
<1>11. /\ ParentsOK'
       /\ Kids(new[q]) = Kids(node[q]) \cup {splits[i].page : i \in DOMAIN splits}
       /\ Len(new[q].pivots) = Len(node[q].pivots) + Cardinality(DOMAIN splits)
       /\ Len(new[q].children) = Len(new[q].pivots) + 1
       /\ new[q].type = node[q].type /\ new[q].upserts = node[q].upserts
  <2>1. ParentsOK /\ q \in Created /\ IsBranch(node[q]) /\ IsInner(q)
    BY <1>1 DEF RoomInv
  <2> HIDE DEF q, m, from
  <2>2. PICK k \in Nat : k = Cardinality(split) /\ NewPages(new, k)
    OBVIOUS
  <2>3. /\ ParentsOK'
        /\ Kids(new[q]) = Kids(node[q]) \cup {splits[i].page : i \in DOMAIN splits}
        /\ Len(new[q].pivots) = Len(node[q].pivots) + Cardinality(DOMAIN splits)
        /\ Len(new[q].children) = Len(new[q].pivots) + 1
        /\ new[q].type = node[q].type
        /\ IsInner(q) => new[q].upserts = node[q].upserts
    BY <1>10, <2>1, <2>2, ParentsSplit, SMTT(30)
  <2> QED BY <2>1, <2>3
<1>12. {splits[i].page : i \in DOMAIN splits} = RightPages(split)
  <2>1. \A i \in split : splits[i].page \in RightPages(split)
    BY <1>2, <1>4
  <2>2. \A p \in RightPages(split) : \E i \in split : splits[i].page = p
    BY <1>2, <1>4
  <2> QED BY <1>2, <2>1, <2>2
<1>13. IsNode(new[q])
  <2> DEFINE L == Len(node[q].pivots)
             s == Cardinality(split)
             T == Cardinality(Targets(t))
  <2>1. Len(new[q].pivots) = L + s
    BY <1>2, <1>11
  <2>2. L \in Nat /\ s \in Nat /\ T \in Nat /\ s <= T /\ T <= InnerN - L /\ InnerN \in Nat
    BY <1>1, <1>3, SizesAssumption
  <2>3. IsMessages(node[q].upserts, InnerBN) /\ new[q].type = "inner"
    BY <1>1, <1>11, InnerFacts DEF IsInner
  <2> HIDE DEF L, s, T
  <2>4. L + s <= InnerN
    BY <2>2
  <2> QED BY <1>11, <2>1, <2>3, <2>4 DEF IsNode
<1>14. \A p \in DOMAIN new : IsNode(new[p])
  BY <1>8, <1>13 DEF HalfRoom
<1>15. /\ \A p \in DOMAIN new : node'[p] = new[p]
       /\ \A p \in Created' \ DOMAIN new : node'[p] = node[p]
       /\ Created \subseteq Created'
  BY WriteFacts
<1>16. \A p \in Created \ (LeftPages(t) \cup {q}) : node'[p] = node[p]
  BY <1>4, <1>5, <1>15
<1> QED BY <1>4, <1>5, <1>11, <1>12, <1>14, <1>15, <1>16 DEF q

(* The messages for one child. *)
LEMMA AddressedFits ==
  ASSUME TreeInv, RoomInv, NEW t \in Threads, pc[t] = "flush", NEW i
  PROVE  IsMessages(Addressed(t, i), MAX_FLUSH_SIZE)
<1> DEFINE m == ToFlush(t)
           A == {k \in DOMAIN m : IndexOf(t, k) = i}
<1>1. IsMessages(m, MAX_FLUSH_SIZE)
  BY TargetKids
<1>2. Addressed(t, i) = Restrict(m, A) /\ A \in SUBSET DOMAIN m
  BY DEF Addressed
<1>3. MAX_FLUSH_SIZE \in Nat
  BY SizesAssumption DEF MAX_FLUSH_SIZE
<1>4. Typed(m) /\ Size(m) <= MAX_FLUSH_SIZE
  BY <1>1 DEF IsMessages, Typed
<1> HIDE DEF m, A
<1>5. /\ Typed(Restrict(m, A)) /\ Size(Restrict(m, A)) = Cardinality(A) /\ Cardinality(A) \in Nat
      /\ Size(Restrict(m, A)) <= Size(m) /\ Size(m) \in Nat
  BY <1>2, <1>4, RestrictFits
<1>6. Size(Restrict(m, A)) <= MAX_FLUSH_SIZE
  BY <1>3, <1>4, <1>5
<1> QED BY <1>2, <1>5, <1>6 DEF IsMessages, Typed

(* The rest of the queue is not affected. *)
LEMMA TailRoom ==
  ASSUME TreeInv, RoomInv, NEW t \in Threads, pc[t] = "flush",
         \A p \in Created \ (LeftPages(t) \cup {Flushed(t)}) : node'[p] = node[p]
  PROVE  LET rest == Tail(queue[t]) IN
         /\ rest \in Seq(Range(queue[t])) /\ rest \in Seq(Range(rest)) /\ QueueRoom(rest)
         /\ \A e \in Range(rest) :
              e.page \in Created /\ e.page # Flushed(t) /\ e.page \notin Kids(node[Flushed(t)])
<1> DEFINE q == Flushed(t)
           rest == Tail(queue[t])
<1>1. queue[t] \in Seq(Range(queue[t])) /\ queue[t] # <<>>
  BY FlushFacts
<1>2. /\ rest \in Seq(Range(queue[t])) /\ Len(rest) = Len(queue[t]) - 1
      /\ \A i \in 1 .. Len(rest) : rest[i] = queue[t][i + 1]
  BY <1>1, HeadTailProperties
<1>3. /\ DOMAIN queue[t] = 1 .. Len(queue[t]) /\ Len(queue[t]) \in Nat
      /\ DOMAIN rest = 1 .. Len(rest) /\ Len(rest) \in Nat
      /\ rest \in Seq(Range(rest))
  BY <1>1, <1>2, LenProperties, SeqOfRange
<1>4. q = queue[t][1].page
  BY <1>1 DEF Flushed
<1>5. /\ \A i \in DOMAIN queue[t] : EntryFits(t, queue[t][i])
      /\ \A i, j \in DOMAIN queue[t] : i < j =>
           /\ queue[t][j].page # queue[t][i].page
           /\ queue[t][j].page \notin Kids(node[queue[t][i].page])
  BY DEF RoomInv, QueueFits
<1>6. LeftPages(t) \subseteq Kids(node[q])
  BY TargetKids
<1> HIDE DEF rest, q
<1>7. ASSUME NEW i \in DOMAIN rest
      PROVE  /\ i + 1 \in DOMAIN queue[t] /\ rest[i] = queue[t][i + 1]
             /\ EntryFits(t, rest[i]) /\ rest[i].page \in Created
             /\ rest[i].page # q /\ rest[i].page \notin Kids(node[q])
             /\ node'[rest[i].page] = node[rest[i].page]
  <2>1. i + 1 \in DOMAIN queue[t] /\ rest[i] = queue[t][i + 1] /\ 1 \in DOMAIN queue[t] /\ 1 < i + 1
    BY <1>2, <1>3
  <2>2. EntryFits(t, rest[i]) /\ rest[i].page # q /\ rest[i].page \notin Kids(node[q])
    BY <1>4, <1>5, <2>1
  <2>3. rest[i].page \in Created
    BY <2>2 DEF EntryFits
  <2>4. rest[i].page \notin LeftPages(t) \cup {q}
    BY <1>6, <2>2
  <2>5. node'[rest[i].page] = node[rest[i].page]
    BY <2>3, <2>4 DEF q
  <2> QED BY <2>1, <2>2, <2>3, <2>5
<1>8. ASSUME NEW e \in Range(rest)
      PROVE  /\ IsMessages(e.messages, MAX_FLUSH_SIZE)
             /\ Cardinality(Blocks(node'[e.page], e.messages)) <= InnerN - Len(node'[e.page].pivots)
             /\ e.page \in Created /\ e.page # q /\ e.page \notin Kids(node[q])
  <2>1. PICK i \in DOMAIN rest : e = rest[i]
    BY DEF Range
  <2> QED BY <1>7, <2>1 DEF EntryFits
<1>9. ASSUME NEW i \in DOMAIN rest, NEW j \in DOMAIN rest, i < j
      PROVE  /\ rest[j].page # rest[i].page
             /\ rest[j].page \notin Kids(node'[rest[i].page])
  <2>1. i + 1 < j + 1
    BY <1>3, <1>9
  <2> QED BY <1>5, <1>7, <2>1
<1> QED BY <1>2, <1>3, <1>8, <1>9 DEF QueueRoom, rest, q

(* Children come into the queue behind what is there. *)
LEMMA JoinedRoom ==
  ASSUME ParentsOK', NEW q, q \in Created', NEW S, NEW a \in Seq(S), NEW b \in Seq(S),
         QueueRoom(a),
         \A e \in Range(a) : e.page \in Created' /\ e.page # q /\ e.page \notin Kids(node'[q]),
         \A e \in Range(b) :
           /\ e.page \in Created' /\ e.page \in Kids(node'[q])
           /\ IsMessages(e.messages, MAX_FLUSH_SIZE)
           /\ Cardinality(Blocks(node'[e.page], e.messages)) <= InnerN - Len(node'[e.page].pivots),
         IsInjective(b), \A e, f \in Range(b) : e.page = f.page => e = f
  PROVE  QueueRoom(a \o b)
<1> DEFINE c == a \o b
           l == Len(a)
           r == Len(b)
<1>1. /\ DOMAIN a = 1 .. l /\ DOMAIN b = 1 .. r /\ l \in Nat /\ r \in Nat
  BY LenProperties
<1>2. /\ DOMAIN c = 1 .. l + r
      /\ \A i \in 1 .. l + r : c[i] = IF i <= l THEN a[i] ELSE b[i - l]
  <2>1. c \in Seq(S) /\ Len(c) = l + r
        /\ \A i \in 1 .. Len(c) : c[i] = IF i <= l THEN a[i] ELSE b[i - l]
    BY ConcatProperties
  <2> QED BY <2>1, LenProperties
<1>3. Range(c) = Range(a) \cup Range(b)
  BY RangeConcatenation
<1> HIDE DEF c, l, r
<1>4. \A e \in Range(c) :
        /\ IsMessages(e.messages, MAX_FLUSH_SIZE)
        /\ Cardinality(Blocks(node'[e.page], e.messages)) <= InnerN - Len(node'[e.page].pivots)
  BY <1>3 DEF QueueRoom
<1>5. ASSUME NEW i \in DOMAIN c, NEW j \in DOMAIN c, i < j
      PROVE  c[j].page # c[i].page /\ c[j].page \notin Kids(node'[c[i].page])
  <2>1. CASE j <= l
    <3>1. i \in DOMAIN a /\ j \in DOMAIN a /\ c[i] = a[i] /\ c[j] = a[j]
      BY <1>1, <1>2, <1>5, <2>1
    <3> QED BY <1>5, <3>1 DEF QueueRoom
  <2>2. CASE ~(j <= l)
    <3>1. j - l \in DOMAIN b /\ c[j] = b[j - l] /\ c[j] \in Range(b)
      <4>1. j - l \in 1 .. r /\ c[j] = b[j - l]
        BY <1>1, <1>2, <2>2
      <4> QED BY <1>1, <4>1 DEF Range
    <3>2. c[j].page \in Kids(node'[q]) /\ c[j].page \in Created'
      BY <3>1
    <3>3. /\ c[i].page \in Created' /\ c[i].page # q /\ c[j].page # c[i].page
      <4>1. CASE i <= l
        <5>1. i \in DOMAIN a /\ c[i] = a[i]
          BY <1>1, <1>2, <4>1
        <5>2. c[i] \in Range(a)
          BY <5>1 DEF Range
        <5> QED BY <3>2, <5>2
      <4>2. CASE ~(i <= l)
        <5>1. i - l \in DOMAIN b /\ c[i] = b[i - l] /\ i - l # j - l
          BY <1>1, <1>2, <1>5, <4>2
        <5>2. c[i] \in Range(b)
          BY <5>1 DEF Range
        <5>3. c[i] # c[j]
          BY <3>1, <5>1 DEF IsInjective
        <5>4. c[i].page # q
          BY <5>2 DEF ParentsOK
        <5> QED BY <3>1, <5>2, <5>3, <5>4
      <4> QED BY <4>1, <4>2
    <3>4. Kids(node'[c[i].page]) \cap Kids(node'[q]) = {}
      BY <3>3 DEF ParentsOK
    <3> QED BY <3>2, <3>3, <3>4
  <2> QED BY <2>1, <2>2
<1> QED BY <1>4, <1>5 DEF QueueRoom, c

(* A flush to leaves: leaves and halves of leaves fit.                      *)
LEMMA ChangeLeavesRoom ==
  ASSUME TreeInv, TreeInv', RoomInv, NEW t \in Threads, Ready(t), LeavesBelow(t), ChangeLeaves(t)
  PROVE  RoomInv'
<1> DEFINE pairs(i) == node[Child(t, i)].pairs
           median(i) == LeafMedian(pairs(i), Addressed(t, i))
           left(i) == Apply(UpTo(pairs(i), median(i)), UpTo(Addressed(t, i), median(i)))
           right(i) == Apply(Above(pairs(i), median(i)), Above(Addressed(t, i), median(i)))
           all(i) == Apply(pairs(i), Addressed(t, i))
           rights(split) == [p \in RightPages(split) |-> Leaf(right(Split(split, p)))]
           lefts(split) == [p \in LeftPages(t) |->
              Leaf(IF ChildAt(t, p) \in split THEN left(ChildAt(t, p)) ELSE all(ChildAt(t, p)))]
           splits(split) == [i \in split |-> [pivot |-> median(i), page |-> Right(split, i)]]
           new(split) == FlushedPages(t, rights(split), lefts(split), splits(split))
<1>1. Ready(t) /\ LeavesBelow(t) /\ UNCHANGED header /\ Continue(t, Tail(queue[t]))
  BY DEF ChangeLeaves
<1>2. PICK split \in SUBSET Targets(t) :
        /\ RightPages(split) \subseteq 1 .. MaxPages /\ Write(new(split))
        /\ \A i \in Targets(t) : i \in split <=> NeedsSplit(pairs(i), Addressed(t, i))
  BY DEF ChangeLeaves, FlushedPages
<1>3. pc[t] = "flush"
  BY <1>1, ReadyFacts
<1>4. PICK b \in BOOLEAN : BranchOK(node[Flushed(t)], Kin(b)) /\ ~b /\ \A p \in LeftPages(t) : ~IsInner(p)
  BY <1>1, ReadyFacts
<1>5. /\ \A p \in LeftPages(t) : p \in Created \ {Root} /\ access[t][p] = "write"
      /\ \A p \in LeftPages(t) : ChildAt(t, p) \in Targets(t) /\ Child(t, ChildAt(t, p)) = p
  BY <1>1, ReadyFacts
<1>6. split \in SUBSET (Nat \ {0}) /\ IsFiniteSet(split)
  BY <1>3, TargetsFinite, FS_Subset
<1>7. \A p \in RightPages(split) : p \notin Created /\ p # Root /\ Split(split, p) \in split
  BY <1>6, RightHalves
<1>8. ASSUME NEW i \in Targets(t)
      PROVE  /\ i \in split => IsNode(Leaf(left(i))) /\ IsNode(Leaf(right(i)))
             /\ i \notin split => IsNode(Leaf(all(i)))
  <2> DEFINE f == pairs(i)
             m == Addressed(t, i)
  <2>1. Child(t, i) \in Created /\ IsLeaf(Child(t, i))
    BY <1>1, ReadyFacts DEF LeavesBelow
  <2>2. PairsTyped(f) /\ Size(f) <= LeafN
    BY <2>1, LeafFacts
  <2>3. IsMessages(m, MAX_FLUSH_SIZE)
    BY <1>3, AddressedFits
  <2>4. i \in split <=> NeedsSplit(f, m)
    BY <1>2
  <2> HIDE DEF f, m
  <2>5. LET k == LeafMedian(f, m) IN
        IF NeedsSplit(f, m)
        THEN /\ IsNode(Leaf(Apply(UpTo(f, k), UpTo(m, k))))
             /\ IsNode(Leaf(Apply(Above(f, k), Above(m, k))))
        ELSE IsNode(Leaf(Apply(f, m)))
    BY <2>2, <2>3, LeavesFit
  <2> QED BY <2>4, <2>5 DEF f, m
<1> HIDE DEF median, left, right, all
<1>9. Flushing(t, split, rights(split), lefts(split), splits(split), b)
  <2>1. \A p \in RightPages(split) : Half(t, p, rights(split)[p], b)
    BY <1>4, <1>7, HalfIsLeaf
  <2>2. \A p \in LeftPages(t) : Half(t, p, lefts(split)[p], b)
    BY <1>4, <1>5, HalfIsLeaf
  <2>3. \A i \in split : splits(split)[i].page = Right(split, i)
    OBVIOUS
  <2> QED BY <1>2, <2>1, <2>2, <2>3 DEF Flushing
<1>10. \A p \in LeftPages(t) : HalfRoom(p, lefts(split)[p])
  <2> SUFFICES ASSUME NEW p \in LeftPages(t) PROVE HalfRoom(p, lefts(split)[p])
    OBVIOUS
  <2> DEFINE leaf == lefts(split)[p]
  <2>1. IsNode(leaf)
    BY <1>5, <1>8
  <2>2. leaf.type = "leaf"
    BY LeafNode
  <2> HIDE DEF leaf
  <2> QED BY <2>1, <2>2 DEF HalfRoom, Kids, IsBranch, leaf
<1>11. \A p \in RightPages(split) :
         HalfRoom(Child(t, Split(split, p)), rights(split)[p]) /\ Kids(rights(split)[p]) = {}
  <2> SUFFICES ASSUME NEW p \in RightPages(split)
               PROVE  HalfRoom(Child(t, Split(split, p)), rights(split)[p]) /\ Kids(rights(split)[p]) = {}
    OBVIOUS
  <2> DEFINE leaf == rights(split)[p]
  <2>1. IsNode(leaf)
    BY <1>7, <1>8
  <2>2. leaf.type = "leaf"
    BY LeafNode
  <2> HIDE DEF leaf
  <2> QED BY <2>1, <2>2 DEF HalfRoom, Kids, IsBranch, leaf
<1> HIDE DEF rights, lefts, splits
<1>12. node' = new(split) ++ node
  BY <1>2 DEF Write
<1>13. /\ NewPages(new(split), Cardinality(split)) /\ Cardinality(split) \in Nat
       /\ Locked(t, new(split))
  <2> HIDE DEF Kin
  <2> QED BY <1>1, <1>4, <1>9, <1>12, FlushDown
<1>14. /\ ParentsOK' /\ \A p \in DOMAIN new(split) : IsNode(new(split)[p])
       /\ \A p \in Created \ (LeftPages(t) \cup {Flushed(t)}) : node'[p] = node[p]
  <2>1. \A p \in RightPages(split) :
          LET c == Child(t, Split(split, p)) IN
          HalfRoom(c, rights(split)[p]) /\ Kids(rights(split)[p]) \cap Kids(lefts(split)[c]) = {}
    BY <1>11
  <2> QED BY <1>3, <1>9, <1>10, <1>12, <1>13, <2>1, FlushedRoom
<1> HIDE DEF new
<1>15. QueueRoom(Tail(queue[t]))
  BY <1>3, <1>14, TailRoom
<1> QED BY <1>1, <1>2, <1>3, <1>13, <1>14, <1>15, ContinueRoom

(* Or an assertion fails before anything is changed.                        *)
LEMMA FlushToLeavesRoom ==
  ASSUME TreeInv, TreeInv', RoomInv, NEW t \in Threads, FlushToLeaves(t)
  PROVE  RoomInv'
<1>1. Ready(t) /\ LeavesBelow(t) /\ (ChangeLeaves(t) \/ Fail(t))
  BY DEF FlushToLeaves
<1>2. pc[t] = "flush"
  BY <1>1, ReadyFacts
<1> QED BY <1>1, <1>2, ChangeLeavesRoom, FailRoom

(* A child that takes all messages, keeps some of them, or is split. *)
Takes(n, messages, removed) ==
  \/ Fits(n, messages) /\ removed = {}
  \/ ~Fits(n, messages) /\ removed \in Removed(n, messages)

LEMMA KeptRoom ==
  ASSUME TreeInv, RoomInv, NEW p \in Created \ {Root}, IsInner(p), NEW n, n = node[p],
         NEW m, IsMessages(m, MAX_FLUSH_SIZE), NEW removed, Takes(n, m, removed)
  PROVE  LET kept == Keep(n, m, removed)
             out == Restrict(Together(n, m), removed)
             l == LeftInner(kept)
             r == RightInner(kept)
         IN
         /\ HalfRoom(p, kept)
         /\ ~Fits(n, m) => IsMessages(out, MAX_FLUSH_SIZE)
         /\ ~LacksPivots(n, out) => Cardinality(Blocks(kept, out)) <= InnerN - Len(kept.pivots)
         /\ \E d \in BOOLEAN :
              /\ InnerOK(kept, Kin(d))
              /\ LacksPivots(n, out) => InnerOK(l, Kin(d)) /\ InnerOK(r, Kin(d))
         /\ LacksPivots(n, out) =>
              /\ HalfRoom(p, l) /\ HalfRoom(p, r) /\ Kids(r) \cap Kids(l) = {}
              /\ \A x : Cardinality(Blocks(l, x)) <= InnerN - Len(l.pivots)
              /\ \A x : Cardinality(Blocks(r, x)) <= InnerN - Len(r.pivots)
<1> DEFINE kept == Keep(n, m, removed)
           out == Restrict(Together(n, m), removed)
           l == LeftInner(kept)
           r == RightInner(kept)
<1>1. /\ IsMessages(n.upserts, InnerBN) /\ Typed(n.upserts)
      /\ Len(n.pivots) <= InnerN /\ Len(n.children) = Len(n.pivots) + 1
      /\ Len(n.pivots) \in Nat /\ InnerBN \in Nat /\ InnerN \in Nat
  BY InnerFacts
<1>2. PICK d \in BOOLEAN : InnerOK(n, Kin(d))
  BY InnerFacts
<1>3. Typed(m) /\ Size(m) \in Nat /\ Size(n.upserts) \in Nat
  BY <1>1, FiniteKeys DEF IsMessages, Typed, Size
<1>4. /\ InnerOK(kept, Kin(d)) /\ kept.pivots = n.pivots /\ kept.children = n.children
      /\ IsMessages(kept.upserts, InnerBN) /\ (~Fits(n, m) => IsMessages(out, MAX_FLUSH_SIZE))
  <2>1. CASE Fits(n, m) /\ removed = {}
    <3> DEFINE all == Together(n, m)
    <3>1. Typed(all) /\ Size(all) <= Size(n.upserts) + Size(m) /\ Size(all) \in Nat
      BY <1>1, <1>3, MergeFits DEF Together
    <3>2. kept = WithUpserts(n, Restrict(all, DOMAIN all \ removed))
      BY DEF Keep, WithUpserts
    <3>3. Restrict(all, DOMAIN all \ removed) = Restrict(all, DOMAIN all)
      BY <2>1
    <3> HIDE DEF all, kept
    <3> DEFINE u == Restrict(all, DOMAIN all)
    <3>4. Typed(u) /\ Size(u) <= Size(all) /\ Size(u) \in Nat
      <4>1. Typed(u) /\ Size(u) = Cardinality(DOMAIN all) /\ Cardinality(DOMAIN all) \in Nat
            /\ Size(u) <= Size(all)
        BY <3>1, RestrictFits
      <4> QED BY <4>1
    <3> HIDE DEF u
    <3>5. Size(u) <= InnerBN
      <4>1. InnerBN - Size(n.upserts) >= Size(m)
        BY <2>1 DEF Fits
      <4> QED BY <1>1, <1>3, <3>1, <3>4, <4>1
    <3>6. IsMessages(u, InnerBN)
      BY <3>4, <3>5 DEF IsMessages, Typed
    <3>7. kept = WithUpserts(n, u)
      BY <3>2, <3>3 DEF u
    <3>8. InnerOK(kept, Kin(d)) /\ kept.pivots = n.pivots /\ kept.children = n.children
      <4> HIDE DEF Kin
      <4> QED BY <1>2, <3>7, WithUpsertsShape
    <3>9. kept.upserts = u
      <4> DEFINE pv == n.pivots
                 ch == n.children
                 up == n.upserts
      <4>1. n = Inner(pv, ch, up)
        BY <1>2 DEF InnerOK
      <4> HIDE DEF pv, ch, up
      <4>2. WithUpserts(n, u) = Inner(pv, ch, u)
        BY <4>1 DEF WithUpserts, Inner
      <4> QED BY <3>7, <4>2 DEF Inner
    <3> QED BY <2>1, <3>6, <3>8, <3>9
  <2>2. CASE ~Fits(n, m) /\ removed \in Removed(n, m)
    <3>1. Size(n.upserts) + Size(m) > InnerBN
      <4>1. ~(InnerBN - Size(n.upserts) >= Size(m))
        BY <2>2 DEF Fits
      <4> QED BY <1>1, <1>3, <4>1
    <3> HIDE DEF Kin
    <3> QED BY <1>1, <1>2, <2>2, <3>1, KeepFits
  <2> QED BY <2>1, <2>2 DEF Takes
<1> HIDE DEF kept, out, l, r
<1>5. kept.type = "inner" /\ n.type = "inner" /\ IsInjective(n.children)
  BY <1>2, <1>4 DEF InnerOK, RoomInv, ParentsOK, IsBranch
<1>6. Kids(kept) = Kids(n) /\ IsNode(kept)
  BY <1>1, <1>4, <1>5 DEF Kids, IsBranch, IsNode
<1>7. HalfRoom(p, kept)
  BY <1>4, <1>5, <1>6 DEF HalfRoom
<1>8. ~LacksPivots(n, out) => Cardinality(Blocks(kept, out)) <= InnerN - Len(kept.pivots)
  <2>1. Blocks(kept, out) = Blocks(n, out)
    BY <1>4, BlocksOfPivots
  <2>2. Cardinality(Blocks(n, out)) \in Nat
    <3> HIDE DEF Kin
    <3> QED BY <1>2, BlocksPartition DEF InnerOK
  <2> DEFINE x == Cardinality(Blocks(n, out))
             L == Len(n.pivots)
  <2> HIDE DEF x, L
  <2>3. L \in Nat /\ x \in Nat /\ InnerN \in Nat
    BY <1>1, <2>2 DEF x, L
  <2>4. ~(InnerN - L < x) => x <= InnerN - L
    BY <2>3
  <2> QED BY <1>4, <2>1, <2>4 DEF x, L, LacksPivots
<1>9. ASSUME LacksPivots(n, out)
      PROVE  /\ InnerOK(l, Kin(d)) /\ InnerOK(r, Kin(d))
             /\ HalfRoom(p, l) /\ HalfRoom(p, r) /\ Kids(r) \cap Kids(l) = {}
             /\ \A x : Cardinality(Blocks(l, x)) <= InnerN - Len(l.pivots)
             /\ \A x : Cardinality(Blocks(r, x)) <= InnerN - Len(r.pivots)
  <2>1. Len(n.pivots) >= 1
    <3> HIDE DEF Kin
    <3> QED BY <1>2, <1>9, LacksPivotsLength DEF InnerOK
  <2>2. /\ Len(kept.pivots) <= InnerN /\ Len(kept.pivots) >= 1 /\ IsInjective(kept.children)
    BY <1>1, <1>4, <1>5, <2>1
  <2>3. /\ l.type = "inner" /\ r.type = "inner" /\ IsNode(l) /\ IsNode(r)
        /\ IsInjective(l.children) /\ IsInjective(r.children)
        /\ Kids(l) \subseteq Kids(kept) /\ Kids(r) \subseteq Kids(kept) /\ Kids(l) \cap Kids(r) = {}
        /\ \A x : Cardinality(Blocks(l, x)) <= InnerN - Len(l.pivots)
        /\ \A x : Cardinality(Blocks(r, x)) <= InnerN - Len(r.pivots)
    <3> HIDE DEF Kin
    <3> QED BY <1>4, <2>2, HalvesRoom DEF l, r
  <2>4. InnerOK(l, Kin(d)) /\ InnerOK(r, Kin(d))
    <3> HIDE DEF Kin
    <3> QED BY <1>4, <2>2, HalvesShape DEF InnerOK, l, r
  <2>5. HalfRoom(p, l) /\ HalfRoom(p, r)
    BY <1>6, <2>3 DEF HalfRoom
  <2>6. Kids(r) \cap Kids(l) = {}
    BY <2>3
  <2> QED BY <2>3, <2>4, <2>5, <2>6
<1>10. \E e \in BOOLEAN :
         /\ InnerOK(kept, Kin(e))
         /\ LacksPivots(n, out) => InnerOK(l, Kin(e)) /\ InnerOK(r, Kin(e))
  <2> HIDE DEF Kin
  <2> QED BY <1>4, <1>9
<1>11. LacksPivots(n, out) =>
         /\ HalfRoom(p, l) /\ HalfRoom(p, r) /\ Kids(r) \cap Kids(l) = {}
         /\ \A x : Cardinality(Blocks(l, x)) <= InnerN - Len(l.pivots)
         /\ \A x : Cardinality(Blocks(r, x)) <= InnerN - Len(r.pivots)
  BY <1>9
<1>12. ~Fits(n, m) => IsMessages(out, MAX_FLUSH_SIZE)
  BY <1>4
<1> HIDE DEF Kin
<1> QED BY <1>7, <1>8, <1>10, <1>11, <1>12 DEF kept, out, l, r

(* Sequences of entries, no two for the same page. *)
Apart(T, s) ==
  /\ \A i \in T : /\ IsInjective(s[i]) /\ s[i] \in Seq(Range(s[i]))
                  /\ \A e, f \in Range(s[i]) : e.page = f.page => e = f
  /\ \A i, j \in T : i # j => \A e \in Range(s[i]), f \in Range(s[j]) : e.page # f.page

Gathered(b, T, top, s) ==
  /\ IsInjective(b) /\ b \in Seq(Range(b))
  /\ \A e \in Range(b) : \E i \in T \cap (1 .. top) : e \in Range(s[i])
  /\ \A e, f \in Range(b) : e.page = f.page => e = f

(* What comes into the queue from the children of a node, each entry for    *)
(* another page.                                                            *)
LEMMA CollectedDistinct ==
  ASSUME NEW T \in SUBSET (Nat \ {0}), NEW top \in Nat \ {0},
         NEW D, NEW s \in [1 .. top -> D],
         \A i \in 1 .. top : i \notin T => s[i] = <<>>,
         Apart(T, s),
         NEW b, b = FlattenSeq(s)
  PROVE  Gathered(b, T, top, s)
<1> DEFINE S == UNION {Range(s[i]) : i \in 1 .. top}
<1> USE DEF Apart
<1>1. IsInjective(<<>>) /\ Range(<<>>) = {} /\ <<>> \in Seq(S)
  BY DEF IsInjective, Range
<1>2. ASSUME NEW i \in 1 .. top
      PROVE  IsInjective(s[i]) /\ s[i] \in Seq(S) /\ (i \notin T => Range(s[i]) = {})
  <2>1. CASE i \in T
    <3>1. Range(s[i]) \subseteq S
      OBVIOUS
    <3> HIDE DEF S
    <3> QED BY <2>1, <3>1, SeqMonotonic
  <2>2. CASE i \notin T
    BY <1>1, <2>2
  <2> QED BY <2>1, <2>2
<1>3. \A i, j \in 1 .. top : i # j => Range(s[i]) \cap Range(s[j]) = {}
  BY <1>2
<1> HIDE DEF S
<1>4. s \in [1 .. top -> Seq(S)]
  BY <1>2
<1>5. IsInjective(b) /\ b \in Seq(S) /\ Range(b) = UNION {Range(s[i]) : i \in 1 .. top}
  <2>1. \A i \in 1 .. top : IsInjective(s[i])
    BY <1>2
  <2> QED BY <1>3, <1>4, <2>1, FlattenedDistinct
<1>6. b \in Seq(Range(b))
  BY <1>5, SeqOfRange
<1>7. \A e \in Range(b) : \E i \in T \cap (1 .. top) : e \in Range(s[i])
  BY <1>2, <1>5
<1>8. \A e, f \in Range(b) : e.page = f.page => e = f
  BY <1>7
<1> QED BY <1>5, <1>6, <1>7, <1>8 DEF Gathered

(* The empty sequence.                                                      *)
LEMMA EmptyQueue ==
  /\ IsInjective(<<>>) /\ <<>> \in Seq(Range(<<>>)) /\ Range(<<>>) = {}
BY DEF IsInjective, Range

(* A flush to inner nodes, one level down. What comes into the queue are    *)
(* children, and halves of children, of the node that was flushed: they     *)
(* have room for the pivots, and are behind all that was in the queue.      *)
LEMMA FlushToInnerRoom ==
  ASSUME TreeInv, TreeInv', RoomInv, NEW t \in Threads, FlushToInner(t)
  PROVE  RoomInv'
<1> DEFINE child(i) == node[Child(t, i)]
           full == {i \in Targets(t) : ~Fits(child(i), Addressed(t, i))}
           choices(i) == Removed(child(i), Addressed(t, i))
           kept(r, i) == Keep(child(i), Addressed(t, i), IF i \in full THEN r[i] ELSE {})
           out(r, i) == Restrict(Together(child(i), Addressed(t, i)), r[i])
           splitOf(r) == {i \in full : LacksPivots(child(i), out(r, i))}
           left(r, i) == IF i \in splitOf(r) THEN LeftInner(kept(r, i)) ELSE kept(r, i)
           more(r, i) ==
             IF i \in splitOf(r)
             THEN SplitEntries(Child(t, i), Right(splitOf(r), i), InnerPivot(kept(r, i)), out(r, i))
             ELSE IF i \in full THEN Entry(Child(t, i), out(r, i)) ELSE <<>>
           top == Max(Targets(t))
           mores(r) == [i \in 1 .. top |-> IF i \in Targets(t) THEN more(r, i) ELSE <<>>]
           queueAfter(r) == Tail(queue[t]) \o FlattenSeq(mores(r))
           rightsOf(r) == [p \in RightPages(splitOf(r)) |-> RightInner(kept(r, Split(splitOf(r), p)))]
           leftsOf(r) == [p \in LeftPages(t) |-> left(r, ChildAt(t, p))]
           splitsOf(r) == [i \in splitOf(r) |->
              [pivot |-> InnerPivot(kept(r, i)), page |-> Right(splitOf(r), i)]]
           newOf(r) == FlushedPages(t, rightsOf(r), leftsOf(r), splitsOf(r))
           q == Flushed(t)
<1>1. Ready(t) /\ ~LeavesBelow(t) /\ UNCHANGED header
  BY DEF FlushToInner
<1>2. PICK r \in [full -> UNION {choices(i) : i \in full}] :
        /\ \A i \in full : r[i] \in choices(i)
        /\ RightPages(splitOf(r)) \subseteq 1 .. MaxPages
        /\ Write(newOf(r)) /\ Continue(t, queueAfter(r))
  BY DEF FlushToInner, FlushedPages
<1>3. pc[t] = "flush"
  BY <1>1, ReadyFacts
<1>4. PICK b \in BOOLEAN : BranchOK(node[Flushed(t)], Kin(b)) /\ b /\ \A p \in LeftPages(t) : IsInner(p)
  BY <1>1, ReadyFacts
<1>5. /\ \A p \in LeftPages(t) : p \in Created \ {Root} /\ access[t][p] = "write"
      /\ \A p \in LeftPages(t) : ChildAt(t, p) \in Targets(t) /\ Child(t, ChildAt(t, p)) = p
      /\ \A i \in Targets(t) : Child(t, i) \in LeftPages(t)
  BY <1>1, ReadyFacts DEF LeftPages
<1>6. /\ q \in Created \ {Root}
      /\ \A i, j \in Targets(t) : Child(t, i) = Child(t, j) => i = j
      /\ \A i \in Targets(t) : ChildAt(t, Child(t, i)) = i /\ Child(t, i) \in Kids(node[q])
  BY <1>3, TargetKids
<1> DEFINE split == splitOf(r)
<1>7. split \in SUBSET Targets(t) /\ split \in SUBSET full /\ full \in SUBSET Targets(t)
  OBVIOUS
<1>8. split \in SUBSET (Nat \ {0}) /\ IsFiniteSet(split)
  <2> HIDE DEF splitOf, full
  <2> QED BY <1>3, <1>7, TargetsFinite, FS_Subset
<1>9. ASSUME NEW i \in Targets(t)
      PROVE  /\ HalfRoom(Child(t, i), kept(r, i))
             /\ i \in full => IsMessages(out(r, i), MAX_FLUSH_SIZE)
             /\ i \in full /\ i \notin split =>
                  Cardinality(Blocks(kept(r, i), out(r, i))) <= InnerN - Len(kept(r, i).pivots)
             /\ \E d \in BOOLEAN :
                  /\ InnerOK(kept(r, i), Kin(d))
                  /\ i \in split => InnerOK(LeftInner(kept(r, i)), Kin(d)) /\ InnerOK(RightInner(kept(r, i)), Kin(d))
             /\ i \in split =>
                  LET k == kept(r, i) IN
                  /\ HalfRoom(Child(t, i), LeftInner(k)) /\ HalfRoom(Child(t, i), RightInner(k))
                  /\ Kids(RightInner(k)) \cap Kids(LeftInner(k)) = {}
                  /\ \A x : Cardinality(Blocks(LeftInner(k), x)) <= InnerN - Len(LeftInner(k).pivots)
                  /\ \A x : Cardinality(Blocks(RightInner(k), x)) <= InnerN - Len(RightInner(k).pivots)
  <2> DEFINE p == Child(t, i)
             n == child(i)
             m == Addressed(t, i)
             removed == IF i \in full THEN r[i] ELSE {}
  <2>1. p \in Created \ {Root} /\ IsInner(p)
    BY <1>4, <1>5
  <2>2. IsMessages(m, MAX_FLUSH_SIZE)
    BY <1>3, AddressedFits
  <2>3. Takes(n, m, removed)
    <3>1. CASE i \in full
      <4>1. r[i] \in Removed(n, m) /\ ~Fits(n, m) /\ removed = r[i]
        BY <1>2, <3>1
      <4> QED BY <4>1 DEF Takes
    <3>2. CASE i \notin full
      <4>1. Fits(n, m) /\ removed = {}
        BY <3>2
      <4> QED BY <4>1 DEF Takes
    <3> QED BY <3>1, <3>2
  <2>4. n = node[p]
    OBVIOUS
  <2>5. i \in split <=> i \in full /\ LacksPivots(n, out(r, i))
    OBVIOUS
  <2>6. i \in full <=> ~Fits(n, m)
    OBVIOUS
  <2>7. /\ kept(r, i) = Keep(n, m, removed)
        /\ i \in full => out(r, i) = Restrict(Together(n, m), removed)
    OBVIOUS
  <2> HIDE DEF p, n, m, removed, split, full, Kin, kept, out
  <2>8. LET o == Restrict(Together(n, m), removed)
            k == Keep(n, m, removed)
        IN
        /\ HalfRoom(p, k)
        /\ ~Fits(n, m) => IsMessages(o, MAX_FLUSH_SIZE)
        /\ ~LacksPivots(n, o) => Cardinality(Blocks(k, o)) <= InnerN - Len(k.pivots)
        /\ \E d \in BOOLEAN :
             /\ InnerOK(k, Kin(d))
             /\ LacksPivots(n, o) => InnerOK(LeftInner(k), Kin(d)) /\ InnerOK(RightInner(k), Kin(d))
        /\ LacksPivots(n, o) =>
             /\ HalfRoom(p, LeftInner(k)) /\ HalfRoom(p, RightInner(k))
             /\ Kids(RightInner(k)) \cap Kids(LeftInner(k)) = {}
             /\ \A x : Cardinality(Blocks(LeftInner(k), x)) <= InnerN - Len(LeftInner(k).pivots)
             /\ \A x : Cardinality(Blocks(RightInner(k), x)) <= InnerN - Len(RightInner(k).pivots)
    BY <2>1, <2>2, <2>3, <2>4, KeptRoom
  <2> DEFINE k == kept(r, i)
             o == out(r, i)
  <2>9. CASE i \in full
    <3>1. k = Keep(n, m, removed) /\ o = Restrict(Together(n, m), removed)
      BY <2>7, <2>9
    <3>2. i \in split <=> LacksPivots(n, o)
      BY <2>5, <2>9
    <3> QED BY <2>6, <2>8, <2>9, <3>1, <3>2 DEF p
  <2>10. CASE i \notin full
    <3>1. k = Keep(n, m, removed) /\ i \notin split
      BY <2>5, <2>7, <2>10
    <3> QED BY <2>8, <2>10, <3>1 DEF p
  <2> QED BY <2>9, <2>10
<1> HIDE DEF splitOf, full, out, child, kept
<1>10. /\ \A p \in RightPages(split) : p \notin Created /\ p # Root /\ Split(split, p) \in split
       /\ \A p \in RightPages(split) : Right(split, Split(split, p)) = p
       /\ \A i, j \in split : Right(split, i) = Right(split, j) => i = j
       /\ \A i \in split : Right(split, i) \in RightPages(split)
  BY <1>8, RightHalves, RightInverse
<1>11. \A p \in RightPages(split) : Half(t, p, rightsOf(r)[p], b)
  <2>1. ASSUME NEW p \in RightPages(split)
        PROVE  Half(t, p, rightsOf(r)[p], b)
    <3>1. rightsOf(r)[p] = RightInner(kept(r, Split(split, p)))
      OBVIOUS
    <3>2. PICK d \in BOOLEAN : InnerOK(RightInner(kept(r, Split(split, p))), Kin(d))
      BY <1>7, <1>9, <1>10
    <3> HIDE DEF Kin, rightsOf
    <3> QED BY <1>4, <1>10, <3>1, <3>2, HalfIsInner, ZenonT(30)
  <2> QED BY <2>1
<1>12. \A p \in LeftPages(t) : Half(t, p, leftsOf(r)[p], b)
  <2>1. ASSUME NEW p \in LeftPages(t)
        PROVE  Half(t, p, leftsOf(r)[p], b)
    <3> DEFINE i == ChildAt(t, p)
    <3>1. leftsOf(r)[p] = IF i \in split THEN LeftInner(kept(r, i)) ELSE kept(r, i)
      OBVIOUS
    <3>2. PICK d \in BOOLEAN : InnerOK(leftsOf(r)[p], Kin(d))
      BY <1>5, <1>9, <3>1
    <3> HIDE DEF Kin, leftsOf
    <3> QED BY <1>4, <1>5, <3>2, HalfIsInner
  <2> QED BY <2>1
<1>13. Flushing(t, split, rightsOf(r), leftsOf(r), splitsOf(r), b)
  <2>1. /\ DOMAIN rightsOf(r) = RightPages(split) /\ DOMAIN leftsOf(r) = LeftPages(t)
        /\ DOMAIN splitsOf(r) = split
    OBVIOUS
  <2>2. \A i \in split : splitsOf(r)[i].page = Right(split, i)
    OBVIOUS
  <2> HIDE DEF rightsOf, leftsOf, splitsOf
  <2> QED BY <1>2, <1>7, <1>11, <1>12, <2>1, <2>2 DEF Flushing
<1>14. \A i \in Targets(t) :
         leftsOf(r)[Child(t, i)] = IF i \in split THEN LeftInner(kept(r, i)) ELSE kept(r, i)
  BY <1>5, <1>6
<1>15. \A i \in split : rightsOf(r)[Right(split, i)] = RightInner(kept(r, i))
  <2>1. ASSUME NEW i \in split PROVE rightsOf(r)[Right(split, i)] = RightInner(kept(r, i))
    <3>1. Split(split, Right(split, i)) = i
      BY <1>10
    <3> QED BY <1>10, <3>1
  <2> QED BY <2>1
<1> DEFINE new == newOf(r)
           rights == rightsOf(r)
           lefts == leftsOf(r)
           newQueue == queueAfter(r)
<1>16. node' = new ++ node /\ Write(new) /\ new = FlushedPages(t, rights, lefts, splitsOf(r))
  BY <1>2 DEF Write
<1> HIDE DEF rightsOf, leftsOf, splitsOf, split, rights, lefts, newOf, new
<1>17. \A p \in LeftPages(t) : HalfRoom(p, lefts[p])
  <2>1. ASSUME NEW p \in LeftPages(t) PROVE HalfRoom(p, lefts[p])
    <3> DEFINE i == ChildAt(t, p)
    <3>1. i \in Targets(t) /\ Child(t, i) = p
      BY <1>5
    <3> HIDE DEF i
    <3> QED BY <1>9, <1>14, <3>1 DEF lefts
  <2> QED BY <2>1
<1>18. \A p \in RightPages(split) :
         LET c == Child(t, Split(split, p)) IN
         HalfRoom(c, rights[p]) /\ Kids(rights[p]) \cap Kids(lefts[c]) = {}
  <2>1. ASSUME NEW p \in RightPages(split)
        PROVE  LET c == Child(t, Split(split, p)) IN
               HalfRoom(c, rights[p]) /\ Kids(rights[p]) \cap Kids(lefts[c]) = {}
    <3> DEFINE i == Split(split, p)
    <3>1. i \in split /\ i \in Targets(t) /\ Right(split, i) = p
      BY <1>7, <1>10
    <3>2. rights[p] = RightInner(kept(r, i)) /\ lefts[Child(t, i)] = LeftInner(kept(r, i))
      BY <1>14, <1>15, <3>1 DEF rights, lefts
    <3> HIDE DEF i
    <3>3. HalfRoom(Child(t, i), RightInner(kept(r, i)))
          /\ Kids(RightInner(kept(r, i))) \cap Kids(LeftInner(kept(r, i))) = {}
      BY <1>9, <3>1
    <3> QED BY <3>2, <3>3 DEF i
  <2> QED BY <2>1
<1>19. /\ NewPages(new, Cardinality(split)) /\ Cardinality(split) \in Nat /\ Locked(t, new)
       /\ \A p \in RightPages(split) : p \in Created'
       /\ Created \subseteq Created'
  <2> HIDE DEF Kin
  <2> QED BY <1>1, <1>4, <1>13, <1>16, FlushDown DEF rights, lefts
<1>20. /\ ParentsOK' /\ \A p \in DOMAIN new : IsNode(new[p])
       /\ \A p \in LeftPages(t) : node'[p] = lefts[p]
       /\ \A p \in RightPages(split) : node'[p] = rights[p]
       /\ Kids(node'[q]) = Kids(node[q]) \cup RightPages(split)
       /\ \A p \in Created \ (LeftPages(t) \cup {q}) : node'[p] = node[p]
  <2>1. Flushing(t, split, rights, lefts, splitsOf(r), b)
    BY <1>13 DEF rights, lefts
  <2> HIDE DEF q
  <2> DEFINE splits == splitsOf(r)
  <2>2. new = FlushedPages(t, rights, lefts, splits)
    BY <1>16
  <2> HIDE DEF splits
  <2>3. /\ ParentsOK' /\ \A p \in DOMAIN new : IsNode(new[p])
        /\ \A p \in LeftPages(t) : node'[p] = lefts[p]
        /\ \A p \in RightPages(split) : node'[p] = rights[p]
        /\ Kids(node'[Flushed(t)]) = Kids(node[Flushed(t)]) \cup RightPages(split)
        /\ \A p \in Created \ (LeftPages(t) \cup {Flushed(t)}) : node'[p] = node[p]
    <3>1. Flushing(t, split, rights, lefts, splits, b) 
      BY <2>1 DEF splits
    <3> HIDE DEF newQueue, queueAfter, kept, out, child
    <3> QED BY <1>3, <1>16, <1>17, <1>18, <1>19, <2>2, <3>1, FlushedRoom, SMTT(30)
  <2> QED BY <2>3 DEF q
<1> DEFINE rest == Tail(queue[t])
<1>21. /\ rest \in Seq(Range(rest)) /\ QueueRoom(rest)
       /\ \A e \in Range(rest) : e.page \in Created' /\ e.page # q /\ e.page \notin Kids(node'[q])
  <2>1. /\ rest \in Seq(Range(rest)) /\ QueueRoom(rest)
        /\ \A e \in Range(rest) : e.page \in Created /\ e.page # q /\ e.page \notin Kids(node[q])
    BY <1>3, <1>20, TailRoom
  <2> HIDE DEF rest, q
  <2> QED BY <1>10, <1>19, <1>20, <2>1
<1>22. /\ \A i \in Targets(t) : Child(t, i) \in Created' /\ Child(t, i) \in Kids(node'[q])
       /\ \A i \in Targets(t) : Child(t, i) \in Created
       /\ \A p \in RightPages(split) : p \in Created' /\ p \in Kids(node'[q])
  BY <1>5, <1>6, <1>19, <1>20
<1>23. /\ \A i \in Targets(t) :
            node'[Child(t, i)] = IF i \in split THEN LeftInner(kept(r, i)) ELSE kept(r, i)
       /\ \A i \in split : node'[Right(split, i)] = RightInner(kept(r, i))
  BY <1>5, <1>10, <1>14, <1>15, <1>20 DEF lefts, rights
<1> DEFINE FitsAfter(e) ==
             /\ IsMessages(e.messages, MAX_FLUSH_SIZE)
             /\ Cardinality(Blocks(node'[e.page], e.messages)) <= InnerN - Len(node'[e.page].pivots)
<1>24. ASSUME NEW i \in Targets(t)
       PROVE  /\ IsInjective(more(r, i)) /\ more(r, i) \in Seq(Range(more(r, i)))
              /\ \A e \in Range(more(r, i)) :
                   /\ e.page = Child(t, i) \/ (i \in split /\ e.page = Right(split, i))
                   /\ FitsAfter(e)
              /\ \A e, f \in Range(more(r, i)) : e.page = f.page => e = f
  <2> DEFINE c == Child(t, i)
             m == more(r, i)
             o == out(r, i)
             k == kept(r, i)
  <2>1. CASE i \in split
    <3> DEFINE p == Right(split, i)
               pivot == InnerPivot(k)
    <3>1. m = SplitEntries(c, p, pivot, o) /\ i \in full
      BY <1>7, <2>1 DEF split
    <3>2. c # p
      BY <1>10, <1>22, <2>1
    <3>3. IsMessages(o, MAX_FLUSH_SIZE)
      BY <1>9, <3>1
    <3>4. node'[c] = LeftInner(k) /\ node'[p] = RightInner(k)
      BY <1>23, <2>1
    <3>5. /\ \A x : Cardinality(Blocks(LeftInner(k), x)) <= InnerN - Len(LeftInner(k).pivots)
          /\ \A x : Cardinality(Blocks(RightInner(k), x)) <= InnerN - Len(RightInner(k).pivots)
      BY <1>9, <2>1
    <3> HIDE DEF c, m, o, k, p, pivot, more
    <3>6. /\ IsInjective(m) /\ m \in Seq(Range(m))
          /\ \A e \in Range(m) : e.page \in {c, p} /\ IsMessages(e.messages, MAX_FLUSH_SIZE)
          /\ \A e, f \in Range(m) : e.page = f.page => e = f
      BY <3>1, <3>2, <3>3, SplitEntriesRoom
    <3>7. \A e \in Range(m) : (e.page = c \/ (i \in split /\ e.page = p)) /\ FitsAfter(e)
      <4>1. ASSUME NEW e \in Range(m) PROVE (e.page = c \/ (i \in split /\ e.page = p)) /\ FitsAfter(e)
        <5>1. e.page \in {c, p} /\ IsMessages(e.messages, MAX_FLUSH_SIZE)
          BY <3>6
        <5>2. Cardinality(Blocks(node'[e.page], e.messages)) <= InnerN - Len(node'[e.page].pivots)
          <6>1. CASE e.page = c
            BY <3>4, <3>5, <6>1
          <6>2. CASE e.page = p
            BY <3>4, <3>5, <6>2
          <6> QED BY <5>1, <6>1, <6>2
        <5>3. FitsAfter(e)
          BY <5>1, <5>2
        <5> HIDE DEF FitsAfter
        <5> QED BY <2>1, <5>1, <5>3
      <4> QED BY <4>1
    <3> QED BY <3>6, <3>7 DEF c, m, p
  <2>2. CASE i \notin split /\ i \in full
    <3>1. m = Entry(c, o)
      BY <2>2 DEF split
    <3>2. IsMessages(o, MAX_FLUSH_SIZE) /\ Cardinality(Blocks(k, o)) <= InnerN - Len(k.pivots)
      BY <1>9, <2>2
    <3>3. node'[c] = k
      BY <1>23, <2>2
    <3> HIDE DEF c, m, o, k, more
    <3>4. /\ IsInjective(m) /\ m \in Seq(Range(m))
          /\ \A e \in Range(m) : e.page = c /\ e.messages = o
          /\ \A e, f \in Range(m) : e = f
      BY <3>1, EntryRoom
    <3>5. \A e \in Range(m) : (e.page = c \/ (i \in split /\ e.page = Right(split, i))) /\ FitsAfter(e)
      <4>1. ASSUME NEW e \in Range(m) PROVE e.page = c /\ FitsAfter(e)
        <5>1. e.page = c /\ e.messages = o
          BY <3>4
        <5> QED BY <3>2, <3>3, <5>1
      <4> HIDE DEF FitsAfter
      <4> QED BY <4>1
    <3> QED BY <3>4, <3>5 DEF c, m
  <2>3. CASE i \notin split /\ i \notin full
    <3>1. m = <<>>
      BY <2>3 DEF split
    <3> HIDE DEF m, more
    <3> QED BY <3>1, EmptyQueue DEF m
  <2> QED BY <2>1, <2>2, <2>3
<1> HIDE DEF more, FitsAfter
<1>25. \A i, j \in Targets(t) : i # j =>
         \A e \in Range(more(r, i)), f \in Range(more(r, j)) : e.page # f.page
  <2>1. ASSUME NEW i \in Targets(t), NEW j \in Targets(t), i # j,
               NEW e \in Range(more(r, i)), NEW f \in Range(more(r, j))
        PROVE  e.page # f.page
    <3>1. /\ e.page = Child(t, i) \/ (i \in split /\ e.page = Right(split, i))
          /\ f.page = Child(t, j) \/ (j \in split /\ f.page = Right(split, j))
      BY <1>24
    <3>2. Child(t, i) # Child(t, j) /\ Child(t, i) \in Created /\ Child(t, j) \in Created
      BY <1>6, <1>22, <2>1
    <3>3. /\ i \in split /\ j \in split => Right(split, i) # Right(split, j)
          /\ i \in split => Right(split, i) \notin Created
          /\ j \in split => Right(split, j) \notin Created
      BY <1>10, <2>1
    <3> QED BY <3>1, <3>2, <3>3
  <2> QED BY <2>1
<1> DEFINE T == Targets(t)
           s == mores(r)
           incoming == FlattenSeq(s)
<1>26. top \in Nat \ {0} /\ T \in SUBSET (Nat \ {0})
  BY <1>3, TargetsFinite
<1> HIDE DEF top
<1>27. /\ s \in [1 .. top -> {s[i] : i \in 1 .. top}]
       /\ \A i \in 1 .. top : i \notin T => s[i] = <<>>
       /\ \A i \in T \cap (1 .. top) : s[i] = more(r, i)
  OBVIOUS
<1>28. newQueue = rest \o incoming /\ Continue(t, newQueue)
  BY <1>2
<1> HIDE DEF newQueue, mores, rest, incoming, s, T
<1>29. /\ IsInjective(incoming) /\ incoming \in Seq(Range(incoming))
       /\ \A e \in Range(incoming) : \E i \in Targets(t) : e \in Range(more(r, i))
       /\ \A e, f \in Range(incoming) : e.page = f.page => e = f
  <2> DEFINE U == T \cap (1 .. top)
             D == {s[i] : i \in 1 .. top}
  <2>1. U \in SUBSET (Nat \ {0}) /\ U \subseteq Targets(t)
    BY <1>26 DEF T
  <2>2. /\ \A i \in 1 .. top : i \notin U => s[i] = <<>>
        /\ \A i \in U : s[i] = more(r, i)
        /\ s \in [1 .. top -> D]
    BY <1>27
  <2> HIDE DEF U, D
  <2>3. \A i \in U : /\ IsInjective(s[i]) /\ s[i] \in Seq(Range(s[i]))
                     /\ \A e, f \in Range(s[i]) : e.page = f.page => e = f
    <3>1. ASSUME NEW i \in U
          PROVE  /\ IsInjective(s[i]) /\ s[i] \in Seq(Range(s[i]))
                 /\ \A e, f \in Range(s[i]) : e.page = f.page => e = f
      <4>1. s[i] = more(r, i) /\ i \in Targets(t)
        BY <2>1, <2>2
      <4> QED BY <1>24, <4>1
    <3> QED BY <3>1
  <2>4. \A i, j \in U : i # j => \A e \in Range(s[i]), f \in Range(s[j]) : e.page # f.page
    <3>1. ASSUME NEW i \in U, NEW j \in U, i # j
          PROVE  \A e \in Range(s[i]), f \in Range(s[j]) : e.page # f.page
      <4>1. s[i] = more(r, i) /\ i \in Targets(t) /\ s[j] = more(r, j) /\ j \in Targets(t)
        BY <2>1, <2>2
      <4> QED BY <1>25, <3>1, <4>1
    <3> QED BY <3>1
  <2>5. incoming = FlattenSeq(s)
    BY DEF incoming
  <2>6. /\ IsInjective(incoming) /\ incoming \in Seq(Range(incoming))
        /\ \A e \in Range(incoming) : \E i \in U \cap (1 .. top) : e \in Range(s[i])
        /\ \A e, f \in Range(incoming) : e.page = f.page => e = f
    <3>1. U \in SUBSET (Nat \ {0}) /\ top \in Nat \ {0}
      BY <1>26, <2>1
    <3>2. s \in [1 .. top -> D]
      BY <2>2
    <3>3. \A i \in 1 .. top : i \notin U => s[i] = <<>>
      BY <2>2
    <3>4. Apart(U, s)
      BY <2>3, <2>4 DEF Apart
    <3> HIDE DEF incoming
    <3>5. Gathered(incoming, U, top, s)
      BY <2>5, <3>1, <3>2, <3>3, <3>4, CollectedDistinct
    <3> QED BY <3>5 DEF Gathered
  <2>7. \A e \in Range(incoming) : \E i \in Targets(t) : e \in Range(more(r, i))
    BY <2>1, <2>2, <2>6
  <2> QED BY <2>6, <2>7
<1>30. \A e \in Range(incoming) :
         /\ e.page \in Created' /\ e.page \in Kids(node'[q])
         /\ IsMessages(e.messages, MAX_FLUSH_SIZE)
         /\ Cardinality(Blocks(node'[e.page], e.messages)) <= InnerN - Len(node'[e.page].pivots)
  <2>1. ASSUME NEW e \in Range(incoming)
        PROVE  e.page \in Created' /\ e.page \in Kids(node'[q]) /\ FitsAfter(e)
    <3>1. PICK i \in Targets(t) : e \in Range(more(r, i))
      BY <1>29
    <3>2. (e.page = Child(t, i) \/ (i \in split /\ e.page = Right(split, i))) /\ FitsAfter(e)
      BY <1>24, <3>1
    <3> HIDE DEF q
    <3> QED BY <1>10, <1>22, <3>2
  <2> QED BY <2>1 DEF FitsAfter
<1>31. QueueRoom(rest \o incoming)
  <2> DEFINE S == Range(rest) \cup Range(incoming)
  <2>1. rest \in Seq(S) /\ incoming \in Seq(S)
    <3>1. Range(rest) \subseteq S /\ Range(incoming) \subseteq S
      OBVIOUS
    <3> HIDE DEF S
    <3> QED BY <1>21, <1>29, <3>1, SeqMonotonic
  <2> HIDE DEF S
  <2>2. q \in Created'
    BY <1>6, <1>19
  <2> HIDE DEF q
  <2> QED BY <1>20, <1>21, <1>29, <1>30, <2>1, <2>2, JoinedRoom
<1>32. QueueRoom(newQueue)
  BY <1>28, <1>31
<1> QED BY <1>1, <1>3, <1>16, <1>19, <1>20, <1>28, <1>32, ContinueRoom

(***************************************************************************)
(* The invariant about sizes, and what it means.                           *)
(***************************************************************************)
LEMMA RoomInit == Init => RoomInv
<1> SUFFICES ASSUME Init PROVE RoomInv
  OBVIOUS
<1>1. Created = {Root} /\ node[Root] = Leaf(Empty)
  BY DEF Init, Created
<1>2. node[Root].type = "leaf" /\ node[Root].pairs = Empty
  BY <1>1, LeafNode DEF Leaf
<1>3. IsNode(node[Root])
  <2>1. Cardinality({}) = 0
    BY FS_EmptySet
  <2>2. DOMAIN Empty = {} /\ Range(Empty) = {} /\ Size(Empty) = 0
    BY <2>1 DEF Empty, Range, Size
  <2> QED BY <1>2, <2>2, SizesAssumption DEF IsNode
<1>4. Kids(node[Root]) = {} /\ ~IsBranch(node[Root])
  BY <1>2 DEF Kids, IsBranch
<1>5. NodesFit
  BY <1>1, <1>3 DEF Init, NodesFit, Empty
<1>6. ParentsOK
  BY <1>1, <1>4 DEF ParentsOK
<1>7. HeaderFits
  BY DEF Init, HeaderFits, Open
<1>8. current \in [Threads -> Created \cup {None}]
  BY DEF Init
<1>9. ASSUME NEW t \in Threads PROVE CallOK(t) /\ QueueFits(t) /\ RootFits(t)
  <2>1. pc[t] = "client" /\ queue[t] = <<>>
    BY DEF Init
  <2> QED BY <2>1, EmptyQueue DEF CallOK, QueueFits, RootFits
<1> QED BY <1>5, <1>6, <1>7, <1>8, <1>9 DEF RoomInv

(* Every step of a thread keeps the invariant: one lemma per action. *)
LEMMA ThreadRoom ==
  ASSUME TreeInv, TreeInv', RoomInv, NEW t \in Threads, Steps(t)
  PROVE  RoomInv'
<1>1. CASE ReadHeader(t)      BY <1>1, ReadHeaderRoom
<1>2. CASE PinRoot(t)         BY <1>2, PinRootRoom
<1>3. CASE RootLeafKeeps(t)   BY <1>3, RootLeafKeepsRoom
<1>4. CASE RootLeafSplits(t)  BY <1>4, RootLeafSplitsRoom
<1>5. CASE RetryFullRoot(t)   BY <1>5, RetryRoom DEF RetryFullRoot, AtRoot, At
<1>6. CASE SplitRoot(t)       BY <1>6, SplitRootRoom
<1>7. CASE PinTarget(t)       BY <1>7, PinTargetRoom
<1>8. CASE RetryFullLeaf(t)   BY <1>8, RetryRoom DEF RetryFullLeaf, AtLeaf, At
<1>9. CASE TargetLeafKeeps(t) BY <1>9, TargetLeafKeepsRoom
<1>10. CASE TargetLeafSplits(t) BY <1>10, TargetLeafSplitsRoom
<1>11. CASE StoreUpsert(t)    BY <1>11, StoreUpsertRoom
<1>12. CASE RetryFullTarget(t) BY <1>12, RetryRoom DEF RetryFullTarget, AtInner, At
<1>13. CASE FlushTarget(t)    BY <1>13, FlushTargetRoom
<1>14. CASE FlushSplitTarget(t) BY <1>14, FlushSplitTargetRoom
<1>15. CASE \E i \in 1 .. InnerN + 1 : PinFlushChild(t, i)
  BY <1>15, PinFlushChildRoom
<1>16. CASE FlushToLeaves(t)  BY <1>16, FlushToLeavesRoom
<1>17. CASE FlushToInner(t)   BY <1>17, FlushToInnerRoom
<1>18. CASE FindInRootLeaf(t) BY <1>18, FindInRootLeafRoom
<1>19. CASE FindChild(t)      BY <1>19, FindChildRoom
<1> QED BY <1>1, <1>2, <1>3, <1>4, <1>5, <1>6, <1>7, <1>8, <1>9, <1>10, <1>11, <1>12, <1>13,
           <1>14, <1>15, <1>16, <1>17, <1>18, <1>19 DEF Steps

(* RoomInv is inductive, next to TreeInv.                                   *)
LEMMA RoomNext == TreeInv /\ RoomInv /\ [Next]_vars => RoomInv'
<1> SUFFICES ASSUME TreeInv, RoomInv, [Next]_vars PROVE RoomInv'
  OBVIOUS
<1>0. TreeInv'
  BY TreeNext
<1>1. CASE Evict
  BY <1>1, EvictRoom
<1>2. CASE Close
  BY <1>2, CloseRoom
<1>3. CASE Reopen
  BY <1>3, ReopenRoom
<1>4. ASSUME NEW t \in Threads, Steps(t) PROVE RoomInv'
  BY <1>0, <1>4, ThreadRoom
<1>5. ASSUME NEW t \in Threads, Load(t) PROVE RoomInv'
  <2>1. loaded \in Nat /\ loaded < Len(Preload) /\ loaded' = loaded + 1
    BY <1>5 DEF Load, RoomInv, HeaderFits
  <2>2. Preload[loaded + 1] \in CallType
    <3>1. Preload \in Seq(CallType) /\ Len(Preload) \in Nat
      BY OperationsAssumption
    <3>2. loaded + 1 \in 1 .. Len(Preload)
      BY <2>1, <3>1
    <3> QED BY <3>1, <3>2
  <2>3. Begin(t, Preload[loaded + 1]) /\ loaded' \in Nat
    BY <1>5, <2>1 DEF Load
  <2> QED BY <1>0, <2>2, <2>3, BeginRoom
<1>6. ASSUME NEW t \in Threads, NEW n \in DOMAIN Operations[t], NEW c \in Operations[t][n], Call(t, c)
      PROVE  RoomInv'
  <2>1. c \in CallType
    <3>1. Operations[t] \in Seq(SUBSET CallType)
      BY OperationsAssumption
    <3>2. Operations[t][n] \in SUBSET CallType
      BY <1>6, <3>1
    <3> QED BY <1>6, <3>2
  <2>2. Begin(t, c) /\ loaded' \in Nat
    BY <1>6 DEF Call, RoomInv, HeaderFits
  <2> QED BY <1>0, <2>1, <2>2, BeginRoom
<1>7. CASE UNCHANGED vars
  BY <1>7, IdleRoom
<1> QED BY <1>1, <1>2, <1>3, <1>4, <1>5, <1>6, <1>7 DEF Next

(* At any time nodes are not larger than their arrays; every page is the    *)
(* child of at most one node; and the nodes in the queue of a thread are    *)
(* different ones, none the child of one before it, each with messages for  *)
(* no more children than it has room for pivots (upsert, find, flush and    *)
(* handleTraversalNode of BeTree.h).                                        *)
THEOREM RoomInvariant == Spec => []RoomInv
<1>1. Init => TreeInv /\ RoomInv
  BY TreeInit, RoomInit
<1>2. TreeInv /\ RoomInv /\ [Next]_vars => (TreeInv /\ RoomInv)'
  BY TreeNext, RoomNext
<1> QED BY <1>1, <1>2, PTL DEF Spec

(* Variables have their types, and no leaf, inner node or root has more     *)
(* pairs, messages or pivots than its arrays hold (BeNode.h:35-92).         *)
THEOREM TypeCorrect == Spec => []TypeOK
<1>1. TreeInv /\ RoomInv => TypeOK
  <2> SUFFICES ASSUME TreeInv, RoomInv PROVE TypeOK
    OBVIOUS
  <2>1. Created = 1 .. Cardinality(Created) /\ Created \subseteq AllPages
    BY PagesAssumption DEF TreeInv, PagesOK, AllPages
  <2>2. DOMAIN stale \subseteq Created
    BY DEF TreeInv, PagesOK
  <2>3. \A p \in Created : IsNode(node[p])
    BY DEF RoomInv, NodesFit
  <2>4. rootLeaf \in BOOLEAN /\ currentTimeStamp \in Nat
    BY DEF TreeInv, HeaderOK, RoomInv, HeaderFits
  <2>5. /\ access \in [Threads -> [AllPages -> {"none", "read", "write"}]]
        /\ pc \in [Threads -> Labels]
        /\ exclusiveMode \in [Threads -> BOOLEAN] /\ mode \in [Threads -> BOOLEAN]
        /\ current \in [Threads -> Created \cup {None}]
    BY DEF TreeInv, LocksOK, LocalTypes, RoomInv
  <2>6. ASSUME NEW t \in Threads, NEW e \in ToSet(queue[t])
        PROVE  e.page \in Created /\ IsMessages(e.messages, MAX_FLUSH_SIZE)
    <3>1. PICK i \in DOMAIN queue[t] : e = queue[t][i]
      BY <2>6 DEF ToSet
    <3>2. EntryFits(t, queue[t][i])
      BY DEF RoomInv, QueueFits
    <3> QED BY <3>1, <3>2 DEF EntryFits
  <2> QED BY <2>1, <2>2, <2>3, <2>4, <2>5, <2>6 DEF TypeOK, Labels
<1> QED BY <1>1, TreeInvariant, RoomInvariant, PTL

(* A node that is about to be flushed has room for the pivots of all        *)
(* children that may be split, whatever the sizes of nodes and the messages *)
(* (the assertion of BeTree.h:418).                                         *)
THEOREM PivotsHaveRoom == Spec => []RoomForPivots
<1>1. RoomInv => RoomForPivots
  <2> SUFFICES ASSUME RoomInv, NEW t \in Threads, NEW e \in ToSet(queue[t])
               PROVE  Cardinality(Blocks(node[e.page], e.messages)) <= InnerN - Len(node[e.page].pivots)
    BY DEF RoomForPivots
  <2>1. PICK i \in DOMAIN queue[t] : e = queue[t][i]
    BY DEF ToSet
  <2>2. EntryFits(t, queue[t][i])
    BY DEF RoomInv, QueueFits
  <2> QED BY <2>1, <2>2 DEF EntryFits
<1> QED BY <1>1, RoomInvariant, PTL

(* Messages that are applied to a leaf one after the other find a slot each *)
(* (the assertion of BeTree.h:774): the estimate by which a leaf is split,  *)
(* or not, is never too low, and the halves are small enough.               *)
THEOREM PairsHaveRoom == Spec => []RoomForPairs
<1>1. TreeInv /\ RoomInv => RoomForPairs
  <2> SUFFICES ASSUME TreeInv, RoomInv, NEW t \in Threads, At(t, "flush"), LeavesBelow(t),
                      NEW i \in Targets(t)
               PROVE  LET f == node[Child(t, i)].pairs
                          m == Addressed(t, i)
                          k == LeafMedian(f, m)
                      IN IF NeedsSplit(f, m)
                         THEN FitsAll(UpTo(f, k), UpTo(m, k)) /\ FitsAll(Above(f, k), Above(m, k))
                         ELSE FitsAll(f, m)
    BY DEF RoomForPairs, FitsAll
  <2>1. pc[t] = "flush"
    BY DEF At
  <2>2. Child(t, i) \in Created /\ IsLeaf(Child(t, i))
    BY <2>1, TargetKids DEF LeavesBelow
  <2>3. IsMessages(Addressed(t, i), MAX_FLUSH_SIZE)
    BY <2>1, AddressedFits
  <2>4. PairsTyped(node[Child(t, i)].pairs) /\ Size(node[Child(t, i)].pairs) <= LeafN
    BY <2>2, LeafFacts
  <2> QED BY <2>3, <2>4, LeavesFit
<1> QED BY <1>1, TreeInvariant, RoomInvariant, PTL
=============================================================================
