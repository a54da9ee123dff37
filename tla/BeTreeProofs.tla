---------------------------- MODULE BeTreeProofs ----------------------------
(***************************************************************************)
(* Theorems about the B-epsilon-tree.  About its messages, for all values  *)
(* and time stamps: what squashing, merging and flushing them does to the  *)
(* values of their keys.  About the tree, for any number of threads and    *)
(* nodes of any size the code accepts: a root that is a leaf is changed    *)
(* under an exclusive lock only.                                           *)
(***************************************************************************)
EXTENDS BeTreeInv, FiniteSetTheorems, SequenceTheorems, WellFoundedInduction, TLAPS

AllValues == Int \cup {None}
AnyMessages == Messages(Int, Int)

(* A message has a value as its effect, or none. *)
LEMMA EffectType ==
  ASSUME NEW m \in AnyMessages, NEW v \in AllValues
  PROVE  Effect(m, v) \in AllValues
BY NoneAssumption DEF AnyMessages, Messages, UpsertType, AllValues, Effect

(* Squashing gives a message with one of the two time stamps. *)
LEMMA SquashOrderedType ==
  ASSUME NEW a \in AnyMessages, NEW b \in AnyMessages
  PROVE  /\ SquashOrdered(a, b) \in AnyMessages
         /\ SquashOrdered(a, b).timeStamp \in {a.timeStamp, b.timeStamp}
<1>1. CASE b.type # "update"
  BY <1>1 DEF SquashOrdered
<1>2. CASE b.type = "update" /\ a.type = "erase"
  BY <1>2 DEF SquashOrdered
<1>3. CASE b.type = "update" /\ a.type # "erase"
  <2>1. SquashOrdered(a, b) = Upsert(a.type, a.value + b.value, b.timeStamp)
    BY <1>3 DEF SquashOrdered
  <2> QED
    BY <2>1 DEF Upsert, AnyMessages, Messages, UpsertType
<1> QED
  BY <1>1, <1>2, <1>3

(* The squashed message does what the older and then the younger one do    *)
(* (Squash in BeTree.h).                                                   *)
LEMMA SquashOrderedEffect ==
  ASSUME NEW a \in AnyMessages, NEW b \in AnyMessages, NEW v \in AllValues
  PROVE  Effect(SquashOrdered(a, b), v) = Effect(b, Effect(a, v))
<1> USE NoneAssumption DEF AllValues, AnyMessages, Messages
<1>1. CASE b.type = "insert" \/ b.type = "erase"
  BY <1>1 DEF SquashOrdered, Effect
<1>2. CASE b.type = "update"
  <2>1. CASE a.type = "erase"
    BY <1>2, <2>1 DEF SquashOrdered, Effect
  <2>2. CASE a.type = "insert"
    BY <1>2, <2>2 DEF SquashOrdered, Effect, Upsert
  <2>3. CASE a.type = "update"
    <3>1. SquashOrdered(a, b) = Upsert("update", a.value + b.value, b.timeStamp)
      BY <1>2, <2>3 DEF SquashOrdered
    <3>2. CASE v = None
      BY <1>2, <2>3, <3>1, <3>2 DEF Effect, Upsert
    <3>3. CASE v # None
      BY <1>2, <2>3, <3>1, <3>3 DEF Effect, Upsert
    <3> QED
      BY <3>2, <3>3
  <2> QED
    BY <2>1, <2>2, <2>3 DEF UpsertType
<1> QED
  BY <1>1, <1>2 DEF UpsertType

(* Whatever the order in which two messages meet, with different time      *)
(* stamps the older takes effect first.                                    *)
THEOREM SquashEffect ==
  ASSUME NEW a \in AnyMessages, NEW b \in AnyMessages, NEW v \in AllValues,
         a.timeStamp < b.timeStamp
  PROVE  /\ Effect(Squash(a, b), v) = Effect(b, Effect(a, v))
         /\ Effect(Squash(b, a), v) = Effect(b, Effect(a, v))
<1>1. Squash(a, b) = SquashOrdered(a, b) /\ Squash(b, a) = SquashOrdered(a, b)
  BY DEF Squash, AnyMessages, Messages
<1> QED
  BY <1>1, SquashOrderedEffect

(* A buffer with at most one message per key. *)
Buffers == UNION {[S -> AnyMessages] : S \in SUBSET Int}
After(buffer, k, v) == IF k \in DOMAIN buffer THEN Effect(buffer[k], v) ELSE v

(* mergeUpserts: a buffer with messages for all keys of both, that does    *)
(* what the two buffers do one after the other, when the messages of the   *)
(* lower one about the same keys are older.                                *)
THEOREM MergeEffect ==
  ASSUME NEW lower \in Buffers, NEW upper \in Buffers, NEW k \in Int, NEW v \in AllValues,
         \A j \in DOMAIN lower \cap DOMAIN upper :
           lower[j].timeStamp < upper[j].timeStamp
  PROVE  /\ MergeUpserts(lower, upper) \in Buffers
         /\ DOMAIN MergeUpserts(lower, upper) = DOMAIN lower \cup DOMAIN upper
         /\ After(MergeUpserts(lower, upper), k, v) = After(upper, k, After(lower, k, v))
         /\ After(MergeUpserts(upper, lower), k, v) = After(upper, k, After(lower, k, v))
<1> DEFINE both == DOMAIN lower \cup DOMAIN upper
           up == MergeUpserts(lower, upper)
           down == MergeUpserts(upper, lower)
<1>1. /\ DOMAIN lower \subseteq Int /\ \A j \in DOMAIN lower : lower[j] \in AnyMessages
      /\ DOMAIN upper \subseteq Int /\ \A j \in DOMAIN upper : upper[j] \in AnyMessages
  BY DEF Buffers
<1>2. ASSUME NEW a \in AnyMessages, NEW b \in AnyMessages
      PROVE  Squash(a, b) \in AnyMessages
  BY SquashOrderedType DEF Squash
<1>3. up \in [both -> AnyMessages]
  BY <1>1, <1>2 DEF MergeUpserts
<1>4. DOMAIN up = both /\ DOMAIN down = both
  BY DEF MergeUpserts
<1>5. up \in Buffers
  BY <1>1, <1>3 DEF Buffers
<1>6. After(up, k, v) = After(upper, k, After(lower, k, v))
  <2>1. CASE k \in DOMAIN lower /\ k \in DOMAIN upper
    <3>1. up[k] = Squash(lower[k], upper[k])
      BY <2>1 DEF MergeUpserts
    <3>2. Effect(up[k], v) = Effect(upper[k], Effect(lower[k], v))
      BY <1>1, <2>1, <3>1, SquashEffect
    <3> QED
      BY <1>4, <2>1, <3>2 DEF After
  <2>2. CASE k \in DOMAIN lower /\ k \notin DOMAIN upper
    BY <1>4, <2>2 DEF MergeUpserts, After
  <2>3. CASE k \notin DOMAIN lower /\ k \in DOMAIN upper
    BY <1>4, <2>3 DEF MergeUpserts, After
  <2>4. CASE k \notin DOMAIN lower /\ k \notin DOMAIN upper
    BY <1>4, <2>4 DEF After
  <2> QED
    BY <2>1, <2>2, <2>3, <2>4
<1>7. After(down, k, v) = After(upper, k, After(lower, k, v))
  <2>1. CASE k \in DOMAIN lower /\ k \in DOMAIN upper
    <3>1. down[k] = Squash(upper[k], lower[k])
      BY <2>1 DEF MergeUpserts
    <3>2. Effect(down[k], v) = Effect(upper[k], Effect(lower[k], v))
      BY <1>1, <2>1, <3>1, SquashEffect
    <3> QED
      BY <1>4, <2>1, <3>2 DEF After
  <2>2. CASE k \in DOMAIN lower /\ k \notin DOMAIN upper
    BY <1>4, <2>2 DEF MergeUpserts, After
  <2>3. CASE k \notin DOMAIN lower /\ k \in DOMAIN upper
    BY <1>4, <2>3 DEF MergeUpserts, After
  <2>4. CASE k \notin DOMAIN lower /\ k \notin DOMAIN upper
    BY <1>4, <2>4 DEF After
  <2> QED
    BY <2>1, <2>2, <2>3, <2>4
<1> QED
  BY <1>4, <1>5, <1>6, <1>7

(* A flush takes some of the messages of a buffer to the level below, and  *)
(* leaves the others (removeMessages): no key gets another value by that.  *)
THEOREM FlushEffect ==
  ASSUME NEW buffer \in Buffers, NEW removed \in SUBSET DOMAIN buffer,
         NEW k \in Int, NEW v \in AllValues
  PROVE  After(Restrict(buffer, DOMAIN buffer \ removed), k,
               After(Restrict(buffer, removed), k, v)) = After(buffer, k, v)
<1> DEFINE kept == Restrict(buffer, DOMAIN buffer \ removed)
           out == Restrict(buffer, removed)
<1>1. DOMAIN kept = DOMAIN buffer \ removed /\ DOMAIN out = removed
  BY DEF Restrict
<1>2. CASE k \in removed
  <2>1. out[k] = buffer[k]
    BY <1>2 DEF Restrict
  <2> QED
    BY <1>1, <1>2, <2>1 DEF After
<1>3. CASE k \in DOMAIN buffer \ removed
  <2>1. kept[k] = buffer[k]
    BY <1>3 DEF Restrict
  <2> QED
    BY <1>1, <1>3, <2>1 DEF After
<1>4. CASE k \notin DOMAIN buffer
  BY <1>1, <1>4 DEF After
<1> QED
  BY <1>2, <1>3, <1>4
(***************************************************************************)
(* Numbers, functions and sequences.                                       *)
(***************************************************************************)
(* What ++ computes is one function over another. *)
LEMMA OverIs == ASSUME NEW f, NEW g PROVE f ++ g = Over(f, g)
BY DEF ++

(* A set of natural numbers has a least one. *)
LEMMA LeastNat ==
  ASSUME NEW S, S \subseteq Nat, S # {}
  PROVE  \E x \in S : \A y \in S : x <= y
<1> DEFINE T == {0 .. x : x \in S}
<1>1. \A x \in Nat : 0 .. x \in FiniteSubsetsOf(Nat) /\ 0 .. x \in SUBSET Nat
  BY FS_Interval DEF FiniteSubsetsOf
<1>2. T \subseteq FiniteSubsetsOf(Nat) /\ T # {}
  BY <1>1
<1>3. PICK a \in T : \A b \in T : ~(<<b, a>> \in StrictSubsetOrdering(Nat))
  <2> HIDE DEF T
  <2> QED BY <1>2, FS_StrictSubsetOrderingWellFounded, WFMin
<1>4. PICK x \in S : a = 0 .. x
  OBVIOUS
<1>5. ASSUME NEW y \in S, y < x PROVE FALSE
  <2>1. 0 .. y \in T
    OBVIOUS
  <2>2. 0 .. y \subseteq 0 .. x /\ x \notin 0 .. y /\ x \in 0 .. x
    BY <1>5
  <2>3. <<0 .. y, a>> \in (SUBSET Nat) \X (SUBSET Nat)
    BY <1>1, <1>4
  <2>4. <<0 .. y, a>> \in StrictSubsetOrdering(Nat)
    BY <1>4, <2>2, <2>3 DEF StrictSubsetOrdering
  <2> QED BY <1>3, <2>1, <2>4
<1> QED BY <1>5

(* FlattenSeq puts sequences one behind the other. *)
Flattened(f, s, n) ==
  /\ f[1] = s[1]
  /\ \A i \in 2 .. n : f[i] = f[i - 1] \o s[i]
  /\ FlattenSeq(s) = f[n]

(* A sequence of sequences can be joined one after the other: the function *)
(* FlattenSeq chooses exists.                                              *)
LEMMA Flattens ==
  ASSUME NEW S, NEW n \in Nat \ {0}, NEW s \in [1 .. n -> Seq(S)]
  PROVE  \E f \in [1 .. n -> Seq(S)] : Flattened(f, s, n)
<1> DEFINE Joins(f, m) == \A i \in 1 .. m : f[i] = IF i = 1 THEN s[1] ELSE f[i - 1] \o s[i]
           good == [m \in 1 .. n |-> {f \in [1 .. m -> Seq(S)] : Joins(f, m)}]
           Bad == {m \in 1 .. n : good[m] = {}}
<1>1. Bad = {}
  <2> SUFFICES ASSUME Bad # {} PROVE FALSE
    OBVIOUS
  <2>1. PICK m \in Bad : \A y \in Bad : m <= y
    <3>1. Bad \subseteq Nat
      OBVIOUS
    <3> HIDE DEF Bad
    <3> QED BY <3>1, LeastNat
  <2>2. CASE m = 1
    <3> DEFINE g == [i \in 1 .. 1 |-> s[1]]
    <3>1. s[1] \in Seq(S)
      OBVIOUS
    <3>2. g \in [1 .. 1 -> Seq(S)] /\ \A i \in 1 .. 1 : i = 1 /\ g[i] = s[1]
      BY <3>1
    <3> HIDE DEF g
    <3>3. g \in good[1]
      BY <2>1, <2>2, <3>2
    <3> HIDE DEF good
    <3> QED BY <2>1, <2>2, <3>3
  <2>3. CASE m # 1
    <3>0. m \in 1 .. n /\ \A y \in Bad : m <= y
      BY <2>1
    <3>1. m - 1 \in 1 .. n /\ m - 1 \notin Bad /\ m \in 2 .. n
      <4> HIDE DEF Bad
      <4> QED BY <2>3, <3>0
    <3>2. PICK f \in [1 .. m - 1 -> Seq(S)] : Joins(f, m - 1)
      <4>1. good[m - 1] # {}
        <5> HIDE DEF good
        <5> QED BY <3>1
      <4> QED BY <3>1, <4>1
    <3> DEFINE g == [i \in 1 .. m |-> IF i = m THEN f[m - 1] \o s[m] ELSE f[i]]
    <3>3. f[m - 1] \o s[m] \in Seq(S)
      <4>1. f[m - 1] \in Seq(S) /\ s[m] \in Seq(S)
        BY <3>1, <3>2
      <4> QED BY <4>1, ConcatProperties
    <3>4. \A i \in 1 .. m : i # m => i \in 1 .. m - 1
      BY <3>1
    <3>5. g \in [1 .. m -> Seq(S)]
      BY <3>2, <3>3, <3>4
    <3>6. ASSUME NEW i \in 1 .. m
          PROVE  g[i] = IF i = 1 THEN s[1] ELSE g[i - 1] \o s[i]
      <4>1. CASE i = m
        <5>1. g[m] = f[m - 1] \o s[m] /\ g[m - 1] = f[m - 1] /\ m # 1
          BY <3>1, SMTT(30)
        <5> QED BY <4>1, <5>1
      <4>2. CASE i # m
        <5>1. i \in 1 .. m - 1
          BY <3>4, <4>2
        <5>2. g[i] = f[i] /\ (i # 1 => g[i - 1] = f[i - 1])
          BY <3>1, <4>2, <5>1
        <5>3. f[i] = IF i = 1 THEN s[1] ELSE f[i - 1] \o s[i]
          BY <3>2, <5>1
        <5> QED BY <5>2, <5>3
      <4> QED BY <4>1, <4>2
    <3>7. g \in good[m]
      <4> HIDE DEF g
      <4> QED BY <2>1, <3>5, <3>6
    <3> HIDE DEF good, g
    <3> QED BY <2>1, <3>7
  <2> QED BY <2>2, <2>3
<1>2. PICK f \in [1 .. n -> Seq(S)] : Joins(f, n)
  <2>1. n \in 1 .. n /\ n \notin Bad
    <3> HIDE DEF Bad
    <3> QED BY <1>1
  <2>2. good[n] # {}
    <3> HIDE DEF good
    <3> QED BY <2>1
  <2> QED BY <2>1, <2>2
<1> DEFINE F(h) == [i \in 1 .. Len(s) |-> IF i = 1 THEN s[i] ELSE h[i - 1] \o s[i]]
           flat == CHOOSE h : h = F(h)
<1>3. Len(s) = n
  <2>1. s \in Seq(Seq(S))
    BY SeqDef
  <2> QED BY <2>1, LenProperties
<1>4. f = F(f)
  BY <1>2, <1>3
<1>5. flat = F(flat)
  <2> HIDE DEF F
  <2> QED BY <1>4
<1>6. FlattenSeq(s) = flat[n]
  BY <1>3 DEF FlattenSeq
<1> HIDE DEF flat
<1>7. \A i \in 1 .. n : flat[i] = f[i]
  <2> DEFINE Other == {i \in 1 .. n : flat[i] # f[i]}
  <2> SUFFICES ASSUME Other # {} PROVE FALSE
    OBVIOUS
  <2>1. PICK m \in Other : \A y \in Other : m <= y
    <3>1. Other \subseteq Nat
      OBVIOUS
    <3> HIDE DEF Other
    <3> QED BY <3>1, LeastNat
  <2>2. flat[m] = IF m = 1 THEN s[1] ELSE flat[m - 1] \o s[m]
    BY <1>3, <1>5
  <2>3. f[m] = IF m = 1 THEN s[1] ELSE f[m - 1] \o s[m]
    BY <1>2
  <2>4. m # 1 => m - 1 \in 1 .. n /\ m - 1 \notin Other
    BY <2>1
  <2> QED BY <2>1, <2>2, <2>3, <2>4
<1>8. FlattenSeq(s) = f[n]
  BY <1>6, <1>7
<1>9. f[1] = s[1] /\ \A i \in 2 .. n : f[i] = f[i - 1] \o s[i]
  <2>1. 1 \in 1 .. n /\ \A i \in 2 .. n : i \in 1 .. n /\ i # 1
    OBVIOUS
  <2>2. \A i \in 1 .. n : f[i] = IF i = 1 THEN s[1] ELSE f[i - 1] \o s[i]
    BY <1>2
  <2> QED BY <2>1, <2>2
<1> QED BY <1>2, <1>8, <1>9 DEF Flattened

(* A function over 1 .. n is a sequence of length n. *)
LEMMA SeqOfFunction ==
  ASSUME NEW S, NEW n \in Nat, NEW f \in [1 .. n -> S]
  PROVE  f \in Seq(S) /\ Len(f) = n
<1>1. f \in Seq(S)
  BY SeqDef
<1> QED BY <1>1, LenProperties

(* OneIf gives a sequence of one element or none. *)
LEMMA OneOrNone ==
  ASSUME NEW S, NEW condition \in BOOLEAN, NEW e, condition => e \in S
  PROVE  /\ OneIf(condition, e) \in Seq(S)
         /\ Len(OneIf(condition, e)) = IF condition THEN 1 ELSE 0
BY EmptySeq DEF OneIf

(* Joined sequences are a sequence of the same elements. *)
LEMMA FlattenedType ==
  ASSUME NEW S, NEW n \in Nat \ {0}, NEW s \in [1 .. n -> Seq(S)]
  PROVE  FlattenSeq(s) \in Seq(S)
<1>1. PICK f \in [1 .. n -> Seq(S)] : Flattened(f, s, n)
  BY Flattens
<1>2. n \in 1 .. n
  OBVIOUS
<1> QED BY <1>1, <1>2 DEF Flattened

(* As many elements, but for one. *)
OneMore(t, s) == Len(t) = Len(s) + 1
OneLonger(t, s, n) == \A i \in 1 .. n : Len(t[i]) = Len(s[i]) + IF i = n THEN 1 ELSE 0
(* Of two joined sequences, one is one element longer when one of its parts *)
(* is, and the other parts are as long: pivots and children after a split.  *)
LEMMA FlattenedLengths ==
  ASSUME NEW S, NEW T, NEW n \in Nat \ {0},
         NEW s \in [1 .. n -> Seq(S)], NEW t \in [1 .. n -> Seq(T)], OneLonger(t, s, n)
  PROVE  OneMore(FlattenSeq(t), FlattenSeq(s))
<1>1. PICK f \in [1 .. n -> Seq(S)] : Flattened(f, s, n)
  BY Flattens
<1>2. PICK g \in [1 .. n -> Seq(T)] : Flattened(g, t, n)
  BY Flattens
<1> DEFINE Bad == {i \in 1 .. n : Len(g[i]) # Len(f[i]) + IF i = n THEN 1 ELSE 0}
<1>3. Bad = {}
  <2> SUFFICES ASSUME Bad # {} PROVE FALSE
    OBVIOUS
  <2>1. PICK m \in Bad : \A y \in Bad : m <= y
    <3>1. Bad \subseteq Nat
      OBVIOUS
    <3> HIDE DEF Bad
    <3> QED BY <3>1, LeastNat
  <2>2. /\ m \in 1 .. n /\ Len(g[m]) # Len(f[m]) + IF m = n THEN 1 ELSE 0
    BY <2>1
  <2>3. CASE m = 1
    BY <1>1, <1>2, <2>2, <2>3 DEF Flattened, OneLonger
  <2>4. CASE m # 1
    <3>1. m - 1 \in 1 .. n /\ m - 1 \notin Bad /\ m \in 2 .. n /\ m - 1 # n
      <4>1. m - 1 \in 1 .. n /\ m \in 2 .. n /\ m - 1 # n
        BY <2>2, <2>4
      <4>2. m - 1 \notin Bad
        <5> HIDE DEF Bad
        <5> QED BY <2>1, <2>2
      <4> QED BY <4>1, <4>2
    <3>2. Len(g[m - 1]) = Len(f[m - 1])
      BY <3>1
    <3>3. f[m - 1] \in Seq(S) /\ g[m - 1] \in Seq(T) /\ s[m] \in Seq(S) /\ t[m] \in Seq(T)
      BY <2>2, <3>1
    <3>4. /\ Len(f[m]) = Len(f[m - 1]) + Len(s[m])
          /\ Len(g[m]) = Len(g[m - 1]) + Len(t[m])
      <4>1. Len(f[m - 1] \o s[m]) = Len(f[m - 1]) + Len(s[m])
        BY <3>3, ConcatProperties
      <4>2. Len(g[m - 1] \o t[m]) = Len(g[m - 1]) + Len(t[m])
        BY <3>3, ConcatProperties
      <4> QED BY <1>1, <1>2, <3>1, <4>1, <4>2 DEF Flattened
    <3>5. /\ Len(f[m - 1]) \in Nat /\ Len(s[m]) \in Nat
          /\ Len(t[m]) = Len(s[m]) + IF m = n THEN 1 ELSE 0
      BY <2>2, <3>3, LenProperties DEF OneLonger
    <3> HIDE DEF Bad
    <3>6. CASE m = n
      <4>1. Len(t[m]) = Len(s[m]) + 1 /\ Len(g[m]) # Len(f[m]) + 1
        BY <2>2, <3>5, <3>6
      <4>2. Len(f[m - 1]) \in Nat /\ Len(s[m]) \in Nat
        BY <3>5
      <4> DEFINE x == Len(f[m - 1])
                 y == Len(s[m])
      <4>3. Len(f[m]) = x + y /\ Len(g[m]) = x + (y + 1)
        BY <3>2, <3>4, <4>1
      <4> HIDE DEF x, y
      <4>4. x \in Nat /\ y \in Nat
        BY <4>2 DEF x, y
      <4> QED BY <4>1, <4>3, <4>4
    <3>7. CASE m # n
      BY <2>2, <3>2, <3>4, <3>5, <3>7
    <3> QED BY <3>6, <3>7
  <2> QED BY <2>3, <2>4
<1>4. n \in 1 .. n /\ n \notin Bad
  <2> HIDE DEF Bad
  <2> QED BY <1>3
<1> QED BY <1>1, <1>2, <1>4 DEF Flattened, OneMore

(***************************************************************************)
(* The shapes of nodes.                                                    *)
(***************************************************************************)
Branch(pivots, children, below) ==
  /\ pivots \in Seq(Range(pivots)) /\ children \in Seq(below)
  /\ Len(children) = Len(pivots) + 1

(* The arrays of a node: one more child than pivots. *)
LEMMA BranchFacts ==
  ASSUME NEW n, NEW below, BranchOK(n, below)
  PROVE  /\ Branch(n.pivots, n.children, below)
         /\ Len(n.pivots) \in Nat /\ DOMAIN n.pivots = 1 .. Len(n.pivots)
         /\ DOMAIN n.children = 1 .. Len(n.pivots) + 1
         /\ \A i \in 1 .. Len(n.pivots) + 1 : n.children[i] \in below
BY LenProperties, ElementOfSeq DEF BranchOK, Branch

(* One more child than pivots makes an inner node, or a root. *)
LEMMA NodeOfShape ==
  ASSUME NEW pivots, NEW children, NEW upserts, NEW below, Branch(pivots, children, below)
  PROVE  /\ InnerOK(Inner(pivots, children, upserts), below)
         /\ RootOK(RootNode(pivots, children), below)
BY DEF Branch, InnerOK, RootOK, BranchOK, Inner, RootNode

(* insertPivots *)
LEMMA InsertedShape ==
  ASSUME NEW n, NEW below, BranchOK(n, below), NEW splits,
         n = Inner(n.pivots, n.children, n.upserts) \/ n = RootNode(n.pivots, n.children),
         \A i \in DOMAIN splits : splits[i].page \in below
  PROVE  LET new == InsertPivots(n, splits) IN
         /\ Branch(new.pivots, new.children, below)
         /\ n = Inner(n.pivots, n.children, n.upserts) =>
              new = Inner(new.pivots, new.children, n.upserts)
         /\ n = RootNode(n.pivots, n.children) => new = RootNode(new.pivots, new.children)
<1> DEFINE m == Len(n.pivots) + 1
           S == Range(n.pivots) \cup {splits[i].pivot : i \in DOMAIN splits}
           first == [i \in DOMAIN n.children |->
              OneIf(i \in DOMAIN splits, splits[i].pivot) \o OneIf(i <= Len(n.pivots), n.pivots[i])]
           second == [i \in DOMAIN n.children |->
              <<n.children[i]>> \o OneIf(i \in DOMAIN splits, splits[i].page)]
           new == InsertPivots(n, splits)
<1>1. /\ Len(n.pivots) \in Nat /\ n.pivots \in Seq(Range(n.pivots))
      /\ DOMAIN n.pivots = 1 .. Len(n.pivots)
      /\ DOMAIN n.children = 1 .. m /\ m \in Nat \ {0}
      /\ \A i \in 1 .. m : n.children[i] \in below
  BY BranchFacts DEF Branch
<1>2. ASSUME NEW i \in 1 .. m
      PROVE  /\ first[i] \in Seq(S) /\ second[i] \in Seq(below)
             /\ Len(second[i]) = Len(first[i]) + IF i = m THEN 1 ELSE 0
  <2> DEFINE c == i \in DOMAIN splits
             d == i <= Len(n.pivots)
             a == OneIf(c, splits[i].pivot)
             b == OneIf(d, n.pivots[i])
             e == OneIf(c, splits[i].page)
  <2>1. (c => splits[i].pivot \in S) /\ (c => splits[i].page \in below)
    OBVIOUS
  <2>2. d => n.pivots[i] \in S
    BY <1>1 DEF Range
  <2>3. c \in BOOLEAN /\ d \in BOOLEAN /\ (d <=> i # m)
    BY <1>1
  <2>4. first[i] = a \o b /\ second[i] = <<n.children[i]>> \o e
    BY <1>1
  <2> HIDE DEF S, first, second
  <2>5. /\ a \in Seq(S) /\ Len(a) = IF c THEN 1 ELSE 0
        /\ e \in Seq(below) /\ Len(e) = IF c THEN 1 ELSE 0
    BY <2>1, <2>3, OneOrNone
  <2>6. b \in Seq(S) /\ Len(b) = IF d THEN 1 ELSE 0
    BY <2>2, <2>3, OneOrNone
  <2>7. <<n.children[i]>> \in Seq(below) /\ Len(<<n.children[i]>>) = 1
    BY <1>1
  <2> HIDE DEF a, b, e, d, c
  <2>8. a \o b \in Seq(S) /\ Len(a \o b) = Len(a) + Len(b)
    BY <2>5, <2>6, ConcatProperties
  <2>9. <<n.children[i]>> \o e \in Seq(below) /\ Len(<<n.children[i]>> \o e) = 1 + Len(e)
    BY <2>5, <2>7, ConcatProperties
  <2> QED BY <2>3, <2>4, <2>5, <2>6, <2>8, <2>9
<1>3. first \in [1 .. m -> Seq(S)] /\ second \in [1 .. m -> Seq(below)]
  <2>1. first = [i \in 1 .. m |-> first[i]] /\ second = [i \in 1 .. m |-> second[i]]
    BY <1>1
  <2> HIDE DEF first, second, S
  <2> QED BY <1>2, <2>1
<1>4. new = [n EXCEPT !.pivots = FlattenSeq(first), !.children = FlattenSeq(second)]
  BY DEF InsertPivots
<1> HIDE DEF first, second, S, new, m
<1>5. FlattenSeq(first) \in Seq(S) /\ FlattenSeq(second) \in Seq(below)
  BY <1>1, <1>3, FlattenedType
<1>6. Len(FlattenSeq(second)) = Len(FlattenSeq(first)) + 1
  <2>1. OneLonger(second, first, m)
    BY <1>2 DEF OneLonger
  <2>2. m \in Nat \ {0}
    BY <1>1
  <2>3. OneMore(FlattenSeq(second), FlattenSeq(first))
    BY <1>3, <2>1, <2>2, FlattenedLengths
  <2> QED BY <2>3 DEF OneMore
<1>7. Branch(FlattenSeq(first), FlattenSeq(second), below)
  BY <1>5, <1>6, SeqOfRange DEF Branch
<1> DEFINE a == FlattenSeq(first)
           b == FlattenSeq(second)
<1> HIDE DEF a, b
<1>10. new = [[n EXCEPT !.pivots = a] EXCEPT !.children = b]
  BY <1>4 DEF a, b
<1> DEFINE p == n.pivots
           c == n.children
           u == n.upserts
<1> HIDE DEF p, c, u
<1>8. CASE n = Inner(n.pivots, n.children, n.upserts)
  <2>1. [[Inner(p, c, u) EXCEPT !.pivots = a] EXCEPT !.children = b] = Inner(a, b, u)
    <3>1. [Inner(p, c, u) EXCEPT !.pivots = a] = Inner(a, c, u)
      BY DEF Inner
    <3>2. [Inner(a, c, u) EXCEPT !.children = b] = Inner(a, b, u)
      BY DEF Inner
    <3> QED BY <3>1, <3>2
  <2>2. new = Inner(a, b, u)
    BY <1>8, <1>10, <2>1 DEF p, c, u
  <2> QED BY <1>7, <1>8, <2>2 DEF Inner, RootNode, new, a, b, u
<1>9. CASE n = RootNode(n.pivots, n.children)
  <2>1. [[RootNode(p, c) EXCEPT !.pivots = a] EXCEPT !.children = b] = RootNode(a, b)
    <3>1. [RootNode(p, c) EXCEPT !.pivots = a] = RootNode(a, c)
      BY DEF RootNode
    <3>2. [RootNode(a, c) EXCEPT !.children = b] = RootNode(a, b)
      BY DEF RootNode
    <3> QED BY <3>1, <3>2
  <2>2. new = RootNode(a, b)
    BY <1>9, <1>10, <2>1 DEF p, c
  <2> QED BY <1>7, <1>9, <2>2 DEF Inner, RootNode, new, a, b
<1> QED BY <1>8, <1>9 DEF new

(* Where lower_bound leads to. *)
LEMMA ChildIndexType ==
  ASSUME NEW n, NEW below, BranchOK(n, below), NEW k
  PROVE  /\ ChildIndex(n, k) \in 1 .. Len(n.pivots) + 1
         /\ ChildIndex(n, k) \in DOMAIN n.children
         /\ ChildOf(n, k) \in below /\ ChildOf(n, k) \in Range(n.children)
<1> DEFINE smaller == {i \in DOMAIN n.pivots : n.pivots[i] < k}
           c == Cardinality(smaller)
<1>1. /\ DOMAIN n.pivots = 1 .. Len(n.pivots) /\ Len(n.pivots) \in Nat
      /\ DOMAIN n.children = 1 .. Len(n.pivots) + 1
      /\ \A i \in 1 .. Len(n.pivots) + 1 : n.children[i] \in below
  BY BranchFacts
<1>2. /\ IsFiniteSet(1 .. Len(n.pivots)) /\ Cardinality(1 .. Len(n.pivots)) = Len(n.pivots)
  BY <1>1, FS_Interval
<1>3. smaller \in SUBSET (1 .. Len(n.pivots))
  BY <1>1
<1>4. ChildIndex(n, k) = 1 + c
  BY DEF ChildIndex
<1> HIDE DEF smaller
<1>5. c \in Nat /\ c <= Len(n.pivots)
  BY <1>2, <1>3, FS_Subset, FS_CardinalityType
<1> HIDE DEF c
<1>6. ChildIndex(n, k) \in 1 .. Len(n.pivots) + 1
  BY <1>1, <1>4, <1>5
<1> HIDE DEF ChildIndex
<1> QED BY <1>1, <1>6 DEF ChildOf, Range

(* A part of the pivots and the children around them. *)
LEMMA PartShape ==
  ASSUME NEW n, NEW below, BranchOK(n, below), NEW a \in Nat, NEW b \in Nat,
         a <= b, b <= Len(n.pivots)
  PROVE  Branch(SubSeq(n.pivots, a + 1, b), SubSeq(n.children, a + 1, b + 1), below)
<1>1. /\ DOMAIN n.pivots = 1 .. Len(n.pivots) /\ Len(n.pivots) \in Nat
      /\ \A i \in 1 .. Len(n.pivots) + 1 : n.children[i] \in below
  BY BranchFacts
<1> DEFINE p == SubSeq(n.pivots, a + 1, b)
           c == SubSeq(n.children, a + 1, b + 1)
<1>2. \A i \in a + 1 .. b : n.pivots[i] \in Range(n.pivots)
  BY <1>1 DEF Range
<1>3. /\ p \in Seq(Range(n.pivots))
      /\ Len(p) = IF a + 1 <= b THEN b - (a + 1) + 1 ELSE 0
  BY <1>2, SubSeqProperties
<1>4. \A i \in a + 1 .. b + 1 : n.children[i] \in below
  BY <1>1
<1>5. /\ c \in Seq(below)
      /\ Len(c) = IF a + 1 <= b + 1 THEN b + 1 - (a + 1) + 1 ELSE 0
  BY <1>4, SubSeqProperties
<1> HIDE DEF p, c
<1>6. p \in Seq(Range(p))
  BY <1>3, SeqOfRange
<1>7. Len(c) = Len(p) + 1
  BY <1>3, <1>5
<1> QED BY <1>5, <1>6, <1>7 DEF Branch, p, c

(* splitInnerNode *)
LEMMA HalvesShape ==
  ASSUME NEW n, NEW below, BranchOK(n, below), Len(n.pivots) >= 1
  PROVE  /\ InnerOK(LeftInner(n), below) /\ InnerOK(RightInner(n), below)
<1> DEFINE L == Len(n.pivots)
           s == SplitIndex(n)
<1>1. L \in Nat /\ Len(n.children) = L + 1 /\ L >= 1
  BY BranchFacts DEF Branch
<1>2. s = (L - 1) \div 2 + 1
  BY DEF SplitIndex
<1> HIDE DEF L
<1>3. s \in 1 .. L
  BY <1>1, <1>2
<1> HIDE DEF s
<1>4. Branch(SubSeq(n.pivots, 0 + 1, s - 1), SubSeq(n.children, 0 + 1, (s - 1) + 1), below)
  BY <1>1, <1>3, PartShape DEF L
<1>5. Branch(SubSeq(n.pivots, s + 1, L), SubSeq(n.children, s + 1, L + 1), below)
  BY <1>1, <1>3, PartShape DEF L
<1>6. /\ LeftInner(n) = Inner(SubSeq(n.pivots, 0 + 1, s - 1), SubSeq(n.children, 0 + 1, (s - 1) + 1),
                              UpTo(n.upserts, InnerPivot(n)))
      /\ RightInner(n) = Inner(SubSeq(n.pivots, s + 1, L), SubSeq(n.children, s + 1, L + 1),
                               Above(n.upserts, InnerPivot(n)))
  BY <1>1, <1>3 DEF LeftInner, RightInner, s, L
<1> QED BY <1>4, <1>5, <1>6, NodeOfShape

(* splitRootNode *)
LEMMA PartBounds ==
  ASSUME NEW L \in Nat, NEW c \in Nat, NEW parts \in Nat, NEW i \in Nat, c >= 1,
         parts = (L + c) \div (c + 1), 1 <= i, i <= parts
  PROVE  (i - 1) * (c + 1) \in Nat /\ (i - 1) * (c + 1) <= L
<1>1. parts * (c + 1) <= L + c
  BY SMT
<1>2. (i - 1) * (c + 1) <= (parts - 1) * (c + 1)
  BY SMT
<1>3. (parts - 1) * (c + 1) = parts * (c + 1) - (c + 1)
  BY SMT
<1>4. (i - 1) * (c + 1) \in Nat
  BY SMT
<1> DEFINE x == (i - 1) * (c + 1)
           y == parts * (c + 1)
           z == (parts - 1) * (c + 1)
<1>5. y \in Int /\ z \in Int
  BY SMT
<1> HIDE DEF x, y, z
<1>6. x \in Nat /\ x <= z /\ z = y - (c + 1) /\ y <= L + c
  BY <1>1, <1>2, <1>3, <1>4 DEF x, y, z
<1>7. x <= L
  BY <1>5, <1>6
<1> QED BY <1>4, <1>7 DEF x

(* The number of elements below an element of a finite set tells them apart *)
(* and counts from 0 on.                                                    *)
Rank(S, i) == Cardinality({j \in S : j < i})
(* The rank of an element is the number of smaller ones in the set. Ranks  *)
(* grow with the elements and cover 0 .. Cardinality(S) - 1, so that Right *)
(* gives each child that splits a new page of its own.                     *)
LEMMA RankBounds ==
  ASSUME NEW S \in SUBSET Nat, IsFiniteSet(S), NEW i \in S
  PROVE  Rank(S, i) \in 0 .. Cardinality(S) - 1
<1>1. IsFiniteSet(S \ {i}) /\ Cardinality(S \ {i}) = Cardinality(S) - 1
  BY FS_RemoveElement
<1>2. {j \in S : j < i} \in SUBSET (S \ {i})
  OBVIOUS
<1>3. Cardinality({j \in S : j < i}) <= Cardinality(S \ {i}) /\ IsFiniteSet({j \in S : j < i})
  BY <1>1, <1>2, FS_Subset
<1>4. Cardinality({j \in S : j < i}) \in Nat /\ Cardinality(S) \in Nat
  BY <1>3, FS_CardinalityType
<1> QED BY <1>1, <1>3, <1>4 DEF Rank

LEMMA RankLess ==
  ASSUME NEW S \in SUBSET Nat, IsFiniteSet(S), NEW i \in S, NEW k \in S, i < k
  PROVE  Rank(S, i) < Rank(S, k)
<1> DEFINE A == {j \in S : j < i}
           B == {j \in S : j < k}
<1>1. A \in SUBSET S /\ B \in SUBSET S /\ A \cup {i} \in SUBSET B /\ i \notin A
  <2>1. i \in Nat /\ k \in Nat /\ \A j \in S : j \in Nat
    OBVIOUS
  <2>2. \A j \in S : j < i => j < k
    BY <2>1
  <2>3. i \notin A /\ i \in B
    BY <2>1
  <2> QED BY <2>2, <2>3
<1>2. Rank(S, i) = Cardinality(A) /\ Rank(S, k) = Cardinality(B)
  BY DEF Rank
<1> HIDE DEF A, B
<1>3. IsFiniteSet(A) /\ IsFiniteSet(B)
  BY <1>1, FS_Subset
<1>4. Cardinality(A \cup {i}) = Cardinality(A) + 1
  BY <1>1, <1>3, FS_AddElement
<1>5. Cardinality(A \cup {i}) <= Cardinality(B)
  BY <1>1, <1>3, FS_Subset
<1>6. Cardinality(A) \in Nat /\ Cardinality(B) \in Nat
  BY <1>3, FS_CardinalityType
<1> QED BY <1>2, <1>4, <1>5, <1>6

(* There are at most r elements of rank less than r. *)
LEMMA RanksFew ==
  ASSUME NEW S \in SUBSET Nat, IsFiniteSet(S), NEW U \in SUBSET S, NEW r \in Nat,
         \A i \in U : Rank(S, i) < r
  PROVE  Cardinality(U) <= r
<1> DEFINE f == [i \in U |-> Rank(S, i)]
<1>1. ASSUME NEW i \in U PROVE Rank(S, i) \in 0 .. r - 1
  <2>1. Rank(S, i) \in 0 .. Cardinality(S) - 1 /\ Rank(S, i) < r
    BY RankBounds
  <2> QED BY <2>1
<1>2. f \in [U -> 0 .. r - 1]
  BY <1>1
<1>3. ASSUME NEW i \in U, NEW k \in U, i # k PROVE f[i] # f[k]
  <2>1. i \in Nat /\ k \in Nat
    OBVIOUS
  <2>2. CASE i < k
    <3>1. Rank(S, i) < Rank(S, k)
      BY <2>2, RankLess
    <3> QED BY <1>1, <3>1
  <2>3. CASE k < i
    <3>1. Rank(S, k) < Rank(S, i)
      BY <2>3, RankLess
    <3> QED BY <1>1, <3>1
  <2> QED BY <1>3, <2>1, <2>2, <2>3
<1> HIDE DEF f
<1>4. f \in Injection(U, 0 .. r - 1)
  BY <1>2, <1>3 DEF Injection, IsInjective
<1>5. IsFiniteSet(0 .. r - 1) /\ Cardinality(0 .. r - 1) = r
  BY FS_Interval
<1> QED BY <1>4, <1>5, FS_Injection

LEMMA RankOnto ==
  ASSUME NEW S \in SUBSET Nat, IsFiniteSet(S), NEW r \in 0 .. Cardinality(S) - 1
  PROVE  \E i \in S : Rank(S, i) = r
<1> DEFINE High == {i \in S : ~(Rank(S, i) < r)}
<1>1. Cardinality(S) \in Nat /\ r \in Nat
  BY FS_CardinalityType
<1>2. High # {}
  <2> SUFFICES ASSUME High = {} PROVE FALSE
    OBVIOUS
  <2>1. Cardinality(S) <= r
    BY <1>1, RanksFew
  <2> QED BY <1>1, <2>1
<1>3. PICK i \in High : \A y \in High : i <= y
  <2>1. High \subseteq Nat
    OBVIOUS
  <2> HIDE DEF High
  <2> QED BY <1>2, <2>1, LeastNat
<1> DEFINE U == {j \in S : j < i}
<1>4. i \in S /\ U \in SUBSET S /\ ~(Rank(S, i) < r)
  BY <1>3
<1>5. ASSUME NEW j \in U PROVE Rank(S, j) < r
  <2>1. j \in S /\ j < i /\ j \in Nat /\ i \in Nat
    BY <1>4
  <2>2. j \notin High
    <3> HIDE DEF High
    <3> QED BY <1>3, <2>1
  <2> QED BY <2>1, <2>2
<1>6. Cardinality(U) <= r
  <2> HIDE DEF U
  <2> QED BY <1>1, <1>4, <1>5, RanksFew
<1>7. Rank(S, i) = Cardinality(U) /\ Rank(S, i) \in Nat
  BY <1>4, RankBounds, <1>1 DEF Rank
<1> QED BY <1>1, <1>4, <1>6, <1>7

(* Min of two integers, which FiniteSetsExt defines by CHOOSE. *)
LEMMA MinOfTwo ==
  ASSUME NEW a \in Int, NEW b \in Int
  PROVE  Min({a, b}) \in {a, b} /\ Min({a, b}) <= a /\ Min({a, b}) <= b
<1>1. \E x \in {a, b} : \A y \in {a, b} : x <= y
  OBVIOUS
<1>2. Min({a, b}) \in {a, b} /\ \A y \in {a, b} : Min({a, b}) <= y
  BY <1>1 DEF Min
<1> QED BY <1>2

WithUpserts(n, upserts) == [n EXCEPT !.upserts = upserts]

(* A node keeps its shape when its messages change. *)
LEMMA WithUpsertsShape ==
  ASSUME NEW n, NEW below, InnerOK(n, below), NEW upserts
  PROVE  /\ InnerOK(WithUpserts(n, upserts), below)
         /\ WithUpserts(n, upserts).pivots = n.pivots
         /\ WithUpserts(n, upserts).children = n.children
<1> DEFINE p == n.pivots
           c == n.children
           u == n.upserts
<1>1. n = Inner(p, c, u) /\ Branch(p, c, below)
  BY DEF InnerOK, BranchOK, Branch
<1> HIDE DEF p, c, u
<1>2. [Inner(p, c, u) EXCEPT !.upserts = upserts] = Inner(p, c, upserts)
  BY DEF Inner
<1>3. WithUpserts(n, upserts) = Inner(p, c, upserts)
  BY <1>1, <1>2 DEF WithUpserts
<1>4. InnerOK(Inner(p, c, upserts), below)
  BY <1>1, NodeOfShape
<1>5. Inner(p, c, upserts).pivots = p /\ Inner(p, c, upserts).children = c
  BY DEF Inner
<1> QED BY <1>3, <1>4, <1>5 DEF p, c

(* A full root splits into at least one part (splitRootNode). *)
LEMMA PartsNumber ==
  ASSUME NEW n, NEW below, BranchOK(n, below), Len(n.pivots) >= 1
  PROVE  Parts(n) \in Nat \ {0} /\ ChildPivots \in Nat \ {0}
<1>1. ChildPivots \in Nat \ {0}
  BY SizesAssumption DEF ChildPivots
<1>2. Len(n.pivots) \in Nat
  BY BranchFacts
<1> DEFINE L == Len(n.pivots)
           c == ChildPivots
<1> HIDE DEF L, c
<1>3. Parts(n) = (L + c) \div (c + 1)
  BY DEF Parts, L, c
<1>4. L \in Nat /\ L >= 1 /\ c \in Nat \ {0}
  BY <1>1, <1>2 DEF L, c
<1>5. (L + c) \div (c + 1) \in Nat /\ (L + c) \div (c + 1) >= 1
  BY <1>4, SMT
<1> QED BY <1>1, <1>3, <1>5

(* Each part of a root that splits is an inner node: the pivots between two *)
(* parts go up, and no child is left without a pivot beside it.             *)
LEMMA PartOfRootShape ==
  ASSUME NEW n, NEW below, BranchOK(n, below), Len(n.pivots) >= 1, NEW i \in 1 .. Parts(n)
  PROVE  InnerOK(PartOfRoot(n, i), below)
<1> DEFINE L == Len(n.pivots)
           c == ChildPivots
           parts == Parts(n)
           start == (i - 1) * (c + 1)
           rest == L - start
           size == Min({c, rest})
<1>1. L \in Nat /\ c \in Nat \ {0} /\ parts \in Nat \ {0} /\ i \in 1 .. parts
  BY BranchFacts, PartsNumber
<1>2. parts = (L + c) \div (c + 1)
  BY DEF Parts
<1>3. PartOfRoot(n, i) = Inner(SubSeq(n.pivots, start + 1, start + size),
                               SubSeq(n.children, start + 1, start + size + 1), Empty)
  BY DEF PartOfRoot
<1> HIDE DEF L, c, parts
<1>4. start \in Nat /\ start <= L
  BY <1>1, <1>2, PartBounds
<1> HIDE DEF start
<1>5. size \in Nat /\ size <= L - start
  <2>1. rest \in Nat /\ rest = L - start
    BY <1>1, <1>4
  <2> HIDE DEF rest
  <2>2. size \in {c, rest} /\ size <= rest
    <3>1. c \in Int /\ rest \in Int
      BY <1>1, <2>1
    <3> QED BY <3>1, MinOfTwo, Zenon
  <2> HIDE DEF size
  <2> QED BY <1>1, <2>1, <2>2
<1> HIDE DEF size
<1>6. Branch(SubSeq(n.pivots, start + 1, start + size),
             SubSeq(n.children, start + 1, (start + size) + 1), below)
  BY <1>1, <1>4, <1>5, PartShape DEF L
<1> QED BY <1>3, <1>6, NodeOfShape

(* The root after its split has its parts as children, and as pivots those between them. *)
LEMMA RootOfPartsShape ==
  ASSUME NEW n, NEW from, BranchOK(n, from), Len(n.pivots) >= 1,
         NEW first \in Nat, NEW below, first .. first + Parts(n) - 1 \subseteq below
  PROVE  LET new == RootOfParts(n, first) IN
         /\ RootOK(new, below)
         /\ DOMAIN new.children = 1 .. Parts(n)
         /\ ToSet(new.children) = first .. first + Parts(n) - 1
         /\ Range(new.children) = first .. first + Parts(n) - 1
<1> DEFINE m == Parts(n)
           p == [i \in 1 .. m - 1 |-> n.pivots[i * (ChildPivots + 1)]]
           c == [i \in 1 .. m |-> first + i - 1]
           S == {n.pivots[i * (ChildPivots + 1)] : i \in 1 .. m - 1}
<1>1. m \in Nat \ {0}
  BY PartsNumber
<1>2. RootOfParts(n, first) = RootNode(p, c)
  BY DEF RootOfParts
<1> HIDE DEF m
<1>3. p \in [1 .. m - 1 -> S]
  OBVIOUS
<1>4. \A i \in 1 .. m : first + i - 1 \in first .. first + m - 1
  BY <1>1
<1>5. c \in [1 .. m -> below]
  BY <1>4 DEF m
<1>6. Range(c) = first .. first + m - 1 /\ ToSet(c) = first .. first + m - 1
  <2>1. ASSUME NEW q \in first .. first + m - 1 PROVE \E i \in 1 .. m : q = first + i - 1
    <3>1. q - first + 1 \in 1 .. m /\ q = first + (q - first + 1) - 1
      BY <1>1
    <3> QED BY <3>1
  <2>2. \A q : q \in Range(c) <=> \E i \in 1 .. m : q = first + i - 1
    BY DEF Range
  <2>3. \A q : q \in ToSet(c) <=> \E i \in 1 .. m : q = first + i - 1
    BY DEF ToSet
  <2>4. \A q : q \in first .. first + m - 1 <=> \E i \in 1 .. m : q = first + i - 1
    BY <1>4, <2>1
  <2>5. Range(c) = first .. first + m - 1
    <3> HIDE DEF c
    <3> QED BY <2>2, <2>4
  <2>6. ToSet(c) = first .. first + m - 1
    <3> HIDE DEF c
    <3> QED BY <2>3, <2>4
  <2> QED BY <2>5, <2>6
<1>7. DOMAIN c = 1 .. m
  OBVIOUS
<1> HIDE DEF p, c, S
<1>8. p \in Seq(S) /\ Len(p) = m - 1
  BY <1>1, <1>3, SeqOfFunction
<1>9. c \in Seq(below) /\ Len(c) = m
  BY <1>1, <1>5, SeqOfFunction
<1>10. p \in Seq(Range(p))
  BY <1>8, SeqOfRange
<1>11. RootOK(RootNode(p, c), below)
  <2>1. Branch(p, c, below)
    BY <1>1, <1>8, <1>9, <1>10 DEF Branch
  <2> QED BY <2>1, NodeOfShape
<1>12. RootNode(p, c).children = c
  BY DEF RootNode
<1> QED BY <1>2, <1>6, <1>7, <1>11, <1>12 DEF m

(***************************************************************************)
(* What the invariant says of the pages.                                   *)
(***************************************************************************)
LEMMA PageNumbers ==
  ASSUME TreeInv
  PROVE  /\ Root \in Created /\ Created \subseteq AllPages /\ AllPages \subseteq Nat
         /\ Fresh \in Nat /\ Fresh > Root /\ Root \in Nat /\ Created = 1 .. Fresh - 1
         /\ MaxPages \in Nat
<1> DEFINE c == Cardinality(Created)
<1>1. Created = 1 .. c /\ c \in 1 .. MaxPages
  BY DEF TreeInv, PagesOK
<1>2. Fresh = c + 1
  BY DEF Fresh
<1> HIDE DEF c
<1> QED BY <1>1, <1>2, PagesAssumption DEF Root, AllPages

(* Pages below the root that are inner nodes, and those that are not. *)
Kin(inner) == {q \in Created \ {Root} : IsInner(q) <=> inner}

(* The children of a node are all inner nodes, or none is. *)
LEMMA BranchKin ==
  ASSUME TreeInv, NEW p \in Created, IsBranch(node[p])
  PROVE  \E b \in BOOLEAN : BranchOK(node[p], Kin(b))
<1>1. BranchOK(node[p], Created \ {Root}) /\ SiblingsOK(p)
  <2>1. NodeOK(p, node[p], Created \ {Root}) /\ SiblingsOK(p)
    BY DEF TreeInv, PagesOK
  <2> QED BY <2>1 DEF NodeOK, LeafOK, RootOK, InnerOK, Leaf, Zeros, IsBranch
<1> DEFINE c == node[p].children
           L == Len(node[p].pivots)
<1>2. /\ DOMAIN c = 1 .. L + 1 /\ L \in Nat /\ \A i \in 1 .. L + 1 : c[i] \in Created \ {Root}
      /\ Len(c) = L + 1 /\ node[p].pivots \in Seq(Range(node[p].pivots))
  BY <1>1, BranchFacts DEF Branch
<1> DEFINE b == IsInner(c[1])
<1>3. b \in BOOLEAN
  BY DEF IsInner
<1>4. \A q, r \in Range(c) : IsInner(q) <=> IsInner(r)
  BY <1>1 DEF SiblingsOK
<1> HIDE DEF c, L
<1>5. \A i \in 1 .. L + 1 : IsInner(c[i]) <=> b
  <2>1. 1 \in DOMAIN c
    BY <1>2
  <2>2. \A i \in DOMAIN c : c[i] \in Range(c)
    BY DEF Range
  <2> QED BY <1>2, <1>4, <2>1, <2>2
<1> HIDE DEF b
<1>6. c \in [1 .. L + 1 -> Kin(b)]
  <2>1. c = [i \in 1 .. L + 1 |-> c[i]]
    <3>1. c \in Seq(Created \ {Root})
      BY <1>1 DEF BranchOK, c
    <3> QED BY <1>2, <3>1, LenProperties
  <2>2. \A i \in 1 .. L + 1 : c[i] \in Kin(b)
    BY <1>2, <1>5 DEF Kin
  <2> HIDE DEF Kin
  <2> QED BY <2>1, <2>2
<1>7. c \in Seq(Kin(b))
  <2> HIDE DEF Kin
  <2>1. L + 1 \in Nat
    BY <1>2
  <2> QED BY <1>6, <2>1, SeqOfFunction
<1>8. BranchOK(node[p], Kin(b))
  BY <1>2, <1>7 DEF BranchOK, c, L
<1> QED BY <1>3, <1>8

(* A node stays one when more pages are created. *)
LEMMA BranchMonotonic ==
  ASSUME NEW n, NEW A, NEW B, BranchOK(n, A), A \subseteq B
  PROVE  BranchOK(n, B)
BY SeqMonotonic DEF BranchOK

LEMMA NodeMonotonic ==
  ASSUME NEW p, NEW n, NEW A, NEW B, NodeOK(p, n, A), A \subseteq B
  PROVE  NodeOK(p, n, B)
BY BranchMonotonic DEF NodeOK, InnerOK, RootOK

(***************************************************************************)
(* What a step leaves alone.                                               *)
(***************************************************************************)
Stays(u) ==
  /\ access'[u] = access[u] /\ pc'[u] = pc[u] /\ call'[u] = call[u]
  /\ exclusiveMode'[u] = exclusiveMode[u] /\ mode'[u] = mode[u]
  /\ current'[u] = current[u] /\ queue'[u] = queue[u]

PagesGrow ==
  /\ Created \subseteq Created'
  /\ rootLeaf' => rootLeaf
  /\ \A p \in Created : IsInner(p) => IsInner(p)'

(* A thread that takes no step keeps what it relies on, when pages are only *)
(* added and those it has locked are as before.                             *)
LEMMA ThreadKept ==
  ASSUME TreeInv, NEW u \in Threads, Stays(u), PagesGrow,
         \A p \in Created : access[u][p] # "none" => node'[p] = node[p]
  PROVE  ThreadOK(u)'
<1>1. /\ LocalTypes /\ LocksOK /\ ThreadOK(u) /\ Created \subseteq AllPages /\ Root \in Created
  BY PageNumbers DEF TreeInv
<1>2. StartOK(u)'
  <2>1. StartOK(u) /\ (rootLeaf' => rootLeaf)
    BY <1>1 DEF ThreadOK, PagesGrow
  <2>2. pc'[u] \in Outside => HasOnly(u, {})'
    BY <2>1 DEF StartOK, Stays, HasOnly
  <2>3. /\ pc'[u] \in {"client", "header"} => ~exclusiveMode'[u]
        /\ pc'[u] \in {"pinRoot", "root"} =>
             /\ exclusiveMode'[u] => mode'[u]
             /\ call'[u].op \in UpsertType /\ rootLeaf' => mode'[u]
    BY <2>1 DEF StartOK, Stays, Upserting
  <2> QED BY <2>2, <2>3 DEF StartOK, Upserting
<1>3. RootStepOK(u)'
  BY <1>1 DEF ThreadOK, RootStepOK, Stays, HasOnly
<1>4. TargetOK(u)'
  <2> SUFFICES ASSUME pc[u] = "target" PROVE TargetOK(u)'
    BY DEF TargetOK, Stays
  <2>1. /\ ~rootLeaf /\ current[u] \in Created \ {Root} /\ access[u][current[u]] = "write"
        /\ HasOnly(u, {Root, current[u]})
        /\ exclusiveMode[u] =>
             access[u][Root] = "write" /\ current[u] \in Range(node[Root].children)
    BY <1>1 DEF ThreadOK, TargetOK
  <2>2. exclusiveMode'[u] => current'[u] \in Range(node'[Root].children)
    BY <1>1, <2>1 DEF Stays
  <2>3. HasOnly(u, {Root, current[u]})'
    BY <2>1 DEF HasOnly, Stays
  <2>4. ~rootLeaf' /\ current'[u] \in Created' \ {Root}
    BY <2>1 DEF PagesGrow, Stays
  <2>5. /\ access'[u][current'[u]] = "write"
        /\ exclusiveMode'[u] => access'[u][Root] = "write"
    BY <2>1 DEF Stays
  <2> QED BY <2>2, <2>3, <2>4, <2>5 DEF TargetOK
<1>5. FlushOK(u)'
  <2> SUFFICES ASSUME pc[u] = "flush" PROVE FlushOK(u)'
    BY DEF FlushOK, Stays
  <2>1. /\ ~rootLeaf /\ queue[u] \in Seq(Range(queue[u])) /\ queue[u] # <<>>
        /\ \A e \in Range(queue[u]) : EntryOK(u, e)
        /\ \A p \in AllPages : access[u][p] # "read"
    BY <1>1 DEF ThreadOK, FlushOK
  <2>2. ASSUME NEW e \in Range(queue[u]) PROVE EntryOK(u, e)'
    <3>1. EntryOK(u, e)
      BY <2>1
    <3> QED BY <3>1 DEF EntryOK, Stays, PagesGrow, IsInner
  <2>3. queue'[u] = queue[u]
    BY DEF Stays
  <2>4. ~rootLeaf' /\ \A p \in AllPages : access'[u][p] # "read"
    BY <2>1 DEF PagesGrow, Stays
  <2>5. \A e \in Range(queue'[u]) : EntryOK(u, e)'
    BY <2>2, <2>3
  <2> QED BY <2>1, <2>3, <2>4, <2>5 DEF FlushOK
<1>6. FindOK(u)'
  <2>1. pc[u] = "find" => current[u] \in Created \ {Root} /\ node[current[u]].type = "inner"
    BY <1>1 DEF ThreadOK, FindOK, IsInner
  <2>2. pc[u] = "find" => current[u] \in Created' \ {Root} /\ node'[current[u]].type = "inner"
    BY <2>1 DEF PagesGrow, IsInner
  <2> QED BY <2>2 DEF FindOK, Stays, IsInner
<1>7. ZerosOK(u)'
  BY <1>1 DEF ThreadOK, ZerosOK, Stays, LocksOK
<1> QED BY <1>2, <1>3, <1>4, <1>5, <1>6, <1>7 DEF ThreadOK

(* A step of one thread changes only pages it has locked exclusively. *)
OthersStay(t) == \A u \in Threads \ {t} : Stays(u)
OthersPages(t) ==
  PagesGrow /\ \A p \in Created : access[t][p] # "write" => node'[p] = node[p]

(* A step of one thread changes only pages it has locked exclusively, so the *)
(* others keep what they rely on.                                            *)
LEMMA OthersKept ==
  ASSUME TreeInv, NEW t \in Threads, OthersStay(t), OthersPages(t),
         NEW u \in Threads \ {t}
  PROVE  ThreadOK(u)'
<1>1. LocksOK /\ Created \subseteq AllPages
  BY PageNumbers DEF TreeInv
<1>2. \A p \in Created : access[u][p] # "none" => node'[p] = node[p]
  BY <1>1 DEF LocksOK, OthersPages
<1> QED BY <1>2, ThreadKept DEF OthersStay, OthersPages

(* The locks of a thread after Holds. *)
LEMMA HoldsRow ==
  ASSUME TreeInv, NEW t \in Threads, NEW shared, NEW exclusive, Holds(t, shared, exclusive)
  PROVE  /\ access' \in [Threads -> [AllPages -> {"none", "read", "write"}]]
         /\ \A u \in Threads \ {t} : access'[u] = access[u]
         /\ \A p \in AllPages :
              access'[t][p] = IF p \in exclusive THEN "write"
                              ELSE IF p \in shared THEN "read" ELSE "none"
<1> DEFINE row == [p \in 1 .. MaxPages |-> IF p \in exclusive THEN "write"
                                          ELSE IF p \in shared THEN "read" ELSE "none"]
<1>1. access' = [access EXCEPT ![t] = row]
  BY DEF Holds
<1>2. row \in [AllPages -> {"none", "read", "write"}]
  BY DEF AllPages
<1>3. \A p \in AllPages : row[p] = IF p \in exclusive THEN "write"
                                   ELSE IF p \in shared THEN "read" ELSE "none"
  BY DEF AllPages
<1> HIDE DEF row
<1> QED BY <1>1, <1>2, <1>3 DEF TreeInv, LocksOK

(* Page locks stay exclusive when a thread keeps some, takes some that are  *)
(* free, and gets those of the pages it creates.                            *)
LEMMA LocksStep ==
  ASSUME TreeInv, NEW t \in Threads, Created \subseteq Created',
         access' \in [Threads -> [AllPages -> {"none", "read", "write"}]],
         \A u \in Threads \ {t} : access'[u] = access[u],
         \A p \in AllPages : access'[t][p] # "none" =>
           /\ p \in Created'
           /\ \/ p \notin Created
              \/ access[t][p] \in {"write", access'[t][p]}
              \/ CanPin(t, p, access'[t][p] = "write")
  PROVE  LocksOK'
<1>1. LocksOK
  BY DEF TreeInv
<1>2. ASSUME NEW v \in Threads, NEW p \in AllPages, access'[v][p] # "none"
      PROVE  p \in Created'
  BY <1>1, <1>2 DEF LocksOK
<1>3. ASSUME NEW p \in AllPages, access'[t][p] # "none", NEW u \in Threads \ {t}
      PROVE  /\ access[u][p] # "write"
             /\ access'[t][p] = "write" => access[u][p] = "none"
  BY <1>1, <1>3 DEF LocksOK, CanPin
<1>4. ASSUME NEW v \in Threads, NEW p \in AllPages, access'[v][p] = "write",
             NEW u \in Threads \ {v}
      PROVE  access'[u][p] = "none"
  <2>1. CASE v = t
    BY <1>3, <1>4, <2>1
  <2>2. CASE v # t /\ u = t
    BY <1>3, <1>4, <2>2
  <2>3. CASE v # t /\ u # t
    BY <1>1, <1>4, <2>3 DEF LocksOK
  <2> QED BY <2>1, <2>2, <2>3
<1> QED BY <1>2, <1>4 DEF LocksOK, AllPages

(* The parts of a step put together. *)
LEMMA TreeStep ==
  ASSUME TreeInv, NEW t \in Threads, OthersStay(t), OthersPages(t),
         LocalTypes', LocksOK', PagesOK', HeaderOK', ThreadOK(t)'
  PROVE  TreeInv'
<1>1. \A u \in Threads : ThreadOK(u)'
  BY OthersKept
<1> QED BY <1>1 DEF TreeInv

(* What a thread inside an operation finds. *)
LEMMA InCall ==
  ASSUME TreeInv, NEW t \in Threads, pc[t] # "client"
  PROVE  /\ Open /\ LocalTypes /\ LocksOK /\ PagesOK /\ HeaderOK /\ ThreadOK(t)
         /\ StartOK(t) /\ RootStepOK(t) /\ TargetOK(t) /\ FlushOK(t) /\ FindOK(t) /\ ZerosOK(t)
BY DEF TreeInv, HeaderOK, At, ThreadOK

(* A step that leaves the root a leaf or not keeps rootLeaf true. *)
LEMMA HeaderStep ==
  ASSUME TreeInv, Open, UNCHANGED header, IsLeaf(Root)' <=> IsLeaf(Root)
  PROVE  HeaderOK'
BY DEF TreeInv, HeaderOK, Open, header

LEMMA PagesStay ==
  ASSUME TreeInv, node' = node, stale' = stale
  PROVE  PagesOK'
<1>1. Created' = Created /\ PagesOK
  BY DEF Created, TreeInv
<1>2. ASSUME NEW p \in Created PROVE NodeOK(p, node[p], Created \ {Root}) /\ SiblingsOK(p)
  BY <1>1 DEF PagesOK
<1>3. ASSUME NEW p \in Created PROVE SiblingsOK(p)'
  BY <1>2 DEF SiblingsOK, IsInner
<1>4. ASSUME NEW p \in DOMAIN stale
      PROVE  /\ p \in Created \ {Root} /\ LeafOK(node[p])
             /\ LeafOK(stale[p]) \/ stale[p] = Zeros
  BY <1>1 DEF PagesOK
<1> QED BY <1>1, <1>2, <1>3, <1>4 DEF PagesOK

(* Steps that change no node. *)
LEMMA QuietStep ==
  ASSUME TreeInv, NEW t \in Threads, UNCHANGED tree, Open, OthersStay(t),
         LocalTypes', ThreadOK(t)',
         access' \in [Threads -> [AllPages -> {"none", "read", "write"}]],
         \A p \in AllPages : access'[t][p] # "none" =>
           p \in Created /\ (\/ access[t][p] \in {"write", access'[t][p]}
                             \/ CanPin(t, p, access'[t][p] = "write"))
  PROVE  TreeInv'
<1>1. /\ node' = node /\ stale' = stale /\ UNCHANGED header /\ rootLeaf' = rootLeaf
      /\ Created' = Created
  BY DEF tree, header, Created
<1>2. OthersPages(t)
  BY <1>1 DEF OthersPages, PagesGrow, IsInner
<1>3. LocksOK'
  BY <1>1, LocksStep DEF OthersStay, Stays
<1>4. PagesOK'
  BY <1>1, PagesStay
<1>5. HeaderOK'
  BY <1>1, HeaderStep DEF IsLeaf
<1> QED BY <1>2, <1>3, <1>4, <1>5, TreeStep

(* A thread that answers has nothing left. *)
LEMMA AnswerStep ==
  ASSUME TreeInv, NEW t \in Threads, NEW r, Answer(t, r), Created \subseteq Created'
  PROVE  /\ OthersStay(t) /\ LocalTypes' /\ LocksOK' /\ ThreadOK(t)'
         /\ access' \in [Threads -> [AllPages -> {"none", "read", "write"}]]
         /\ \A p \in AllPages : access'[t][p] = "none"
<1>0. LocalTypes
  BY DEF TreeInv
<1>1. /\ access' \in [Threads -> [AllPages -> {"none", "read", "write"}]]
      /\ \A u \in Threads \ {t} : access'[u] = access[u]
      /\ \A p \in AllPages : access'[t][p] = "none"
  BY HoldsRow DEF Answer
<1>2. LocalTypes'
  BY <1>0 DEF Answer, LocalTypes, Go, Labels
<1>3. OthersStay(t)
  BY <1>0, <1>1 DEF Answer, LocalTypes, OthersStay, Stays, Go
<1>4. LocksOK'
  BY <1>1, LocksStep
<1>5. pc'[t] = "client" /\ ~exclusiveMode'[t]
  BY <1>0 DEF Answer, Go, LocalTypes
<1>6. ThreadOK(t)'
  BY <1>1, <1>5 DEF ThreadOK, StartOK, RootStepOK, TargetOK, FlushOK, FindOK, ZerosOK,
                    Outside, HasOnly
<1> QED BY <1>1, <1>2, <1>3, <1>4, <1>6

(***************************************************************************)
(* Nodes by their types.                                                   *)
(***************************************************************************)
LEMMA RootShape ==
  ASSUME TreeInv
  PROVE  /\ node[Root] # Zeros /\ ~IsInner(Root)
         /\ IsLeaf(Root) => LeafOK(node[Root])
         /\ ~IsLeaf(Root) => IsBranch(node[Root]) /\ RootOK(node[Root], Created \ {Root})
<1>1. NodeOK(Root, node[Root], Created \ {Root})
  BY PageNumbers DEF TreeInv, PagesOK
<1>2. CASE LeafOK(node[Root])
  BY <1>2 DEF LeafOK, IsLeaf, IsInner, Zeros
<1>3. CASE RootOK(node[Root], Created \ {Root})
  BY <1>3 DEF RootOK, IsLeaf, IsInner, Zeros, IsBranch
<1> QED BY <1>1, <1>2, <1>3 DEF NodeOK

(* A page below the root is a leaf, an inner node or zeros. *)
LEMMA PageShape ==
  ASSUME TreeInv, NEW p \in Created \ {Root}
  PROVE  /\ IsLeaf(p) => LeafOK(node[p])
         /\ IsInner(p) => IsBranch(node[p]) /\ InnerOK(node[p], Created \ {Root}) /\ ~IsLeaf(p)
         /\ ~IsLeaf(p) /\ ~IsInner(p) => node[p] = Zeros
         /\ node[p].type \in {"leaf", "inner", "zeros"}
<1>1. NodeOK(p, node[p], Created \ {Root})
  BY DEF TreeInv, PagesOK
<1>2. CASE LeafOK(node[p])
  BY <1>2 DEF LeafOK, IsLeaf, IsInner, Zeros
<1>3. CASE InnerOK(node[p], Created \ {Root})
  BY <1>3 DEF InnerOK, IsLeaf, IsInner, Zeros, IsBranch
<1>4. CASE node[p] = Zeros
  BY <1>4 DEF IsLeaf, IsInner, Zeros
<1> QED BY <1>1, <1>2, <1>3, <1>4 DEF NodeOK

(* A node with children, and the one for a key. *)
LEMMA ChildInTree ==
  ASSUME TreeInv, NEW p \in Created, IsBranch(node[p]), NEW k
  PROVE  /\ ChildOf(node[p], k) \in Created \ {Root}
         /\ ChildOf(node[p], k) \in Range(node[p].children)
         /\ ChildIndex(node[p], k) \in DOMAIN node[p].children
         /\ ChildIndex(node[p], k) \in Nat
<1>1. PICK b \in BOOLEAN : BranchOK(node[p], Kin(b))
  BY BranchKin
<1>2. /\ ChildOf(node[p], k) \in Kin(b) /\ ChildOf(node[p], k) \in Range(node[p].children)
      /\ ChildIndex(node[p], k) \in DOMAIN node[p].children
      /\ ChildIndex(node[p], k) \in 1 .. Len(node[p].pivots) + 1
  BY <1>1, ChildIndexType
<1> QED BY <1>2 DEF Kin

(***************************************************************************)
(* The steps that change no node.                                          *)
(***************************************************************************)
LEMMA BeginStep ==
  ASSUME TreeInv, NEW t \in Threads, NEW c, Begin(t, c)
  PROVE  TreeInv'
<1>1. LocalTypes /\ Open /\ ThreadOK(t) /\ pc[t] = "client" /\ LocksOK
  BY DEF TreeInv, Begin, At
<1>2. UNCHANGED tree /\ access' = access /\ Created' = Created
  BY DEF Begin, tree, Created
<1>3. OthersStay(t)
  BY <1>1, <1>2 DEF OthersStay, Stays, Begin, Go, LocalTypes
<1>4. LocalTypes'
  BY <1>1, <1>2 DEF LocalTypes, Begin, Go, Labels
<1>5. /\ call'[t] = c /\ exclusiveMode'[t] = FALSE
      /\ pc'[t] = IF c.op = "find" THEN "pinRoot" ELSE "header"
  BY <1>1 DEF LocalTypes, Begin, Go, ThreadOK, StartOK
<1>6. \A p \in AllPages : access'[t][p] = "none"
  BY <1>1, <1>2 DEF ThreadOK, StartOK, Outside, HasOnly
<1>7. pc'[t] = "pinRoot" => call'[t].op \notin UpsertType
  BY <1>5 DEF UpsertType
<1>8. ThreadOK(t)'
  BY <1>5, <1>6, <1>7 DEF ThreadOK, StartOK, RootStepOK, TargetOK, FlushOK, FindOK, ZerosOK,
                         HasOnly, Upserting
<1>9. access' \in [Threads -> [AllPages -> {"none", "read", "write"}]]
  BY <1>1, <1>2 DEF LocksOK
<1> QED BY <1>1, <1>2, <1>3, <1>4, <1>6, <1>8, <1>9, QuietStep

(* The beginning of an operation, which reads rootLeaf without a lock. *)
LEMMA ReadHeaderStep ==
  ASSUME TreeInv, NEW t \in Threads, ReadHeader(t)
  PROVE  TreeInv'
<1>1. pc[t] = "header"
  BY DEF ReadHeader, At
<1>2. Open /\ LocalTypes /\ LocksOK /\ HeaderOK /\ StartOK(t)
  BY <1>1, InCall
<1>3. /\ UNCHANGED tree /\ access' = access /\ Created' = Created /\ call' = call
      /\ exclusiveMode' = exclusiveMode /\ rootLeaf' = rootLeaf
  BY DEF ReadHeader, tree, Created, client, header
<1>4. OthersStay(t)
  BY <1>2, <1>3 DEF OthersStay, Stays, ReadHeader, Go, LocalTypes, client
<1>5. LocalTypes'
  BY <1>2, <1>3 DEF LocalTypes, ReadHeader, Go, Labels, client, ModeOfRoot, HeaderOK
<1>6. mode'[t] = rootLeaf /\ pc'[t] = "pinRoot" /\ exclusiveMode[t] = FALSE
  BY <1>1, <1>2 DEF LocalTypes, ReadHeader, Go, StartOK, ModeOfRoot
<1>7. \A p \in AllPages : access'[t][p] = "none"
  BY <1>1, <1>2, <1>3 DEF StartOK, Outside, HasOnly
<1>8. ThreadOK(t)'
  BY <1>3, <1>6, <1>7 DEF ThreadOK, StartOK, RootStepOK, TargetOK, FlushOK, FindOK, ZerosOK,
                          HasOnly, Upserting
<1>9. access' \in [Threads -> [AllPages -> {"none", "read", "write"}]]
  BY <1>2, <1>3 DEF LocksOK
<1> QED BY <1>2, <1>3, <1>4, <1>5, <1>7, <1>8, <1>9, QuietStep

LEMMA PinRootStep ==
  ASSUME TreeInv, NEW t \in Threads, PinRoot(t)
  PROVE  TreeInv'
<1>1. pc[t] = "pinRoot"
  BY DEF PinRoot, At
<1>2. Open /\ LocalTypes /\ LocksOK /\ StartOK(t) /\ Root \in Created
  BY <1>1, InCall, PageNumbers
<1>3. /\ UNCHANGED tree /\ Created' = Created /\ call' = call /\ node' = node
      /\ exclusiveMode' = exclusiveMode /\ mode' = mode /\ rootLeaf' = rootLeaf
  BY DEF PinRoot, tree, Created, client, header
<1>4. /\ access' \in [Threads -> [AllPages -> {"none", "read", "write"}]]
      /\ \A u \in Threads \ {t} : access'[u] = access[u]
      /\ \A p \in AllPages : access'[t][p] = IF p # Root THEN "none"
                                             ELSE IF mode[t] THEN "write" ELSE "read"
  <2>1. CASE mode[t]
    <3>1. Holds(t, {}, {Root})
      BY <2>1 DEF PinRoot
    <3> QED BY <2>1, <3>1, HoldsRow
  <2>2. CASE ~mode[t]
    <3>1. Holds(t, {Root}, {})
      BY <2>2 DEF PinRoot
    <3> QED BY <2>2, <3>1, HoldsRow
  <2> QED BY <2>1, <2>2
<1>5. OthersStay(t)
  BY <1>2, <1>3, <1>4 DEF OthersStay, Stays, PinRoot, Go, LocalTypes, client
<1>6. LocalTypes'
  BY <1>2, <1>3 DEF LocalTypes, PinRoot, Go, Labels, client
<1>7. current'[t] = Root /\ pc'[t] = "root"
  BY <1>2 DEF LocalTypes, PinRoot, Go
<1>8. ThreadOK(t)'
  <2>1. StartOK(t)'
    BY <1>1, <1>2, <1>3, <1>7 DEF StartOK, Outside, Upserting
  <2>2. RootStepOK(t)'
    BY <1>2, <1>3, <1>4, <1>7, PageNumbers DEF RootStepOK, HasOnly
  <2>3. ZerosOK(t)'
    BY <1>3, <1>4, RootShape DEF ZerosOK
  <2> QED BY <1>7, <2>1, <2>2, <2>3 DEF ThreadOK, TargetOK, FlushOK, FindOK
<1>9. CanPin(t, Root, mode[t])
  BY DEF PinRoot
<1>10. ASSUME NEW p \in AllPages, access'[t][p] # "none"
       PROVE  p \in Created /\ CanPin(t, p, access'[t][p] = "write")
  <2>1. p = Root
    BY <1>4, <1>10
  <2>2. (access'[t][p] = "write") <=> mode[t]
    BY <1>2, <1>4, <2>1
  <2> QED BY <1>2, <1>9, <2>1, <2>2 DEF CanPin
<1> QED BY <1>2, <1>3, <1>4, <1>5, <1>6, <1>8, <1>10, QuietStep

LEMMA RetryStep ==
  ASSUME TreeInv, NEW t \in Threads, pc[t] \in {"root", "target"}, Retry(t)
  PROVE  TreeInv'
<1>1. Open /\ LocalTypes
  BY InCall
<1>2. /\ UNCHANGED tree /\ Created' = Created /\ call' = call /\ rootLeaf' = rootLeaf
  BY DEF Retry, tree, Created, client, header
<1>3. /\ access' \in [Threads -> [AllPages -> {"none", "read", "write"}]]
      /\ \A u \in Threads \ {t} : access'[u] = access[u]
      /\ \A p \in AllPages : access'[t][p] = "none"
  BY HoldsRow DEF Retry, KeptByRetry
<1>4. OthersStay(t)
  BY <1>1, <1>2, <1>3 DEF OthersStay, Stays, Retry, Go, LocalTypes, client
<1>5. LocalTypes'
  BY <1>1, <1>2 DEF LocalTypes, Retry, Go, Labels, client
<1>6. mode'[t] = TRUE /\ pc'[t] = "pinRoot"
  BY <1>1 DEF LocalTypes, Retry, Go
<1>7. ThreadOK(t)'
  BY <1>3, <1>6 DEF ThreadOK, StartOK, RootStepOK, TargetOK, FlushOK, FindOK, ZerosOK, HasOnly
<1> QED BY <1>1, <1>2, <1>3, <1>4, <1>5, <1>7, QuietStep

(* What a thread that has just locked the root may rely on. *)
LEMMA AtRootFacts ==
  ASSUME TreeInv, NEW t \in Threads, pc[t] = "root"
  PROVE  /\ Open /\ LocalTypes /\ LocksOK /\ PagesOK /\ HeaderOK /\ StartOK(t)
         /\ current[t] = Root /\ HasOnly(t, {Root})
         /\ access[t][Root] = IF mode[t] THEN "write" ELSE "read"
         /\ exclusiveMode[t] => access[t][Root] = "write"
         /\ Upserting(t) /\ IsLeaf(Root) => access[t][Root] = "write"
         /\ ~IsLeaf(Root) => ~rootLeaf /\ IsBranch(node[Root])
BY InCall, RootShape DEF RootStepOK, StartOK, HeaderOK

LEMMA PinTargetStep ==
  ASSUME TreeInv, NEW t \in Threads, PinTarget(t)
  PROVE  TreeInv'
<1> DEFINE target == ChildOf(Here(t), Key(t))
           kept == IF exclusiveMode[t] THEN {Root, target} ELSE {target}
<1>1. pc[t] = "root" /\ ~IsLeaf(Root)
  BY DEF PinTarget, AtRoot, At
<1>2. /\ Open /\ LocalTypes /\ LocksOK /\ HeaderOK /\ current[t] = Root
      /\ IsBranch(node[Root]) /\ ~rootLeaf
      /\ exclusiveMode[t] => access[t][Root] = "write"
  BY <1>1, AtRootFacts
<1>3. Root \in Created /\ Created \subseteq AllPages
  BY PageNumbers
<1>4. target \in Created \ {Root} /\ target \in Range(node[Root].children)
  BY <1>2, <1>3, ChildInTree DEF Here
<1>5. /\ CanPin(t, target, TRUE) /\ Holds(t, {}, kept)
      /\ current' = [current EXCEPT ![t] = target]
      /\ pc' = [pc EXCEPT ![t] = IF node[target] = Zeros THEN "failed" ELSE "target"]
      /\ UNCHANGED <<tree, client, exclusiveMode, mode, accumulated, queue>>
  BY DEF PinTarget, Go
<1> HIDE DEF target
<1>6. /\ Created' = Created /\ call' = call /\ node' = node /\ UNCHANGED tree
      /\ exclusiveMode' = exclusiveMode /\ mode' = mode /\ rootLeaf' = rootLeaf /\ queue' = queue
  BY <1>5 DEF tree, Created, client, header
<1>7. /\ access' \in [Threads -> [AllPages -> {"none", "read", "write"}]]
      /\ \A u \in Threads \ {t} : access'[u] = access[u]
      /\ \A p \in AllPages : access'[t][p] = IF p \in kept THEN "write" ELSE "none"
  BY <1>5, HoldsRow
<1>8. OthersStay(t)
  BY <1>2, <1>5, <1>6, <1>7 DEF OthersStay, Stays, LocalTypes
<1>9. LocalTypes'
  BY <1>2, <1>5, <1>6 DEF LocalTypes, Labels, client
<1>10. /\ current'[t] = target
       /\ pc'[t] = IF node[target] = Zeros THEN "failed" ELSE "target"
  BY <1>2, <1>5 DEF LocalTypes
<1>11. ThreadOK(t)'
  <2>1. TargetOK(t)'
    <3>1. /\ access'[t][target] = "write"
          /\ \A p \in AllPages : access'[t][p] # "none" => p \in {Root, target}
      BY <1>3, <1>4, <1>7
    <3>2. exclusiveMode'[t] => access'[t][Root] = "write"
      BY <1>3, <1>6, <1>7
    <3>3. exclusiveMode'[t] => current'[t] \in Range(node'[Root].children)
      BY <1>4, <1>6, <1>10
    <3>4. HasOnly(t, {Root, current[t]})'
      BY <1>10, <3>1 DEF HasOnly
    <3>5. pc'[t] = "target" => current'[t] \in Created' \ {Root} /\ access'[t][current'[t]] = "write"
      BY <1>4, <1>6, <1>10, <3>1
    <3> QED BY <1>2, <1>6, <3>2, <3>3, <3>4, <3>5 DEF TargetOK
  <2>2. ZerosOK(t)'
    BY <1>6, <1>7, <1>10, RootShape DEF ZerosOK
  <2>3. StartOK(t)'
    BY <1>10 DEF StartOK, Outside
  <2> QED BY <1>10, <2>1, <2>2, <2>3 DEF ThreadOK, RootStepOK, FlushOK, FindOK
<1>12. ASSUME NEW p \in AllPages, access'[t][p] # "none"
       PROVE  p \in Created /\ (access[t][p] = "write" \/ CanPin(t, p, access'[t][p] = "write"))
  <2>1. access'[t][p] = "write" /\ p \in kept
    BY <1>7, <1>12
  <2>2. CASE p = target
    BY <1>4, <1>5, <2>1, <2>2 DEF CanPin
  <2>3. CASE p # target
    BY <1>2, <1>3, <2>1, <2>3
  <2> QED BY <2>2, <2>3
<1>13. \A p \in AllPages : access'[t][p] # "none" =>
         p \in Created /\ (\/ access[t][p] \in {"write", access'[t][p]}
                           \/ CanPin(t, p, access'[t][p] = "write"))
  BY <1>12
<1> QED BY <1>2, <1>6, <1>7, <1>8, <1>9, <1>11, <1>13, QuietStep

(* What a thread finds that flushes a node. *)
LEMMA FlushFacts ==
  ASSUME TreeInv, NEW t \in Threads, pc[t] = "flush"
  PROVE  /\ Open /\ LocalTypes /\ LocksOK /\ PagesOK /\ HeaderOK /\ ~rootLeaf
         /\ queue[t] \in Seq(Range(queue[t])) /\ queue[t] # <<>>
         /\ \A e \in Range(queue[t]) : EntryOK(t, e)
         /\ EntryOK(t, Head(queue[t]))
         /\ \A p \in AllPages : access[t][p] \in {"none", "write"}
         /\ Flushed(t) \in Created \ {Root} /\ IsBranch(node[Flushed(t)])
         /\ IsInner(Flushed(t)) /\ access[t][Flushed(t)] = "write"
         /\ \A i \in Targets(t) :
              /\ i \in DOMAIN node[Flushed(t)].children /\ i \in Nat
              /\ Child(t, i) \in Created \ {Root}
              /\ Child(t, i) \in Range(node[Flushed(t)].children)
<1>1. /\ Open /\ LocalTypes /\ LocksOK /\ PagesOK /\ HeaderOK /\ ~rootLeaf
      /\ queue[t] \in Seq(Range(queue[t])) /\ queue[t] # <<>>
      /\ \A e \in Range(queue[t]) : EntryOK(t, e)
      /\ \A p \in AllPages : access[t][p] # "read"
  BY InCall DEF FlushOK
<1>2. \A p \in AllPages : access[t][p] \in {"none", "write"}
  BY <1>1 DEF LocksOK
<1>3. Head(queue[t]) \in Range(queue[t])
  BY <1>1, HeadTailProperties
<1>4. EntryOK(t, Head(queue[t]))
  BY <1>1, <1>3
<1>5. /\ Flushed(t) \in Created \ {Root} /\ IsInner(Flushed(t))
      /\ access[t][Flushed(t)] = "write"
  BY <1>4 DEF EntryOK, Flushed
<1>6. IsBranch(node[Flushed(t)])
  BY <1>5, PageShape
<1>7. ASSUME NEW i \in Targets(t)
      PROVE  /\ i \in DOMAIN node[Flushed(t)].children /\ i \in Nat
             /\ Child(t, i) \in Created \ {Root}
             /\ Child(t, i) \in Range(node[Flushed(t)].children)
  <2>1. PICK k \in DOMAIN ToFlush(t) : i = ChildIndex(node[Flushed(t)], k)
    BY DEF Targets, IndexOf
  <2>2. Child(t, i) = ChildOf(node[Flushed(t)], k)
    BY <2>1 DEF Child, ChildOf
  <2> QED BY <1>5, <1>6, <2>1, <2>2, ChildInTree
<1> QED BY <1>1, <1>2, <1>4, <1>5, <1>6, <1>7

LEMMA PinFlushChildStep ==
  ASSUME TreeInv, NEW t \in Threads, NEW i, PinFlushChild(t, i)
  PROVE  TreeInv'
<1> DEFINE child == Child(t, i)
           kept == HeldBy(t) \cup {child}
<1>1. pc[t] = "flush" /\ i \in Targets(t)
  BY DEF PinFlushChild, At, Unlocked
<1>2. /\ Open /\ LocalTypes /\ LocksOK /\ HeaderOK /\ ~rootLeaf
      /\ queue[t] \in Seq(Range(queue[t])) /\ queue[t] # <<>>
      /\ \A e \in Range(queue[t]) : EntryOK(t, e)
      /\ \A p \in AllPages : access[t][p] \in {"none", "write"}
      /\ child \in Created \ {Root} /\ ZerosOK(t)
  BY <1>1, FlushFacts, InCall
<1>3. Created \subseteq AllPages
  BY PageNumbers
<1>4. /\ CanPin(t, child, TRUE) /\ Holds(t, {}, kept)
      /\ pc' = [pc EXCEPT ![t] = IF node[child] = Zeros THEN "failed" ELSE "flush"]
      /\ UNCHANGED <<tree, client, exclusiveMode, mode, current, accumulated, queue>>
  BY DEF PinFlushChild, Go
<1> HIDE DEF child
<1>5. /\ Created' = Created /\ call' = call /\ node' = node /\ UNCHANGED tree
      /\ exclusiveMode' = exclusiveMode /\ mode' = mode /\ rootLeaf' = rootLeaf /\ queue' = queue
      /\ current' = current
  BY <1>4 DEF tree, Created, client, header
<1>6. /\ access' \in [Threads -> [AllPages -> {"none", "read", "write"}]]
      /\ \A u \in Threads \ {t} : access'[u] = access[u]
      /\ \A p \in AllPages : access'[t][p] = IF p \in kept THEN "write" ELSE "none"
  BY <1>4, HoldsRow
<1>7. \A p \in AllPages : p \in kept <=> access[t][p] = "write" \/ p = child
  BY <1>2, <1>3 DEF HeldBy, AllPages
<1> HIDE DEF kept
<1>8. OthersStay(t)
  BY <1>2, <1>4, <1>5, <1>6 DEF OthersStay, Stays, LocalTypes
<1>9. LocalTypes'
  BY <1>2, <1>4, <1>5 DEF LocalTypes, Labels, client
<1>10. pc'[t] = IF node[child] = Zeros THEN "failed" ELSE "flush"
  BY <1>2, <1>4 DEF LocalTypes
<1>11. ThreadOK(t)'
  <2>1. \A e \in Range(queue[t]) : EntryOK(t, e)'
    <3>1. ASSUME NEW e \in Range(queue[t]) PROVE EntryOK(t, e)'
      <4>1. /\ e.page \in Created \ {Root} /\ IsInner(e.page) /\ access[t][e.page] = "write"
            /\ DOMAIN e.messages # {}
        BY <1>2 DEF EntryOK
      <4> QED BY <1>3, <1>5, <1>6, <1>7, <4>1 DEF EntryOK, IsInner
    <3> QED BY <3>1
  <2>2. FlushOK(t)'
    BY <1>2, <1>5, <1>6, <2>1 DEF FlushOK
  <2>3. ZerosOK(t)'
    BY <1>1, <1>2, <1>5, <1>6, <1>7, <1>10 DEF ZerosOK
  <2>4. StartOK(t)'
    BY <1>10 DEF StartOK, Outside
  <2> QED BY <1>10, <2>2, <2>3, <2>4 DEF ThreadOK, RootStepOK, TargetOK, FindOK
<1>12. ASSUME NEW p \in AllPages, access'[t][p] # "none"
       PROVE  p \in Created /\ (access[t][p] = "write" \/ CanPin(t, p, access'[t][p] = "write"))
  <2>1. access'[t][p] = "write" /\ p \in kept
    BY <1>6, <1>12
  <2>2. CASE p = child
    BY <1>2, <1>4, <2>1, <2>2 DEF CanPin
  <2>3. CASE p # child
    BY <1>2, <1>7, <2>1, <2>3 DEF LocksOK
  <2> QED BY <2>2, <2>3
<1>13. \A p \in AllPages : access'[t][p] # "none" =>
         p \in Created /\ (\/ access[t][p] \in {"write", access'[t][p]}
                           \/ CanPin(t, p, access'[t][p] = "write"))
  BY <1>12
<1> QED BY <1>2, <1>5, <1>6, <1>8, <1>9, <1>11, <1>13, QuietStep

(***************************************************************************)
(* find.                                                                   *)
(***************************************************************************)
LEMMA QuietAnswer ==
  ASSUME TreeInv, NEW t \in Threads, NEW r, Answer(t, r), UNCHANGED tree, pc[t] # "client"
  PROVE  TreeInv'
<1>1. Created' = Created
  BY DEF tree, Created
<1>2. /\ OthersStay(t) /\ LocalTypes' /\ ThreadOK(t)'
      /\ access' \in [Threads -> [AllPages -> {"none", "read", "write"}]]
      /\ \A p \in AllPages : access'[t][p] = "none"
  BY <1>1, AnswerStep
<1>3. Open
  BY InCall
<1> QED BY <1>1, <1>2, <1>3, QuietStep

LEMMA FailStep ==
  ASSUME TreeInv, NEW t \in Threads, Fail(t), pc[t] # "client"
  PROVE  TreeInv'
<1>1. Open /\ LocalTypes /\ LocksOK
  BY InCall
<1>2. /\ UNCHANGED tree /\ Created' = Created /\ call' = call /\ rootLeaf' = rootLeaf
      /\ access' = access
  BY DEF Fail, tree, Created, client, header
<1>3. OthersStay(t)
  BY <1>1, <1>2 DEF OthersStay, Stays, Fail, Go, LocalTypes, client
<1>4. LocalTypes'
  BY <1>1, <1>2 DEF LocalTypes, Fail, Go, Labels, client
<1>5. pc'[t] = "failed"
  BY <1>1 DEF LocalTypes, Fail, Go
<1>6. ThreadOK(t)'
  BY <1>5 DEF ThreadOK, StartOK, RootStepOK, TargetOK, FlushOK, FindOK, ZerosOK, Outside
<1>7. /\ access' \in [Threads -> [AllPages -> {"none", "read", "write"}]]
      /\ \A p \in AllPages : access'[t][p] # "none" => p \in Created
  BY <1>1, <1>2 DEF LocksOK
<1> QED BY <1>1, <1>2, <1>3, <1>4, <1>6, <1>7, QuietStep

LEMMA FindInRootLeafStep ==
  ASSUME TreeInv, NEW t \in Threads, FindInRootLeaf(t)
  PROVE  TreeInv'
BY QuietAnswer DEF FindInRootLeaf, At

(* find goes on to a child that is an inner node. *)
LEMMA FindOnStep ==
  ASSUME TreeInv, NEW t \in Threads, pc[t] # "client", NEW p \in Created \ {Root}, IsInner(p),
         CanPin(t, p, FALSE), Holds(t, {p}, {}), UNCHANGED tree,
         current' = [current EXCEPT ![t] = p], pc' = [pc EXCEPT ![t] = "find"],
         UNCHANGED <<client, exclusiveMode, mode, queue>>, DOMAIN accumulated' = Threads
  PROVE  TreeInv'
<1>1. Open /\ LocalTypes /\ LocksOK /\ Created \subseteq AllPages
  BY InCall, PageNumbers
<1>2. /\ Created' = Created /\ call' = call /\ message' = message /\ node' = node
      /\ exclusiveMode' = exclusiveMode /\ mode' = mode /\ queue' = queue
  BY DEF tree, Created, client
<1>3. /\ access' \in [Threads -> [AllPages -> {"none", "read", "write"}]]
      /\ \A u \in Threads \ {t} : access'[u] = access[u]
      /\ \A q \in AllPages : access'[t][q] = IF q = p THEN "read" ELSE "none"
  BY HoldsRow
<1>4. OthersStay(t)
  BY <1>1, <1>2, <1>3 DEF OthersStay, Stays, LocalTypes
<1>5. LocalTypes'
  BY <1>1, <1>2 DEF LocalTypes, Labels
<1>6. current'[t] = p /\ pc'[t] = "find"
  BY <1>1 DEF LocalTypes
<1>7. node[p] # Zeros
  BY DEF IsInner, Zeros
<1>8. ThreadOK(t)'
  BY <1>2, <1>3, <1>6, <1>7 DEF ThreadOK, StartOK, RootStepOK, TargetOK, FlushOK, FindOK, ZerosOK,
                                Outside, IsInner
<1>9. ASSUME NEW q \in AllPages, access'[t][q] # "none"
      PROVE  q \in Created /\ CanPin(t, q, access'[t][q] = "write")
  <2>1. q = p /\ access'[t][q] = "read"
    BY <1>3, <1>9
  <2> QED BY <2>1 DEF CanPin
<1> QED BY <1>1, <1>2, <1>3, <1>4, <1>5, <1>8, <1>9, QuietStep

LEMMA FindChildStep ==
  ASSUME TreeInv, NEW t \in Threads, FindChild(t)
  PROVE  TreeInv'
<1> DEFINE p == ChildOf(Here(t), Key(t))
           sum == accumulated[t]
           upserts == node[p].upserts
           value == ValueIn(node[p].pairs, Key(t))
           found == IF Key(t) \in DOMAIN upserts THEN upserts[Key(t)].type ELSE "nothing"
           more == IF found = "update" THEN upserts[Key(t)].value ELSE 0
<1>1. UNCHANGED tree /\ CanPin(t, p, FALSE)
  BY DEF FindChild
<1>2. \/ pc[t] = "root" /\ ~IsLeaf(Root)
      \/ pc[t] = "find"
  BY DEF FindChild, At
<1>3. pc[t] # "client"
  BY <1>2
<1>4. p \in Created \ {Root}
  <2>1. CASE pc[t] = "root" /\ ~IsLeaf(Root)
    <3>1. current[t] = Root /\ IsBranch(node[Root]) /\ Root \in Created
      BY <2>1, AtRootFacts, PageNumbers
    <3> QED BY <3>1, ChildInTree DEF Here
  <2>2. CASE pc[t] = "find"
    <3>1. current[t] \in Created \ {Root} /\ IsInner(current[t])
      BY <2>2, InCall DEF FindOK
    <3>2. IsBranch(node[current[t]])
      BY <3>1, PageShape
    <3> QED BY <3>1, <3>2, ChildInTree DEF Here
  <2> QED BY <1>2, <2>1, <2>2
<1>5. IF IsLeaf(p)
      THEN IF value # None THEN Answer(t, value + sum)
           ELSE IF sum = 0 THEN Answer(t, None) ELSE Fail(t)
      ELSE IF node[p] = Zeros THEN Fail(t)
      ELSE CASE found = "insert" -> Answer(t, upserts[Key(t)].value + sum)
             [] found = "erase" -> Answer(t, None)
             [] OTHER ->
                  /\ accumulated' = [accumulated EXCEPT ![t] = @ + more]
                  /\ Holds(t, {p}, {})
                  /\ current' = [current EXCEPT ![t] = p]
                  /\ Go(t, "find")
                  /\ UNCHANGED <<client, exclusiveMode, mode, queue>>
  BY DEF FindChild
<1> HIDE DEF p, sum, upserts, value, found, more
<1>6. CASE IsLeaf(p)
  BY <1>1, <1>3, <1>5, <1>6, QuietAnswer, FailStep
<1>7. CASE ~IsLeaf(p) /\ node[p] = Zeros
  BY <1>3, <1>5, <1>7, FailStep
<1>8. CASE ~IsLeaf(p) /\ node[p] # Zeros
  <2>1. CASE found = "insert"
    BY <1>1, <1>3, <1>5, <1>8, <2>1, QuietAnswer
  <2>2. CASE found = "erase"
    BY <1>1, <1>3, <1>5, <1>8, <2>2, QuietAnswer
  <2>3. CASE found \notin {"insert", "erase"}
    <3>1. /\ accumulated' = [accumulated EXCEPT ![t] = @ + more]
          /\ Holds(t, {p}, {})
          /\ current' = [current EXCEPT ![t] = p]
          /\ pc' = [pc EXCEPT ![t] = "find"]
          /\ UNCHANGED <<client, exclusiveMode, mode, queue>>
      BY <1>5, <1>8, <2>3 DEF Go
    <3>2. IsInner(p)
      BY <1>4, <1>8, PageShape
    <3>3. DOMAIN accumulated' = Threads
      BY <3>1 DEF TreeInv, LocalTypes
    <3> QED BY <1>1, <1>3, <1>4, <3>1, <3>2, <3>3, FindOnStep
  <2> QED BY <2>1, <2>2, <2>3
<1> QED BY <1>6, <1>7, <1>8

(***************************************************************************)
(* Pages that are dropped and read again, and a restart.                   *)
(***************************************************************************)
LEMMA PagesSame ==
  ASSUME TreeInv, Created' = Created, \A p \in Created : IsInner(p)' <=> IsInner(p),
         \A p \in Created : node'[p] # node[p] => ~IsBranch(node'[p]) /\ NodeOK(p, node'[p], Created \ {Root}),
         \A p \in DOMAIN stale' :
           p \in Created \ {Root} /\ LeafOK(node'[p]) /\ (LeafOK(stale'[p]) \/ stale'[p] = Zeros)
  PROVE  PagesOK'
<1>1. /\ Created = 1 .. Cardinality(Created) /\ Cardinality(Created) \in 1 .. MaxPages
      /\ \A p \in Created : NodeOK(p, node[p], Created \ {Root}) /\ SiblingsOK(p)
  BY DEF TreeInv, PagesOK
<1>2. ASSUME NEW p \in Created PROVE NodeOK(p, node'[p], Created \ {Root})
  BY <1>1
<1>3. ASSUME NEW p \in Created PROVE SiblingsOK(p)'
  <2> SUFFICES ASSUME IsBranch(node'[p])
               PROVE  \A q, r \in Range(node'[p].children) : IsInner(q)' <=> IsInner(r)'
    BY DEF SiblingsOK
  <2>1. node'[p] = node[p]
    OBVIOUS
  <2>2. PICK b \in BOOLEAN : BranchOK(node[p], Kin(b))
    BY <2>1, BranchKin
  <2>3. Range(node[p].children) \in SUBSET Kin(b)
    BY <2>2, RangeOfSeq DEF BranchOK
  <2> QED BY <2>1, <2>3 DEF Kin
<1> QED BY <1>1, <1>2, <1>3 DEF PagesOK

(* Dropping pages and reading what the file has of them: leaves, or zeros *)
(* nobody has locked.                                                     *)
LEMMA DroppedStep ==
  ASSUME TreeInv, NEW pages \in SUBSET DOMAIN stale, Dropped(pages), rootLeaf' = rootLeaf,
         \A p \in pages, u \in Threads : access[u][p] = "none",
         UNCHANGED <<access, client, locals>>
  PROVE  /\ LocalTypes' /\ LocksOK' /\ PagesOK' /\ \A u \in Threads : ThreadOK(u)'
         /\ IsLeaf(Root)' <=> IsLeaf(Root)
<1>1. /\ LocalTypes /\ LocksOK /\ Root \in Created
      /\ \A p \in DOMAIN stale :
           p \in Created \ {Root} /\ LeafOK(node[p]) /\ (LeafOK(stale[p]) \/ stale[p] = Zeros)
  BY PageNumbers DEF TreeInv, PagesOK
<1> DEFINE back == Restrict(stale, pages)
           rest == Restrict(stale, DOMAIN stale \ pages)
<1>2. /\ DOMAIN back = pages /\ \A p \in pages : back[p] = stale[p]
      /\ DOMAIN rest = DOMAIN stale \ pages /\ \A p \in DOMAIN stale \ pages : rest[p] = stale[p]
  BY DEF Restrict
<1>3. node' = back ++ node /\ stale' = rest
  BY DEF Dropped
<1> HIDE DEF back, rest
<1>4. /\ Created' = Created
      /\ \A p \in pages : node'[p] = stale[p]
      /\ \A p \in Created \ pages : node'[p] = node[p]
  <2>1. /\ DOMAIN node' = DOMAIN back \cup DOMAIN node
        /\ \A p \in DOMAIN back : node'[p] = back[p]
        /\ \A p \in DOMAIN node \ DOMAIN back : node'[p] = node[p]
    BY <1>3, OverIs DEF Over
  <2>2. pages \subseteq DOMAIN node
    BY <1>1 DEF Created
  <2> QED BY <1>2, <2>1, <2>2 DEF Created
<1>5. ASSUME NEW p \in pages
      PROVE  /\ p \in Created \ {Root} /\ ~IsInner(p) /\ ~IsInner(p)' /\ ~IsBranch(node'[p])
             /\ NodeOK(p, node'[p], Created \ {Root})
  <2>1. /\ p \in Created \ {Root} /\ LeafOK(node[p]) /\ node'[p] = stale[p]
        /\ LeafOK(stale[p]) \/ stale[p] = Zeros
    BY <1>1, <1>4
  <2>2. node[p].type = "leaf" /\ node'[p].type \in {"leaf", "zeros"}
    BY <2>1 DEF LeafOK, Zeros
  <2> QED BY <2>1, <2>2 DEF IsInner, IsBranch, NodeOK
<1>6. \A p \in Created : IsInner(p)' <=> IsInner(p)
  BY <1>4, <1>5 DEF IsInner
<1>7. PagesOK'
  <2>1. \A p \in Created :
          node'[p] # node[p] => ~IsBranch(node'[p]) /\ NodeOK(p, node'[p], Created \ {Root})
    BY <1>4, <1>5
  <2>2. \A p \in DOMAIN stale' :
          p \in Created \ {Root} /\ LeafOK(node'[p]) /\ (LeafOK(stale'[p]) \/ stale'[p] = Zeros)
    BY <1>1, <1>2, <1>3, <1>4
  <2> QED BY <1>4, <1>6, <2>1, <2>2, PagesSame
<1>8. PagesGrow
  BY <1>4, <1>6 DEF PagesGrow
<1>9. ASSUME NEW u \in Threads PROVE ThreadOK(u)'
  <2>1. Stays(u)
    BY DEF Stays, client, locals
  <2>2. \A p \in Created : access[u][p] # "none" => node'[p] = node[p]
    BY <1>4
  <2> QED BY <1>8, <2>1, <2>2, ThreadKept
<1>10. LocalTypes' /\ LocksOK'
  BY <1>1, <1>4 DEF LocalTypes, LocksOK, client, locals
<1>11. node'[Root] = node[Root]
  BY <1>1, <1>4, <1>5
<1> QED BY <1>7, <1>9, <1>10, <1>11 DEF IsLeaf

LEMMA EvictStep == ASSUME TreeInv, Evict PROVE TreeInv'
<1>1. PICK pages \in SUBSET DOMAIN stale :
        (\A p \in pages, t \in Threads : access[t][p] = "none") /\ Dropped(pages)
  BY DEF Evict
<1>2. Open /\ UNCHANGED header /\ rootLeaf' = rootLeaf /\ UNCHANGED <<access, client, locals>>
  BY DEF Evict, header
<1>3. /\ LocalTypes' /\ LocksOK' /\ PagesOK' /\ \A u \in Threads : ThreadOK(u)'
      /\ IsLeaf(Root)' <=> IsLeaf(Root)
  BY <1>1, <1>2, DroppedStep
<1>4. HeaderOK'
  BY <1>2, <1>3, HeaderStep
<1> QED BY <1>3, <1>4 DEF TreeInv

LEMMA CloseStep == ASSUME TreeInv, Close PROVE TreeInv'
<1>1. /\ Dropped(DOMAIN stale) /\ rootLeaf' = rootLeaf /\ headerFile' = Header
      /\ UNCHANGED <<access, client, locals>> /\ \A t \in Threads : pc[t] = "client"
  BY DEF Close, At
<1>2. \A p \in DOMAIN stale, u \in Threads : access[u][p] = "none"
  <2>1. \A p \in DOMAIN stale : p \in AllPages
    BY PageNumbers DEF TreeInv, PagesOK
  <2> QED BY <1>1, <2>1 DEF TreeInv, ThreadOK, StartOK, Outside, HasOnly
<1>3. /\ LocalTypes' /\ LocksOK' /\ PagesOK' /\ \A u \in Threads : ThreadOK(u)'
      /\ IsLeaf(Root)' <=> IsLeaf(Root)
  BY <1>1, <1>2, DroppedStep
<1>4. HeaderOK'
  <2>1. headerFile'.rootLeaf = rootLeaf
    BY <1>1 DEF Header
  <2>2. \A t \in Threads : pc'[t] = "client"
    BY <1>1 DEF locals
  <2>3. rootLeaf \in BOOLEAN /\ (rootLeaf <=> IsLeaf(Root))
    BY DEF TreeInv, HeaderOK
  <2> QED BY <1>1, <1>3, <2>1, <2>2, <2>3 DEF HeaderOK, At
<1> QED BY <1>3, <1>4 DEF TreeInv

LEMMA ReopenStep == ASSUME TreeInv, Reopen PROVE TreeInv'
<1>1. /\ node' = node /\ stale' = stale /\ access' = access /\ call' = call /\ message' = message
      /\ UNCHANGED locals /\ headerFile' = None /\ ~Open /\ rootLeaf' = headerFile.rootLeaf
  BY DEF Reopen
<1>2. rootLeaf' = rootLeaf /\ rootLeaf \in BOOLEAN /\ (rootLeaf <=> IsLeaf(Root))
  BY <1>1 DEF TreeInv, HeaderOK
<1>3. Created' = Created
  BY <1>1 DEF Created
<1>4. LocalTypes' /\ LocksOK'
  BY <1>1, <1>3 DEF TreeInv, LocalTypes, LocksOK, locals
<1>5. PagesOK'
  BY <1>1, PagesStay
<1>6. HeaderOK'
  BY <1>1, <1>2 DEF HeaderOK, IsLeaf, Open
<1>7. ASSUME NEW u \in Threads PROVE ThreadOK(u)'
  <2>1. Stays(u) /\ PagesGrow
    BY <1>1, <1>2, <1>3 DEF Stays, locals, PagesGrow, IsInner
  <2> QED BY <1>1, <2>1, ThreadKept
<1> QED BY <1>4, <1>5, <1>6, <1>7 DEF TreeInv

LEMMA IdleStep == ASSUME TreeInv, UNCHANGED vars PROVE TreeInv'
<1>1. /\ node' = node /\ stale' = stale /\ access' = access /\ call' = call /\ message' = message
      /\ UNCHANGED locals /\ headerFile' = headerFile /\ rootLeaf' = rootLeaf
  BY DEF vars, state, tree, header, client
<1>2. Created' = Created
  BY <1>1 DEF Created
<1>3. LocalTypes' /\ LocksOK'
  BY <1>1, <1>2 DEF TreeInv, LocalTypes, LocksOK, locals
<1>4. PagesOK'
  BY <1>1, PagesStay
<1>5. HeaderOK'
  BY <1>1 DEF TreeInv, HeaderOK, IsLeaf, Open, At, locals
<1>6. ASSUME NEW u \in Threads PROVE ThreadOK(u)'
  <2>1. Stays(u) /\ PagesGrow
    BY <1>1, <1>2 DEF Stays, locals, PagesGrow, IsInner
  <2> QED BY <1>1, <2>1, ThreadKept
<1> QED BY <1>3, <1>4, <1>5, <1>6 DEF TreeInv

(***************************************************************************)
(* Steps that change nodes: those in new, the last k of them on new pages. *)
(***************************************************************************)
NewPages(new, k) ==
  /\ DOMAIN new \subseteq 1 .. Fresh + k - 1 /\ Fresh .. Fresh + k - 1 \subseteq DOMAIN new
  /\ Fresh + k - 1 <= MaxPages
  /\ \A p \in DOMAIN new \cap Created : (new[p].type = "inner") <=> IsInner(p)
NewNodes(new) == \A p \in DOMAIN new : \E b \in BOOLEAN : NodeOK(p, new[p], Kin(b)')
Locked(t, new) == \A p \in DOMAIN new \cap Created : access[t][p] = "write"
StaleOK ==
  \A p \in DOMAIN stale :
    p \in Created \ {Root} /\ LeafOK(node[p]) /\ (LeafOK(stale[p]) \/ stale[p] = Zeros)

(* Writing pages: those of the tree that are left out stay as they are, new *)
(* ones come behind the last page, and no page changes from an inner node   *)
(* to another kind.                                                         *)
LEMMA WriteFacts ==
  ASSUME TreeInv, NEW new, NEW k \in Nat, NewPages(new, k), node' = new ++ node
  PROVE  /\ Created' = 1 .. Fresh + k - 1 /\ Cardinality(Created') = Fresh + k - 1
         /\ Created \subseteq Created' /\ Created' \subseteq AllPages
         /\ \A p \in DOMAIN new : node'[p] = new[p] /\ p \in Created'
         /\ \A p \in Created' \ DOMAIN new : node'[p] = node[p] /\ p \in Created
         /\ \A p \in Created : IsInner(p)' <=> IsInner(p)
         /\ \A b \in BOOLEAN : Kin(b) \subseteq Kin(b)'
<1>1. Created = 1 .. Fresh - 1 /\ Fresh \in Nat /\ Fresh >= 1 /\ MaxPages \in Nat
  BY PageNumbers DEF Root
<1>2. /\ DOMAIN node' = DOMAIN new \cup Created
      /\ \A p \in DOMAIN new : node'[p] = new[p]
      /\ \A p \in Created \ DOMAIN new : node'[p] = node[p]
  BY OverIs DEF Over, Created
<1> DEFINE last == Fresh + k - 1
<1>3. last \in Nat /\ last >= Fresh - 1 /\ last <= MaxPages
  BY <1>1 DEF NewPages
<1>4. /\ DOMAIN new \subseteq 1 .. last /\ Fresh .. last \subseteq DOMAIN new
  BY DEF NewPages
<1> HIDE DEF last
<1>5. 1 .. last = (1 .. Fresh - 1) \cup (Fresh .. last)
  BY <1>1, <1>3
<1>6. Created' = 1 .. last
  <2>1. DOMAIN node' = 1 .. last
    BY <1>1, <1>2, <1>4, <1>5
  <2> QED BY <2>1 DEF Created
<1>7. Cardinality(1 .. last) = last
  BY <1>3, FS_Interval
<1>8. Created \subseteq Created' /\ Created' \subseteq AllPages
  BY <1>1, <1>3, <1>5, <1>6 DEF AllPages
<1>9. \A p \in Created : IsInner(p)' <=> IsInner(p)
  BY <1>2 DEF IsInner, NewPages
<1>10. \A b \in BOOLEAN : Kin(b) \subseteq Kin(b)'
  BY <1>8, <1>9 DEF Kin
<1>11. \A p \in Created' \ DOMAIN new : p \in Created
  BY <1>1, <1>4, <1>5, <1>6
<1> QED BY <1>2, <1>4, <1>6, <1>7, <1>8, <1>9, <1>10, <1>11 DEF last

(* A page that has children has one more child than pivots. *)
LEMMA NodeBranch ==
  ASSUME NEW p, NEW n, NEW below, NodeOK(p, n, below), IsBranch(n)
  PROVE  BranchOK(n, below)
BY DEF NodeOK, LeafOK, InnerOK, RootOK, Zeros, IsBranch

(* New contents of the right shape keep the shape of the tree. *)
LEMMA WritePages ==
  ASSUME TreeInv, NEW new, NEW k \in Nat, NewPages(new, k), node' = new ++ node,
         NewNodes(new), StaleOK'
  PROVE  PagesOK'
<1>1. /\ Created' = 1 .. Fresh + k - 1 /\ Cardinality(Created') = Fresh + k - 1
      /\ \A p \in DOMAIN new : node'[p] = new[p] /\ p \in Created'
      /\ \A p \in Created' \ DOMAIN new : node'[p] = node[p] /\ p \in Created
      /\ Created \subseteq Created'
  BY WriteFacts
<1>2. \A b \in BOOLEAN : Kin(b) \subseteq Kin(b)'
  BY WriteFacts
<1>3. \A b \in BOOLEAN : Kin(b)' \subseteq Created' \ {Root}
  BY DEF Kin
<1>4. ASSUME NEW p \in Created'
      PROVE  NodeOK(p, node'[p], Created' \ {Root})
  <2>1. CASE p \in DOMAIN new
    <3>1. PICK b \in BOOLEAN : NodeOK(p, new[p], Kin(b)')
      BY <2>1 DEF NewNodes
    <3> QED BY <1>1, <1>3, <2>1, <3>1, NodeMonotonic
  <2>2. CASE p \notin DOMAIN new
    <3>1. NodeOK(p, node[p], Created \ {Root}) /\ node'[p] = node[p]
      BY <1>1, <2>2 DEF TreeInv, PagesOK
    <3>2. Created \ {Root} \subseteq Created' \ {Root}
      BY <1>1
    <3> QED BY <3>1, <3>2, NodeMonotonic
  <2> QED BY <2>1, <2>2
<1>5. ASSUME NEW p \in Created', IsBranch(node'[p])
      PROVE  \E b \in BOOLEAN : BranchOK(node'[p], Kin(b)')
  <2>1. CASE p \in DOMAIN new
    <3>1. PICK b \in BOOLEAN : NodeOK(p, new[p], Kin(b)')
      BY <2>1 DEF NewNodes
    <3>2. IsBranch(new[p])
      BY <1>1, <1>5, <2>1
    <3>3. BranchOK(new[p], Kin(b)')
      BY <3>1, <3>2, NodeBranch
    <3> QED BY <1>1, <2>1, <3>3
  <2>2. CASE p \notin DOMAIN new
    <3>1. p \in Created /\ node'[p] = node[p] /\ IsBranch(node[p])
      BY <1>1, <1>5, <2>2
    <3>2. PICK b \in BOOLEAN : BranchOK(node[p], Kin(b))
      BY <3>1, BranchKin
    <3>3. BranchOK(node[p], Kin(b)')
      BY <1>2, <3>2, BranchMonotonic
    <3> QED BY <3>1, <3>3
  <2> QED BY <2>1, <2>2
<1>6. ASSUME NEW p \in Created' PROVE SiblingsOK(p)'
  <2>1. CASE IsBranch(node'[p])
    <3>1. PICK b \in BOOLEAN : BranchOK(node'[p], Kin(b)')
      BY <1>5, <2>1
    <3>2. Range(node'[p].children) \in SUBSET Kin(b)'
      BY <3>1, RangeOfSeq DEF BranchOK
    <3> QED BY <3>2 DEF SiblingsOK, Kin
  <2>2. CASE ~IsBranch(node'[p])
    BY <2>2 DEF SiblingsOK
  <2> QED BY <2>1, <2>2
<1>7. Fresh + k - 1 \in 1 .. MaxPages
  <2>1. Fresh \in Nat /\ Fresh > 1 /\ Fresh + k - 1 <= MaxPages /\ MaxPages \in Nat
    BY PageNumbers DEF NewPages, Root
  <2> QED BY <2>1
<1>8. Created' = 1 .. Cardinality(Created') /\ Cardinality(Created') \in 1 .. MaxPages
  BY <1>1, <1>7
<1> QED BY <1>4, <1>6, <1>8 DEF PagesOK, StaleOK

(* Written pages leave stale, in which only leaves remain. *)
LEMMA WriteStale ==
  ASSUME TreeInv, NEW new, NEW k \in Nat, NewPages(new, k), Write(new)
  PROVE  StaleOK' /\ node' = new ++ node
<1>1. node' = new ++ node
  BY DEF Write
<1>2. /\ \A p \in DOMAIN new : node'[p] = new[p]
      /\ \A p \in Created' \ DOMAIN new : node'[p] = node[p]
      /\ Created \subseteq Created'
  BY <1>1, WriteFacts
<1>3. StaleOK
  BY DEF TreeInv, PagesOK, StaleOK
<1>4. /\ DOMAIN stale' = {p \in DOMAIN stale : p \notin DOMAIN new \/ new[p] = node[p]}
      /\ \A p \in DOMAIN stale' : stale'[p] = stale[p]
  BY DEF Write, Restrict
<1>5. ASSUME NEW p \in DOMAIN stale'
      PROVE  p \in DOMAIN stale /\ p \in Created' /\ node'[p] = node[p] /\ stale'[p] = stale[p]
  BY <1>2, <1>3, <1>4 DEF StaleOK
<1>6. StaleOK'
  BY <1>3, <1>5 DEF StaleOK
<1> QED BY <1>1, <1>6

(* The thread changed what it had locked, and is done. *)
LEMMA DoneStep ==
  ASSUME TreeInv, NEW t \in Threads, pc[t] # "client", NEW new, NEW k \in Nat,
         NewPages(new, k), NewNodes(new), Locked(t, new), node' = new ++ node, StaleOK',
         OthersStay(t), LocalTypes', LocksOK', ThreadOK(t)',
         rootLeaf' \in BOOLEAN, rootLeaf' <=> IsLeaf(Root)', rootLeaf' => rootLeaf,
         headerFile' = headerFile
  PROVE  TreeInv'
<1>1. PagesOK'
  BY WritePages
<1>2. /\ Created \subseteq Created' /\ \A p \in Created : IsInner(p)' <=> IsInner(p)
      /\ \A p \in Created' \ DOMAIN new : node'[p] = node[p]
  BY WriteFacts
<1>3. OthersPages(t)
  BY <1>2 DEF OthersPages, PagesGrow, Locked
<1>4. HeaderOK'
  <2>1. Open
    BY InCall
  <2> QED BY <2>1 DEF HeaderOK, Open
<1> QED BY <1>1, <1>3, <1>4, TreeStep

(* A step that writes pages it has locked, and then answers. *)
LEMMA ChangeStep ==
  ASSUME TreeInv, NEW t \in Threads, pc[t] # "client", NEW new, NEW k \in Nat,
         NewPages(new, k), NewNodes(new), Locked(t, new), node' = new ++ node, StaleOK',
         Answer(t, None),
         rootLeaf' \in BOOLEAN, rootLeaf' <=> IsLeaf(Root)', rootLeaf' => rootLeaf,
         headerFile' = headerFile
  PROVE  TreeInv'
<1>1. Created \subseteq Created'
  BY WriteFacts
<1>2. OthersStay(t) /\ LocalTypes' /\ LocksOK' /\ ThreadOK(t)'
  BY <1>1, AnswerStep
<1> QED BY <1>2, DoneStep

(* It goes on with a queue of nodes. *)
QueueOK(t, e) ==
  /\ e.page \in Created' \ {Root} /\ IsInner(e.page)' /\ DOMAIN e.messages # {}
  /\ e.page \in Created => access[t][e.page] = "write"

(* A step that writes pages it has locked, and goes on with the queue, or *)
(* answers when the queue is empty.                                       *)
LEMMA ContinueStep ==
  ASSUME TreeInv, NEW t \in Threads, pc[t] # "client", NEW new, NEW k \in Nat,
         NewPages(new, k), NewNodes(new), Locked(t, new), Write(new), UNCHANGED header,
         IsLeaf(Root)' <=> IsLeaf(Root), ~rootLeaf,
         NEW S, NEW newQueue \in Seq(S), \A e \in S : QueueOK(t, e),
         Continue(t, newQueue)
  PROVE  TreeInv'
<1>1. node' = new ++ node /\ StaleOK'
  BY WriteStale
<1>2. /\ rootLeaf' = rootLeaf /\ headerFile' = headerFile
      /\ rootLeaf' \in BOOLEAN /\ (rootLeaf' <=> IsLeaf(Root)')
  BY DEF header, TreeInv, HeaderOK
<1>3. CASE newQueue = <<>>
  <2>1. Answer(t, None)
    BY <1>3 DEF Continue
  <2> QED BY <1>1, <1>2, <2>1, ChangeStep
<1>4. CASE newQueue # <<>>
  <2>1. Flushes(t, newQueue)
    BY <1>4 DEF Continue
  <2>2. Created \subseteq Created' /\ Created' \subseteq AllPages
    BY <1>1, WriteFacts
  <2>3. LocalTypes
    BY InCall
  <2>4. /\ access' \in [Threads -> [AllPages -> {"none", "read", "write"}]]
        /\ \A u \in Threads \ {t} : access'[u] = access[u]
        /\ \A p \in AllPages : access'[t][p] = IF p \in Pages(newQueue) THEN "write" ELSE "none"
    BY <2>1, HoldsRow DEF Flushes
  <2>5. newQueue \in Seq(Range(newQueue)) /\ Range(newQueue) \in SUBSET S
    BY SeqOfRange, RangeOfSeq
  <2>6. /\ \A e \in Range(newQueue) : e.page \in Pages(newQueue)
        /\ \A p \in Pages(newQueue) : \E e \in Range(newQueue) : p = e.page
    BY DEF Pages, Range
  <2>7. OthersStay(t)
    BY <2>1, <2>3, <2>4 DEF Flushes, OthersStay, Stays, LocalTypes, Go, client
  <2>8. LocalTypes'
    BY <2>1, <2>3 DEF Flushes, LocalTypes, Go, Labels, client
  <2>9. pc'[t] = "flush" /\ queue'[t] = newQueue
    BY <2>1, <2>3 DEF Flushes, LocalTypes, Go
  <2>10. ASSUME NEW p \in AllPages, access'[t][p] # "none"
         PROVE  /\ p \in Created' /\ IsInner(p)'
                /\ p \notin Created \/ access[t][p] = "write"
    <3>1. PICK e \in Range(newQueue) : p = e.page
      BY <2>4, <2>6, <2>10
    <3>2. QueueOK(t, e)
      BY <2>5
    <3> QED BY <3>1, <3>2 DEF QueueOK, IsInner
  <2>11. LocksOK'
    BY <2>2, <2>4, <2>10, LocksStep
  <2>12. \A e \in Range(newQueue) : EntryOK(t, e)'
    <3>1. ASSUME NEW e \in Range(newQueue) PROVE EntryOK(t, e)'
      <4>1. QueueOK(t, e) /\ e.page \in Pages(newQueue)
        BY <2>5, <2>6
      <4> QED BY <2>2, <2>4, <4>1 DEF QueueOK, EntryOK, IsInner
    <3> QED BY <3>1
  <2>13. ThreadOK(t)'
    <3>1. FlushOK(t)'
      <4>1. \A p \in AllPages : access'[t][p] # "read"
        BY <2>4
      <4> QED BY <1>2, <1>4, <2>5, <2>9, <2>12, <4>1 DEF FlushOK
    <3>2. ZerosOK(t)'
      BY <2>10 DEF ZerosOK, IsInner, Zeros
    <3>3. StartOK(t)'
      BY <2>9 DEF StartOK, Outside
    <3> QED BY <2>9, <3>1, <3>2, <3>3 DEF ThreadOK, RootStepOK, TargetOK, FindOK
  <2> QED BY <1>1, <1>2, <2>7, <2>8, <2>11, <2>13, DoneStep
<1> QED BY <1>3, <1>4

(***************************************************************************)
(* The steps that change nodes.                                            *)
(***************************************************************************)
LEMMA SamePages ==
  ASSUME TreeInv, NEW new, DOMAIN new \subseteq Created,
         \A p \in DOMAIN new : (new[p].type = "inner") <=> IsInner(p)
  PROVE  NewPages(new, 0)
<1>1. Created = 1 .. Fresh - 1 /\ Fresh \in Nat /\ Fresh > 1 /\ Created \subseteq 1 .. MaxPages
      /\ MaxPages \in Nat
  BY PageNumbers DEF Root, AllPages
<1>2. Fresh - 1 \in Created
  BY <1>1
<1>3. Fresh + 0 - 1 = Fresh - 1 /\ Fresh .. Fresh - 1 = {} /\ Fresh - 1 <= MaxPages
  BY <1>1, <1>2
<1> QED BY <1>1, <1>3 DEF NewPages

(* A leaf is a node of the right shape, at every page. *)
LEMMA LeafNode ==
  ASSUME NEW p, NEW pairs, NEW below
  PROVE  NodeOK(p, Leaf(pairs), below) /\ LeafOK(Leaf(pairs)) /\ Leaf(pairs).type = "leaf"
BY DEF NodeOK, LeafOK, Leaf

(* A root that is written stays a leaf, or stays none. *)
LEMMA RootStays ==
  ASSUME TreeInv, NEW new, node' = new ++ node,
         Root \in DOMAIN new => (new[Root].type = "leaf" <=> IsLeaf(Root))
  PROVE  IsLeaf(Root)' <=> IsLeaf(Root)
<1>1. Root \in DOMAIN node
  BY PageNumbers DEF Created
<1>2. node'[Root] = IF Root \in DOMAIN new THEN new[Root] ELSE node[Root]
  BY <1>1, OverIs DEF Over
<1> QED BY <1>2 DEF IsLeaf

(* ChangeStep, for a step that leaves the header alone. *)
LEMMA ChangeKept ==
  ASSUME TreeInv, NEW t \in Threads, pc[t] # "client", NEW new, NEW k \in Nat,
         NewPages(new, k), NewNodes(new), Locked(t, new), Change(t, new), UNCHANGED header,
         Root \in DOMAIN new => (new[Root].type = "leaf" <=> IsLeaf(Root))
  PROVE  TreeInv'
<1>1. node' = new ++ node /\ StaleOK' /\ Answer(t, None)
  BY WriteStale DEF Change
<1>2. IsLeaf(Root)' <=> IsLeaf(Root)
  BY <1>1, RootStays
<1>3. /\ rootLeaf' = rootLeaf /\ headerFile' = headerFile
      /\ rootLeaf' \in BOOLEAN /\ (rootLeaf' <=> IsLeaf(Root)')
  BY <1>2 DEF header, TreeInv, HeaderOK
<1> QED BY <1>1, <1>3, ChangeStep

(* A leaf has other pairs. *)
LEMMA LeafChanged ==
  ASSUME TreeInv, NEW t \in Threads, pc[t] # "client", NEW p \in Created, IsLeaf(p),
         access[t][p] = "write", NEW pairs, Change(t, Only(p, Leaf(pairs))), UNCHANGED header
  PROVE  TreeInv'
<1> DEFINE new == Only(p, Leaf(pairs))
<1>1. DOMAIN new = {p} /\ new[p] = Leaf(pairs)
  BY DEF Only
<1> HIDE DEF new
<1>2. Leaf(pairs).type = "leaf" /\ ~IsInner(p)
  BY LeafNode DEF IsLeaf, IsInner
<1>3. NewPages(new, 0)
  BY <1>1, <1>2, SamePages
<1>4. NewNodes(new)
  BY <1>1, LeafNode DEF NewNodes
<1>5. Locked(t, new)
  BY <1>1 DEF Locked
<1>6. Root \in DOMAIN new => (new[Root].type = "leaf" <=> IsLeaf(Root))
  BY <1>1, <1>2
<1>7. Change(t, new)
  BY DEF new
<1> QED BY <1>3, <1>4, <1>5, <1>6, <1>7, ChangeKept

LEMMA RootLeafKeepsStep ==
  ASSUME TreeInv, NEW t \in Threads, RootLeafKeeps(t)
  PROVE  TreeInv'
<1>1. pc[t] = "root" /\ Upserting(t) /\ IsLeaf(Root)
  BY DEF RootLeafKeeps, At
<1>2. access[t][Root] = "write" /\ Root \in Created
  BY <1>1, AtRootFacts, PageNumbers
<1>3. Change(t, Only(Root, Leaf(Apply(Here(t).pairs, Alone(t))))) /\ UNCHANGED header
  BY DEF RootLeafKeeps
<1> QED BY <1>1, <1>2, <1>3, LeafChanged

(* What a thread finds that looks at a page below the root. *)
LEMMA AtTargetFacts ==
  ASSUME TreeInv, NEW t \in Threads, pc[t] = "target"
  PROVE  /\ ~rootLeaf /\ ~IsLeaf(Root) /\ current[t] \in Created \ {Root}
         /\ access[t][current[t]] = "write"
         /\ exclusiveMode[t] =>
              access[t][Root] = "write" /\ current[t] \in Range(node[Root].children)
BY InCall DEF TargetOK, HeaderOK

LEMMA TargetLeafKeepsStep ==
  ASSUME TreeInv, NEW t \in Threads, TargetLeafKeeps(t)
  PROVE  TreeInv'
<1>1. pc[t] = "target" /\ IsLeaf(current[t])
  BY DEF TargetLeafKeeps, AtLeaf, At
<1>2. access[t][current[t]] = "write" /\ current[t] \in Created
  BY <1>1, AtTargetFacts
<1>3. Change(t, Only(current[t], Leaf(Apply(Here(t).pairs, Alone(t))))) /\ UNCHANGED header
  BY DEF TargetLeafKeeps
<1> QED BY <1>1, <1>2, <1>3, LeafChanged

(* The buffer of an inner node changes. *)
LEMMA InnerWritten ==
  ASSUME TreeInv, NEW t \in Threads, NEW p \in Created \ {Root}, IsInner(p),
         access[t][p] = "write", NEW upserts, NEW new, new = Only(p, WithUpserts(node[p], upserts)),
         node' = new ++ node
  PROVE  /\ NewPages(new, 0) /\ NewNodes(new) /\ Locked(t, new) /\ Root \notin DOMAIN new
         /\ node'[p].type = "inner"
<1>1. DOMAIN new = {p} /\ new[p] = WithUpserts(node[p], upserts)
  BY DEF Only
<1>2. PICK b \in BOOLEAN : BranchOK(node[p], Kin(b))
  BY PageShape, BranchKin
<1>3. InnerOK(node[p], Kin(b))
  BY <1>2, PageShape DEF InnerOK
<1>4. InnerOK(new[p], Kin(b))
  BY <1>1, <1>3, WithUpsertsShape
<1>5. new[p].type = "inner"
  BY <1>4 DEF InnerOK
<1>6. NewPages(new, 0)
  BY <1>1, <1>5, SamePages
<1>7. /\ Kin(b) \subseteq Kin(b)' /\ node'[p].type = "inner"
  BY <1>1, <1>5, <1>6, WriteFacts
<1>8. NodeOK(p, new[p], Kin(b)')
  BY <1>4, <1>7, NodeMonotonic DEF NodeOK
<1>9. NewNodes(new)
  BY <1>1, <1>8 DEF NewNodes
<1>10. Locked(t, new)
  BY <1>1 DEF Locked
<1> QED BY <1>1, <1>6, <1>7, <1>9, <1>10

LEMMA StoreUpsertStep ==
  ASSUME TreeInv, NEW t \in Threads, StoreUpsert(t)
  PROVE  TreeInv'
<1> DEFINE p == current[t]
           upserts == MergeUpserts(Alone(t), node[p].upserts)
           new == Only(p, WithUpserts(node[p], upserts))
<1>1. pc[t] = "target" /\ IsInner(p)
  BY DEF StoreUpsert, AtInner, At
<1>2. access[t][p] = "write" /\ p \in Created \ {Root}
  BY <1>1, AtTargetFacts
<1>3. Change(t, new) /\ UNCHANGED header
  BY DEF StoreUpsert, WithUpserts, Here
<1>4. node' = new ++ node
  BY <1>3 DEF Change, Write
<1> HIDE DEF p, upserts
<1>5. NewPages(new, 0) /\ NewNodes(new) /\ Locked(t, new) /\ Root \notin DOMAIN new
  BY <1>1, <1>2, <1>4, InnerWritten
<1> HIDE DEF new
<1> QED BY <1>1, <1>3, <1>5, ChangeKept

(* A leaf at the root that splits becomes a root with two leaves below it. *)
LEMMA TwoLeaves ==
  ASSUME NEW median, NEW a, NEW b, NEW below, a \in below, b \in below
  PROVE  RootOK(RootNode(<<median>>, <<a, b>>), below)
<1>1. <<median>> \in Seq(Range(<<median>>)) /\ Len(<<median>>) = 1
  <2>1. median \in Range(<<median>>)
    BY DEF Range
  <2> QED BY <2>1
<1>2. <<a, b>> \in Seq(below) /\ Len(<<a, b>>) = 2
  OBVIOUS
<1>3. Branch(<<median>>, <<a, b>>, below)
  BY <1>1, <1>2 DEF Branch
<1> QED BY <1>3, NodeOfShape

LEMMA RootLeafSplitsStep ==
  ASSUME TreeInv, NEW t \in Threads, RootLeafSplits(t)
  PROVE  TreeInv'
<1> DEFINE median == LeafMedian(Here(t).pairs, Alone(t))
           left == Apply(UpTo(Here(t).pairs, median), UpTo(Alone(t), median))
           right == Apply(Above(Here(t).pairs, median), Above(Alone(t), median))
           F == Fresh
           root == RootNode(<<median>>, <<F + 1, F>>)
           new == Only(Root, root) ++ Only(F, Leaf(right)) ++ Only(F + 1, Leaf(left))
<1>1. pc[t] = "root" /\ Upserting(t) /\ IsLeaf(Root)
  BY DEF RootLeafSplits, At
<1>2. access[t][Root] = "write" /\ rootLeaf \in BOOLEAN /\ rootLeaf
  BY <1>1, AtRootFacts DEF HeaderOK
<1>3. /\ Root \in Created /\ Created = 1 .. F - 1 /\ F \in Nat /\ F > Root /\ Root = 1
  BY PageNumbers DEF Root
<1>4. /\ F + 1 <= MaxPages /\ Change(t, new) /\ rootLeaf' = FALSE /\ headerFile' = headerFile
  BY DEF RootLeafSplits
<1> HIDE DEF median, left, right
<1>5. /\ DOMAIN new = {Root, F, F + 1}
      /\ new[Root] = root /\ new[F] = Leaf(right) /\ new[F + 1] = Leaf(left)
  <2>1. F # Root /\ F + 1 # Root /\ F + 1 # F
    BY <1>3
  <2> QED BY <2>1, OverIs DEF Over, Only
<1> HIDE DEF new
<1>6. root.type = "root" /\ ~IsInner(Root)
  BY RootShape DEF RootNode
<1> HIDE DEF root
<1>7. NewPages(new, 2)
  <2>1. {Root, F, F + 1} \subseteq 1 .. F + 2 - 1 /\ F .. F + 2 - 1 = {F, F + 1} /\ F + 2 - 1 <= MaxPages
    BY <1>3, <1>4
  <2>2. {Root, F, F + 1} \cap Created = {Root}
    BY <1>3
  <2>3. \A p \in DOMAIN new \cap Created : (new[p].type = "inner") <=> IsInner(p)
    BY <1>5, <1>6, <2>2
  <2> QED BY <1>5, <2>1, <2>3 DEF NewPages, F
<1>8. /\ node' = new ++ node /\ StaleOK' /\ Answer(t, None)
  BY <1>4, <1>7, WriteStale DEF Change
<1>9. \A p \in DOMAIN new : node'[p] = new[p] /\ p \in Created'
  BY <1>7, <1>8, WriteFacts
<1> HIDE DEF F
<1>10. F \in Kin(FALSE)' /\ F + 1 \in Kin(FALSE)'
  <2>1. node'[F].type = "leaf" /\ node'[F + 1].type = "leaf"
    BY <1>5, <1>9, LeafNode
  <2> QED BY <1>3, <1>5, <1>9, <2>1 DEF Kin, IsInner
<1>11. RootOK(root, Kin(FALSE)')
  <2> HIDE DEF Kin
  <2> QED BY <1>10, TwoLeaves DEF root
<1>12. NewNodes(new)
  <2> HIDE DEF Kin
  <2>1. NodeOK(Root, new[Root], Kin(FALSE)')
    BY <1>5, <1>11 DEF NodeOK
  <2>2. NodeOK(F, new[F], Kin(FALSE)') /\ NodeOK(F + 1, new[F + 1], Kin(FALSE)')
    BY <1>5, LeafNode
  <2> QED BY <1>5, <2>1, <2>2 DEF NewNodes
<1>13. Locked(t, new)
  <2>1. {Root, F, F + 1} \cap Created = {Root}
    BY <1>3
  <2> QED BY <1>2, <1>5, <2>1 DEF Locked
<1>14. ~IsLeaf(Root)'
  BY <1>5, <1>6, <1>9 DEF IsLeaf
<1> QED BY <1>1, <1>2, <1>4, <1>7, <1>8, <1>12, <1>13, <1>14, ChangeStep

LEMMA SplitRootStep ==
  ASSUME TreeInv, NEW t \in Threads, SplitRoot(t)
  PROVE  TreeInv'
<1> DEFINE n == node[Root]
           F == Fresh
           k == Parts(n)
           root == RootOfParts(n, F)
           target == ChildOf(root, Key(t))
           part(p) == PartOfRoot(n, p - F + 1)
           mine(p) == IF p = target THEN WithUpserts(part(p), Alone(t)) ELSE part(p)
           new == [p \in {Root} \cup ToSet(root.children) |-> IF p = Root THEN root ELSE mine(p)]
<1>1. pc[t] = "root" /\ ~IsLeaf(Root) /\ exclusiveMode[t] /\ RootIsFull
  BY DEF SplitRoot, AtRoot, At
<1>2. current[t] = Root /\ access[t][Root] = "write" /\ IsBranch(n)
  BY <1>1, AtRootFacts
<1>3. /\ Root \in Created /\ Created = 1 .. F - 1 /\ F \in Nat /\ F > Root /\ Root = 1
  BY PageNumbers DEF Root
<1>4. F + k - 1 <= MaxPages /\ Change(t, new) /\ UNCHANGED header
  BY <1>2 DEF SplitRoot, Here, WithUpserts
<1>5. PICK b \in BOOLEAN : BranchOK(n, Kin(b))
  BY <1>2, <1>3, BranchKin
<1>6. Len(n.pivots) >= 1
  BY <1>1, SizesAssumption DEF RootIsFull
<1>7. k \in Nat \ {0}
  BY <1>5, <1>6, PartsNumber
<1> HIDE DEF n, F, k, target
<1>8. ToSet(root.children) = F .. F + k - 1
  <2>1. F .. F + Parts(n) - 1 \subseteq Nat
    BY <1>3, <1>7 DEF k
  <2> QED BY <1>3, <1>5, <1>6, <2>1, RootOfPartsShape DEF k
<1> HIDE DEF root
<1>9. /\ DOMAIN new = {Root} \cup (F .. F + k - 1) /\ new[Root] = root
      /\ \A p \in F .. F + k - 1 : new[p] = mine(p) /\ p # Root
  BY <1>3, <1>7, <1>8
<1> HIDE DEF new
<1>10. \A p \in F .. F + k - 1 : InnerOK(mine(p), Kin(b))
  <2>1. ASSUME NEW p \in F .. F + k - 1 PROVE InnerOK(part(p), Kin(b))
    <3>1. p - F + 1 \in 1 .. Parts(n)
      BY <1>3, <1>7 DEF k
    <3> HIDE DEF Kin
    <3> QED BY <1>5, <1>6, <3>1, PartOfRootShape
  <2> HIDE DEF Kin, part
  <2> QED BY <2>1, WithUpsertsShape
<1>11. RootOK(root, F .. F + k - 1)
  BY <1>3, <1>5, <1>6, RootOfPartsShape DEF root, k
<1> HIDE DEF mine
<1>12. NewPages(new, k)
  <2>1. {Root} \cup (F .. F + k - 1) \subseteq 1 .. F + k - 1
    BY <1>3, <1>7
  <2>2. ({Root} \cup (F .. F + k - 1)) \cap Created = {Root}
    BY <1>3, <1>7
  <2>3. root.type # "inner" /\ ~IsInner(Root)
    BY <1>11, RootShape DEF RootOK
  <2>4. \A p \in DOMAIN new \cap Created : (new[p].type = "inner") <=> IsInner(p)
    BY <1>9, <2>2, <2>3
  <2> QED BY <1>4, <1>9, <2>1, <2>4 DEF NewPages, F
<1>13. node' = new ++ node
  BY <1>4 DEF Change, Write
<1>14. /\ \A p \in DOMAIN new : node'[p] = new[p] /\ p \in Created'
       /\ Kin(b) \subseteq Kin(b)'
  BY <1>7, <1>12, <1>13, WriteFacts
<1>15. F .. F + k - 1 \subseteq Kin(TRUE)'
  <2>1. ASSUME NEW p \in F .. F + k - 1 PROVE p \in Kin(TRUE)'
    <3>1. p \in Created' /\ p # Root /\ node'[p] = mine(p)
      BY <1>9, <1>14
    <3>2. mine(p).type = "inner"
      BY <1>10 DEF InnerOK
    <3> QED BY <3>1, <3>2 DEF Kin, IsInner
  <2> QED BY <2>1
<1>16. NewNodes(new)
  <2>1. NodeOK(Root, new[Root], Kin(TRUE)')
    <3>1. NodeOK(Root, root, F .. F + k - 1)
      BY <1>11 DEF NodeOK
    <3> HIDE DEF Kin
    <3> QED BY <1>9, <1>15, <3>1, NodeMonotonic
  <2>2. ASSUME NEW p \in F .. F + k - 1 PROVE NodeOK(p, new[p], Kin(b)')
    <3>1. NodeOK(p, new[p], Kin(b))
      BY <1>9, <1>10 DEF NodeOK
    <3> HIDE DEF Kin
    <3> QED BY <1>14, <3>1, NodeMonotonic
  <2> QED BY <1>9, <2>1, <2>2 DEF NewNodes
<1>17. Locked(t, new)
  <2>1. ({Root} \cup (F .. F + k - 1)) \cap Created = {Root}
    BY <1>3, <1>7
  <2> QED BY <1>2, <1>9, <2>1 DEF Locked
<1>18. new[Root].type = "leaf" <=> IsLeaf(Root)
  BY <1>1, <1>9, <1>11 DEF RootOK
<1> QED BY <1>1, <1>4, <1>7, <1>12, <1>16, <1>17, <1>18, ChangeKept

(* Children of node q are split, or changed, and q refers to the new ones.  *)
Half(t, p, n, inner) ==
  /\ p # Root /\ \E b \in BOOLEAN : NodeOK(p, n, Kin(b))
  /\ p \in Created => access[t][p] = "write" /\ ((n.type = "inner") <=> IsInner(p))
  /\ p \notin Created => ((n.type = "inner") <=> inner)

Splitting(t, q, splits, new, k, inner) ==
  /\ DOMAIN new \subseteq 1 .. Fresh + k - 1 /\ Fresh .. Fresh + k - 1 \subseteq DOMAIN new
  /\ Fresh + k - 1 <= MaxPages
  /\ \A i \in DOMAIN splits : splits[i].page \in Fresh .. Fresh + k - 1
  /\ \A p \in DOMAIN new : \/ p = q /\ new[p] = InsertPivots(node[q], splits)
                           \/ Half(t, p, new[p], inner)

(* When children of a node split, and it receives their pivots, all written  *)
(* pages have the right shape: insertPivots adds as many pivots as children. *)
LEMMA ChildrenSplit ==
  ASSUME TreeInv, NEW t \in Threads, NEW q \in Created, access[t][q] = "write",
         NEW b \in BOOLEAN, BranchOK(node[q], Kin(b)), IsBranch(node[q]),
         NEW k \in Nat, NEW splits, NEW new, Splitting(t, q, splits, new, k, b),
         node' = new ++ node
  PROVE  /\ NewPages(new, k) /\ NewNodes(new) /\ Locked(t, new)
         /\ Root \in DOMAIN new => ((new[Root].type = "leaf") <=> IsLeaf(Root))
<1> DEFINE F == Fresh
           n == node[q]
           m == InsertPivots(n, splits)
<1>1. /\ Created = 1 .. F - 1 /\ F \in Nat /\ F > Root /\ Root = 1
  BY PageNumbers DEF Root
<1>2. \/ q = Root /\ RootOK(n, Created \ {Root}) /\ n = RootNode(n.pivots, n.children)
      \/ q # Root /\ InnerOK(n, Created \ {Root}) /\ n = Inner(n.pivots, n.children, n.upserts)
  <2>1. NodeOK(q, n, Created \ {Root})
    BY DEF TreeInv, PagesOK
  <2> QED BY <2>1 DEF NodeOK, LeafOK, Zeros, IsBranch, RootOK, InnerOK
<1>0. /\ DOMAIN new \subseteq 1 .. F + k - 1 /\ F .. F + k - 1 \subseteq DOMAIN new
      /\ F + k - 1 <= MaxPages
      /\ \A i \in DOMAIN splits : splits[i].page \in F .. F + k - 1
      /\ \A p \in DOMAIN new : (p = q /\ new[p] = m) \/ Half(t, p, new[p], b)
  BY DEF Splitting
<1> HIDE DEF n
<1>3. /\ (m.type = "inner") <=> IsInner(q)
      /\ m.type # "leaf"
      /\ \A below : Branch(m.pivots, m.children, below) => NodeOK(q, m, below)
  <2>0. /\ n = Inner(n.pivots, n.children, n.upserts) =>
              m = Inner(m.pivots, m.children, n.upserts)
        /\ n = RootNode(n.pivots, n.children) => m = RootNode(m.pivots, m.children)
    <3> DEFINE U == (Created \ {Root}) \cup (F .. F + k - 1)
    <3>1. BranchOK(n, U)
      <4>1. Kin(b) \subseteq U
        BY DEF Kin
      <4> HIDE DEF Kin, U
      <4> QED BY <4>1, BranchMonotonic DEF n
    <3>2. \A i \in DOMAIN splits : splits[i].page \in U
      BY <1>0
    <3> HIDE DEF U
    <3> QED BY <1>2, <3>1, <3>2, InsertedShape
  <2> HIDE DEF m
  <2>1. CASE q = Root /\ n = RootNode(n.pivots, n.children)
    <3>1. m = RootNode(m.pivots, m.children) /\ ~IsInner(q)
      BY <2>0, <2>1, RootShape
    <3>2. \A below : Branch(m.pivots, m.children, below) => RootOK(m, below)
      BY <3>1, NodeOfShape
    <3>3. m.type = "root"
      BY <3>1 DEF RootNode
    <3> QED BY <2>1, <3>1, <3>2, <3>3 DEF NodeOK
  <2>2. CASE q # Root /\ InnerOK(n, Created \ {Root}) /\ n = Inner(n.pivots, n.children, n.upserts)
    <3>1. m = Inner(m.pivots, m.children, n.upserts) /\ IsInner(q)
      BY <2>0, <2>2 DEF InnerOK, IsInner, n
    <3>2. \A below : Branch(m.pivots, m.children, below) => InnerOK(m, below)
      BY <3>1, NodeOfShape
    <3>3. m.type = "inner"
      BY <3>1 DEF Inner
    <3> QED BY <2>2, <3>1, <3>2, <3>3 DEF NodeOK
  <2> QED BY <1>2, <2>1, <2>2
<1>4. \A p \in DOMAIN new : (p = q /\ new[p] = m) \/ Half(t, p, new[p], b)
  BY <1>0
<1> HIDE DEF m
<1>5. NewPages(new, k)
  <2>1. \A p \in DOMAIN new \cap Created : (new[p].type = "inner") <=> IsInner(p)
    BY <1>3, <1>4 DEF Half
  <2> QED BY <1>0, <2>1 DEF NewPages
<1>6. /\ \A p \in DOMAIN new : node'[p] = new[p] /\ p \in Created'
      /\ \A d \in BOOLEAN : Kin(d) \subseteq Kin(d)'
  BY <1>5, WriteFacts
<1>7. \A p \in F .. F + k - 1 : p \in Kin(b)'
  <2>1. ASSUME NEW p \in F .. F + k - 1 PROVE p \in Kin(b)'
    <3>1. p \in DOMAIN new /\ p \notin Created /\ p # Root
      BY <1>0, <1>1
    <3>2. (new[p].type = "inner") <=> b
      BY <1>4, <3>1 DEF Half
    <3> QED BY <1>6, <3>1, <3>2 DEF Kin, IsInner
  <2> QED BY <2>1
<1>8. NodeOK(q, m, Kin(b)')
  <2>1. BranchOK(n, Kin(b)')
    <3> HIDE DEF Kin
    <3> QED BY <1>6, BranchMonotonic DEF n
  <2>2. \A i \in DOMAIN splits : splits[i].page \in Kin(b)'
    BY <1>0, <1>7
  <2>3. Branch(m.pivots, m.children, Kin(b)')
    <3> HIDE DEF Kin
    <3> QED BY <1>2, <2>1, <2>2, InsertedShape DEF m
  <2> QED BY <1>3, <2>3
<1>9. NewNodes(new)
  <2>1. ASSUME NEW p \in DOMAIN new, Half(t, p, new[p], b)
        PROVE  \E d \in BOOLEAN : NodeOK(p, new[p], Kin(d)')
    <3>1. PICK d \in BOOLEAN : NodeOK(p, new[p], Kin(d))
      BY <2>1 DEF Half
    <3> HIDE DEF Kin
    <3> QED BY <1>6, <3>1, NodeMonotonic
  <2> HIDE DEF Kin
  <2> QED BY <1>4, <1>8, <2>1 DEF NewNodes
<1>10. Locked(t, new)
  BY <1>4 DEF Locked, Half
<1>11. Root \in DOMAIN new => ((new[Root].type = "leaf") <=> IsLeaf(Root))
  <2> SUFFICES ASSUME Root \in DOMAIN new
               PROVE  (new[Root].type = "leaf") <=> IsLeaf(Root)
    OBVIOUS
  <2>1. Root = q /\ new[Root] = m
    BY <1>4 DEF Half
  <2>2. ~IsLeaf(Root)
    BY <2>1 DEF IsBranch, IsLeaf
  <2> QED BY <1>3, <2>1, <2>2
<1> QED BY <1>5, <1>9, <1>10, <1>11

(* The child of the root that a thread looks at is split.                   *)
TargetHalves(t, i, pivot, left, right) ==
  Only(Root, InsertPivots(node[Root], Only(i, [pivot |-> pivot, page |-> Fresh])))
    ++ Only(current[t], left) ++ Only(Fresh, right)

(* The same for the child of the root in which the second descent ends. *)
LEMMA TargetSplit ==
  ASSUME TreeInv, NEW t \in Threads, pc[t] = "target", exclusiveMode[t], Fresh <= MaxPages,
         NEW left, NEW right,
         Half(t, current[t], left, IsInner(current[t])), Half(t, Fresh, right, IsInner(current[t])),
         NEW i, NEW pivot, NEW new, new = TargetHalves(t, i, pivot, left, right),
         node' = new ++ node
  PROVE  /\ NewPages(new, 1) /\ NewNodes(new) /\ Locked(t, new)
         /\ (new[Root].type = "leaf") <=> IsLeaf(Root)
         /\ DOMAIN new = {Root, current[t], Fresh}
         /\ new[current[t]] = left /\ new[Fresh] = right
<1> DEFINE F == Fresh
           c == current[t]
           splits == Only(i, [pivot |-> pivot, page |-> F])
           m == InsertPivots(node[Root], splits)
           inner == IsInner(c)
           k == 1
<1>1. /\ access[t][Root] = "write" /\ c \in Range(node[Root].children)
      /\ ~IsLeaf(Root) /\ c \in Created \ {Root}
  BY AtTargetFacts
<1>2. /\ Created = 1 .. F - 1 /\ F \in Nat /\ F > Root /\ Root = 1 /\ Root \in Created
  BY PageNumbers DEF Root
<1>3. IsBranch(node[Root])
  BY <1>1, RootShape
<1>4. BranchOK(node[Root], Kin(inner)) /\ inner \in BOOLEAN
  <2>1. PICK b \in BOOLEAN : BranchOK(node[Root], Kin(b))
    BY <1>2, <1>3, BranchKin
  <2>2. Range(node[Root].children) \in SUBSET Kin(b)
    BY <2>1, RangeOfSeq DEF BranchOK
  <2>3. c \in Kin(b)
    BY <1>1, <2>2
  <2>4. inner = b
    BY <2>3 DEF Kin, IsInner
  <2> QED BY <2>1, <2>4
<1>5. \A j \in DOMAIN splits : splits[j].page \in F .. F + k - 1
  BY <1>2 DEF Only
<1> HIDE DEF splits
<1>6. /\ DOMAIN new = {Root, c, F}
      /\ new[Root] = m /\ new[c] = left /\ new[F] = right
  <2>1. c # Root /\ F # Root /\ F # c
    BY <1>1, <1>2
  <2>2. new = Only(Root, m) ++ Only(c, left) ++ Only(F, right)
    BY DEF splits, TargetHalves
  <2> HIDE DEF m
  <2> QED BY <2>1, <2>2, OverIs DEF Over, Only
<1> HIDE DEF m
<1>7. /\ DOMAIN new \subseteq 1 .. F + k - 1 /\ F .. F + k - 1 \subseteq DOMAIN new
      /\ F + k - 1 <= MaxPages /\ k \in Nat
  <2>1. c \in 1 .. F /\ F + 1 - 1 = F /\ F \in 1 .. F /\ Root \in 1 .. F /\ F .. F = {F}
    BY <1>1, <1>2
  <2> QED BY <1>6, <2>1
<1>8. \A p \in DOMAIN new : \/ p = Root /\ new[p] = InsertPivots(node[Root], splits)
                            \/ Half(t, p, new[p], inner)
  BY <1>6 DEF m
<1> HIDE DEF inner, F, k
<1>9. /\ NewPages(new, k) /\ NewNodes(new) /\ Locked(t, new)
      /\ Root \in DOMAIN new => ((new[Root].type = "leaf") <=> IsLeaf(Root))
  <2>1. Splitting(t, Root, splits, new, k, inner)
    <3> HIDE DEF Half
    <3> QED BY <1>5, <1>7, <1>8 DEF Splitting, F
  <2> HIDE DEF Kin
  <2> QED BY <1>1, <1>2, <1>3, <1>4, <1>7, <2>1, ChildrenSplit
<1> QED BY <1>6, <1>9 DEF F, k

(* Either half of a leaf or of an inner node may stand where its node stood. *)
LEMMA HalfIsLeaf ==
  ASSUME NEW t, NEW p, p # Root, NEW pairs, NEW inner, inner = FALSE,
         p \in Created => access[t][p] = "write" /\ ~IsInner(p)
  PROVE  Half(t, p, Leaf(pairs), inner)
<1>1. NodeOK(p, Leaf(pairs), Kin(TRUE)) /\ Leaf(pairs).type # "inner"
  BY LeafNode
<1> QED BY <1>1 DEF Half

LEMMA HalfIsInner ==
  ASSUME NEW t, NEW p, p # Root, NEW n, NEW b \in BOOLEAN, InnerOK(n, Kin(b)), NEW inner, inner = TRUE,
         p \in Created => access[t][p] = "write" /\ IsInner(p)
  PROVE  Half(t, p, n, inner)
BY DEF Half, NodeOK, InnerOK

(* A leaf that is split without a change of the pair has a half that is     *)
(* reported clean.                                                          *)
LEMMA TargetLeafSplitsStep ==
  ASSUME TreeInv, NEW t \in Threads, TargetLeafSplits(t)
  PROVE  TreeInv'
<1> DEFINE c == current[t]
           F == Fresh
           median == LeafMedian(Here(t).pairs, Alone(t))
           left == Apply(UpTo(Here(t).pairs, median), UpTo(Alone(t), median))
           right == Apply(Above(Here(t).pairs, median), Above(Alone(t), median))
           i == ChildIndex(node[Root], Key(t))
           inLeft == Key(t) <= median
           new == Only(Root, InsertPivots(node[Root], Only(i, [pivot |-> median, page |-> Fresh])))
                    ++ Only(current[t], Leaf(left)) ++ Only(Fresh, Leaf(right))
           clean == IF inLeft THEN Only(c, node[c]) ELSE Only(F, Zeros)
<1>1. pc[t] = "target" /\ IsLeaf(c) /\ exclusiveMode[t] /\ F <= MaxPages /\ Answer(t, None)
      /\ UNCHANGED header
  BY DEF TargetLeafSplits, AtLeaf, At
<1>2. \/ Write(new)
      \/ node' = new ++ node /\ stale' = clean ++ stale
  BY DEF TargetLeafSplits, Here
<1>3. node' = new ++ node
  BY <1>2 DEF Write
<1> HIDE DEF median, left, right, i, inLeft
<1>4. /\ c \in Created \ {Root} /\ access[t][c] = "write" /\ ~IsInner(c) /\ IsInner(c) = FALSE
  BY <1>1, AtTargetFacts DEF IsLeaf, IsInner
<1>5. /\ F \notin Created /\ F # Root /\ F \in Nat
  BY PageNumbers
<1>6. Half(t, c, Leaf(left), IsInner(c)) /\ Half(t, F, Leaf(right), IsInner(c))
  BY <1>4, <1>5, HalfIsLeaf
<1>7. /\ NewPages(new, 1) /\ NewNodes(new) /\ Locked(t, new)
      /\ (new[Root].type = "leaf") <=> IsLeaf(Root)
      /\ DOMAIN new = {Root, c, F}
      /\ new[c] = Leaf(left) /\ new[F] = Leaf(right)
  <2> HIDE DEF new
  <2>1. new = TargetHalves(t, i, median, Leaf(left), Leaf(right))
    BY DEF new, TargetHalves
  <2> QED BY <1>1, <1>3, <1>6, <2>1, TargetSplit
<1> HIDE DEF new
<1>8. IsLeaf(Root)' <=> IsLeaf(Root)
  BY <1>3, <1>7, RootStays
<1>9. /\ \A p \in DOMAIN new : node'[p] = new[p] /\ p \in Created'
      /\ \A p \in Created' \ DOMAIN new : node'[p] = node[p]
      /\ Created \subseteq Created'
  BY <1>3, <1>7, WriteFacts
<1>10. StaleOK'
  <2>1. CASE Write(new)
    BY <1>7, <2>1, WriteStale
  <2>2. CASE stale' = clean ++ stale
    <3>1. /\ DOMAIN clean \subseteq {c, F}
          /\ \A p \in DOMAIN clean : LeafOK(clean[p]) \/ clean[p] = Zeros
      <4>1. LeafOK(node[c])
        BY <1>1, <1>4, PageShape
      <4> QED BY <4>1 DEF Only
    <3>2. StaleOK
      BY DEF TreeInv, PagesOK, StaleOK
    <3> HIDE DEF clean
    <3>3. /\ \A p \in DOMAIN stale' : p \in DOMAIN clean \/ p \in DOMAIN stale
          /\ \A p \in DOMAIN stale' : stale'[p] = IF p \in DOMAIN clean THEN clean[p] ELSE stale[p]
      BY <2>2, OverIs DEF Over
    <3>4. LeafOK(node'[c]) /\ LeafOK(node'[F])
      BY <1>7, <1>9, LeafNode
    <3>5. ASSUME NEW p \in DOMAIN stale'
          PROVE  /\ p \in Created' \ {Root} /\ LeafOK(node'[p])
                 /\ LeafOK(stale'[p]) \/ stale'[p] = Zeros
      <4>1. CASE p \in DOMAIN clean
        BY <1>4, <1>5, <1>7, <1>9, <3>1, <3>3, <3>4, <4>1
      <4>2. CASE p \notin DOMAIN clean
        <5>1. p \in DOMAIN stale /\ stale'[p] = stale[p]
          BY <3>3, <4>2
        <5>2. p \in Created \ {Root} /\ LeafOK(node[p]) /\ (LeafOK(stale[p]) \/ stale[p] = Zeros)
          BY <3>2, <5>1 DEF StaleOK
        <5>3. LeafOK(node'[p])
          BY <1>7, <1>9, <3>4, <5>2
        <5> QED BY <1>9, <5>1, <5>2, <5>3
      <4> QED BY <4>1, <4>2
    <3> QED BY <3>5 DEF StaleOK
  <2> QED BY <1>2, <2>1, <2>2
<1>11. /\ rootLeaf' = rootLeaf /\ headerFile' = headerFile
       /\ rootLeaf' \in BOOLEAN /\ (rootLeaf' <=> IsLeaf(Root)')
  BY <1>1, <1>8 DEF header, TreeInv, HeaderOK
<1> QED BY <1>1, <1>3, <1>7, <1>10, <1>11, ChangeStep

(***************************************************************************)
(* Flushes.                                                                *)
(***************************************************************************)
LEMMA EntryFacts ==
  ASSUME NEW page, NEW messages
  PROVE  /\ Entry(page, messages) \in Seq(Range(Entry(page, messages)))
         /\ \A e \in Range(Entry(page, messages)) : e.page = page /\ DOMAIN e.messages # {}
<1> DEFINE entry == [page |-> page, messages |-> messages]
<1>1. CASE DOMAIN messages # {}
  <2>1. Entry(page, messages) = <<entry>>
    BY <1>1 DEF Entry, OneIf
  <2>2. Range(<<entry>>) = {entry}
    BY DEF Range
  <2>3. entry.page = page /\ entry.messages = messages
    OBVIOUS
  <2> HIDE DEF entry
  <2> QED BY <1>1, <2>1, <2>2, <2>3
<1>2. CASE DOMAIN messages = {}
  <2>1. Entry(page, messages) = <<>>
    BY <1>2 DEF Entry, OneIf
  <2>2. Range(<<>>) = {}
    BY DEF Range
  <2> QED BY <2>1, <2>2
<1> QED BY <1>1, <1>2

(* What a split puts into the queue names one of the halves, and has *)
(* messages for it.                                                  *)
LEMMA SplitEntriesFacts ==
  ASSUME NEW left, NEW right, NEW pivot, NEW messages
  PROVE  LET new == SplitEntries(left, right, pivot, messages) IN
         /\ new \in Seq(Range(new))
         /\ \A e \in Range(new) : e.page \in {left, right} /\ DOMAIN e.messages # {}
<1> DEFINE a == Entry(left, UpTo(messages, pivot))
           b == Entry(right, Above(messages, pivot))
           S == Range(a) \cup Range(b)
<1>1. /\ a \in Seq(Range(a)) /\ b \in Seq(Range(b))
      /\ \A e \in S : e.page \in {left, right} /\ DOMAIN e.messages # {}
  BY EntryFacts
<1>2. SplitEntries(left, right, pivot, messages) = a \o b
  BY DEF SplitEntries
<1> HIDE DEF a, b
<1>3. a \in Seq(S) /\ b \in Seq(S)
  BY <1>1, SeqMonotonic
<1> HIDE DEF S
<1>4. a \o b \in Seq(S)
  BY <1>3, ConcatProperties
<1>5. a \o b \in Seq(Range(a \o b)) /\ Range(a \o b) \in SUBSET S
  BY <1>4, SeqOfRange, RangeOfSeq
<1> QED BY <1>1, <1>2, <1>5

LEMMA FlushTargetStep ==
  ASSUME TreeInv, NEW t \in Threads, FlushTarget(t)
  PROVE  TreeInv'
<1> DEFINE c == current[t]
           together == Together(Here(t), Alone(t))
<1>1. pc[t] = "target" /\ IsInner(c) /\ UNCHANGED header
  BY DEF FlushTarget, AtInner, At
<1>2. PICK removed \in Removed(Here(t), Alone(t)) :
        /\ Write(Only(c, Keep(Here(t), Alone(t), removed)))
        /\ Continue(t, Entry(c, Restrict(together, removed)))
  BY DEF FlushTarget
<1> DEFINE kept == Restrict(together, DOMAIN together \ removed)
           out == Restrict(together, removed)
           new == Only(c, WithUpserts(node[c], kept))
           newQueue == Entry(c, out)
<1>3. Write(new) /\ Continue(t, newQueue)
  BY <1>2 DEF Keep, WithUpserts, Here
<1>4. access[t][c] = "write" /\ c \in Created \ {Root} /\ ~rootLeaf
  BY <1>1, AtTargetFacts
<1>5. node' = new ++ node
  BY <1>3 DEF Write
<1> HIDE DEF c, kept, out
<1>6. /\ NewPages(new, 0) /\ NewNodes(new) /\ Locked(t, new) /\ Root \notin DOMAIN new
      /\ node'[c].type = "inner"
  BY <1>1, <1>4, <1>5, InnerWritten
<1> HIDE DEF new
<1>7. IsLeaf(Root)' <=> IsLeaf(Root)
  BY <1>5, <1>6, RootStays
<1>8. Created \subseteq Created'
  BY <1>5, <1>6, WriteFacts
<1>9. newQueue \in Seq(Range(newQueue)) /\ \A e \in Range(newQueue) : QueueOK(t, e)
  <2>1. \A e \in Range(newQueue) : e.page = c /\ DOMAIN e.messages # {}
    BY EntryFacts
  <2>2. ASSUME NEW e \in Range(newQueue) PROVE QueueOK(t, e)
    <3>1. e.page = c /\ DOMAIN e.messages # {}
      BY <2>1
    <3> QED BY <1>4, <1>6, <1>8, <3>1 DEF QueueOK, IsInner
  <2> QED BY <2>2, EntryFacts
<1> HIDE DEF newQueue
<1> QED BY <1>1, <1>3, <1>4, <1>6, <1>7, <1>9, ContinueStep

LEMMA FlushSplitTargetStep ==
  ASSUME TreeInv, NEW t \in Threads, FlushSplitTarget(t)
  PROVE  TreeInv'
<1> DEFINE c == current[t]
           F == Fresh
           together == Together(Here(t), Alone(t))
           i == ChildIndex(node[Root], Key(t))
<1>1. /\ pc[t] = "target" /\ IsInner(c) /\ UNCHANGED header /\ exclusiveMode[t] /\ F <= MaxPages
  BY DEF FlushSplitTarget, AtInner, At
<1>0. Len(node[c].pivots) = InnerN
  BY DEF FlushSplitTarget, TargetIsFull, Here
<1>2. PICK removed \in Removed(Here(t), Alone(t)) :
        LET kept == Keep(Here(t), Alone(t), removed) IN
        /\ Write(Only(Root, InsertPivots(node[Root], Only(i, [pivot |-> InnerPivot(kept), page |-> Fresh])))
                ++ Only(c, LeftInner(kept)) ++ Only(Fresh, RightInner(kept)))
        /\ Continue(t, SplitEntries(c, Fresh, InnerPivot(kept), Restrict(together, removed)))
  BY DEF FlushSplitTarget
<1> DEFINE upserts == Restrict(together, DOMAIN together \ removed)
           out == Restrict(together, removed)
           kept == WithUpserts(node[c], upserts)
           left == LeftInner(kept)
           right == RightInner(kept)
           middle == InnerPivot(kept)
           new == Only(Root, InsertPivots(node[Root], Only(i, [pivot |-> middle, page |-> Fresh])))
                ++ Only(c, left) ++ Only(Fresh, right)
           newQueue == SplitEntries(c, F, middle, out)
<1>3. Write(new) /\ Continue(t, newQueue)
  BY <1>2 DEF Keep, WithUpserts, Here
<1>4. access[t][c] = "write" /\ c \in Created \ {Root} /\ ~rootLeaf
  BY <1>1, AtTargetFacts
<1>5. node' = new ++ node
  BY <1>3 DEF Write
<1>6. /\ F \notin Created /\ F # Root /\ F \in Nat
  BY PageNumbers
<1> HIDE DEF upserts, out
<1>7. PICK b \in BOOLEAN : BranchOK(node[c], Kin(b))
  BY <1>1, <1>4, PageShape, BranchKin
<1>8. InnerOK(node[c], Kin(b))
  BY <1>1, <1>4, <1>7, PageShape DEF InnerOK
<1>9. BranchOK(kept, Kin(b)) /\ Len(kept.pivots) >= 1
  <2> HIDE DEF Kin
  <2>1. InnerOK(kept, Kin(b)) /\ kept.pivots = node[c].pivots
    BY <1>8, WithUpsertsShape
  <2> QED BY <1>0, <2>1, SizesAssumption DEF InnerOK
<1> HIDE DEF kept
<1>10. InnerOK(left, Kin(b)) /\ InnerOK(right, Kin(b))
  <2> HIDE DEF Kin
  <2> QED BY <1>9, HalvesShape
<1>11. Half(t, c, left, IsInner(c)) /\ Half(t, F, right, IsInner(c))
  <2> HIDE DEF Kin, left, right
  <2>1. IsInner(c) = TRUE
    BY <1>1 DEF IsInner
  <2> QED BY <1>4, <1>6, <1>10, <2>1, HalfIsInner
<1> HIDE DEF left, right, middle, i
<1>12. /\ NewPages(new, 1) /\ NewNodes(new) /\ Locked(t, new)
       /\ (new[Root].type = "leaf") <=> IsLeaf(Root)
       /\ DOMAIN new = {Root, c, F}
       /\ new[c] = left /\ new[F] = right
  <2> HIDE DEF new
  <2>1. new = TargetHalves(t, i, middle, left, right)
    BY DEF new, TargetHalves
  <2>2. /\ NewPages(new, 1) /\ NewNodes(new) /\ Locked(t, new)
        /\ (new[Root].type = "leaf") <=> IsLeaf(Root)
        /\ DOMAIN new = {Root, current[t], Fresh}
        /\ new[current[t]] = left /\ new[Fresh] = right
    <3>1. pc[t] = "target" /\ exclusiveMode[t] /\ Fresh <= MaxPages
      BY <1>1
    <3>2. Half(t, current[t], left, IsInner(current[t])) /\ Half(t, Fresh, right, IsInner(current[t]))
      BY <1>11
    <3> HIDE DEF c, F, new
    <3> QED BY <1>5, <2>1, <3>1, <3>2, TargetSplit
  <2> QED BY <2>2
<1> HIDE DEF new
<1>13. IsLeaf(Root)' <=> IsLeaf(Root)
  BY <1>5, <1>12, RootStays
<1>14. \A p \in {c, F} : p \in Created' \ {Root} /\ IsInner(p)' /\ (p \in Created => access[t][p] = "write")
  <2>1. \A p \in DOMAIN new : node'[p] = new[p] /\ p \in Created'
    BY <1>5, <1>12, WriteFacts
  <2>2. left.type = "inner" /\ right.type = "inner"
    BY <1>10 DEF InnerOK
  <2> QED BY <1>4, <1>6, <1>12, <2>1, <2>2 DEF IsInner
<1>15. newQueue \in Seq(Range(newQueue)) /\ \A e \in Range(newQueue) : QueueOK(t, e)
  <2>1. \A e \in Range(newQueue) : e.page \in {c, F} /\ DOMAIN e.messages # {}
    BY SplitEntriesFacts
  <2>2. ASSUME NEW e \in Range(newQueue) PROVE QueueOK(t, e)
    <3>1. e.page \in {c, F} /\ DOMAIN e.messages # {}
      BY <2>1
    <3> QED BY <1>14, <3>1 DEF QueueOK, IsInner
  <2> QED BY <2>2, SplitEntriesFacts
<1> HIDE DEF newQueue
<1> QED BY <1>1, <1>3, <1>4, <1>12, <1>13, <1>15, ContinueStep

(* The children a node is flushed to, and the pages of their right halves.  *)
LEMMA TargetsFinite ==
  ASSUME TreeInv, NEW t \in Threads, pc[t] = "flush"
  PROVE  /\ Targets(t) \in SUBSET (Nat \ {0}) /\ IsFiniteSet(Targets(t)) /\ Targets(t) # {}
         /\ Max(Targets(t)) \in Targets(t)
<1> DEFINE n == node[Flushed(t)]
           L == Len(n.pivots)
           T == Targets(t)
           top == L + 1
           D == {top - i : i \in T}
<1>1. PICK b \in BOOLEAN : BranchOK(n, Kin(b))
  BY FlushFacts, BranchKin
<1>2. L \in Nat /\ DOMAIN n.children = 1 .. L + 1
  BY <1>1, BranchFacts
<1>3. \A i \in T : i \in DOMAIN n.children
  BY FlushFacts
<1> HIDE DEF n, L
<1>4. T \in SUBSET (1 .. top) /\ top \in Nat
  BY <1>2, <1>3
<1> HIDE DEF top
<1>5. DOMAIN ToFlush(t) # {}
  BY FlushFacts DEF EntryOK, ToFlush
<1>6. T # {}
  <2>1. PICK k \in DOMAIN ToFlush(t) : TRUE
    BY <1>5
  <2>2. IndexOf(t, k) \in T
    BY <2>1 DEF Targets
  <2> QED BY <2>2
<1>7. IsFiniteSet(T)
  <2>1. IsFiniteSet(1 .. top)
    BY <1>4, FS_Interval
  <2> QED BY <1>4, <2>1, FS_Subset
<1> HIDE DEF T
<1>8. \E m \in T : \A i \in T : m >= i
  <2>1. D \subseteq Nat /\ D # {}
    <3>1. \A i \in T : top - i \in Nat
      BY <1>4
    <3> QED BY <1>6, <3>1
  <2>2. PICK d \in D : \A e \in D : d <= e
    <3> HIDE DEF D
    <3> QED BY <2>1, LeastNat
  <2>3. PICK m \in T : d = top - m
    BY <2>2
  <2>4. \A i \in T : d <= top - i
    BY <2>2
  <2> QED BY <1>4, <2>3, <2>4
<1>9. Max(T) \in T
  BY <1>8 DEF Max
<1> QED BY <1>4, <1>6, <1>7, <1>9 DEF T

(* The right halves of children that split go to new pages, one each, in the *)
(* order of the children.                                                    *)
LEMMA RightHalves ==
  ASSUME TreeInv, NEW split \in SUBSET (Nat \ {0}), IsFiniteSet(split)
  PROVE  /\ Cardinality(split) \in Nat
         /\ RightPages(split) = Fresh .. Fresh + Cardinality(split) - 1
         /\ \A i \in split : Right(split, i) \in RightPages(split)
         /\ \A p \in RightPages(split) : Split(split, p) \in split
         /\ \A p \in RightPages(split) : p \notin Created /\ p # Root
         /\ RightPages(split) \subseteq 1 .. MaxPages => Fresh + Cardinality(split) - 1 <= MaxPages
<1> DEFINE k == Cardinality(split)
           F == Fresh
<1>1. k \in Nat
  BY FS_CardinalityType
<1>2. /\ Created = 1 .. F - 1 /\ F \in Nat /\ F > Root /\ Root = 1 /\ MaxPages \in Nat
      /\ Created \subseteq 1 .. MaxPages
  BY PageNumbers DEF Root, AllPages
<1>3. RightPages(split) = F .. F + k - 1
  BY DEF RightPages
<1>4. split \in SUBSET Nat
  OBVIOUS
<1>5. \A i \in split : Right(split, i) = F + Rank(split, i)
  BY DEF Right, Rank
<1>6. \A i \in split : Rank(split, i) \in 0 .. k - 1
  BY <1>4, RankBounds
<1> HIDE DEF k, F
<1>7. \A i \in split : Right(split, i) \in F .. F + k - 1
  BY <1>1, <1>2, <1>5, <1>6
<1>8. ASSUME NEW p \in F .. F + k - 1 PROVE Split(split, p) \in split
  <2>1. p - F \in 0 .. k - 1
    BY <1>1, <1>2
  <2>2. PICK i \in split : Rank(split, i) = p - F
    BY <1>4, <2>1, RankOnto DEF k
  <2>3. Right(split, i) = p
    BY <1>2, <1>5, <2>2
  <2> QED BY <2>3 DEF Split
<1>9. \A p \in F .. F + k - 1 : p \notin Created /\ p # Root
  BY <1>1, <1>2
<1>10. F .. F + k - 1 \subseteq 1 .. MaxPages => F + k - 1 <= MaxPages
  <2>1. CASE k = 0
    <3>1. F - 1 \in Created
      BY <1>2
    <3> QED BY <1>2, <2>1, <3>1
  <2>2. CASE k # 0
    <3>1. F + k - 1 \in F .. F + k - 1
      BY <1>1, <1>2, <2>2
    <3> QED BY <3>1
  <2> QED BY <2>1, <2>2
<1> QED BY <1>1, <1>3, <1>7, <1>8, <1>9, <1>10 DEF k, F

(* A node that is flushed, and its children.                                *)
FlushedPages(t, rights, lefts, splits) ==
  rights ++ lefts ++ Only(Flushed(t), InsertPivots(node[Flushed(t)], splits))
Flushing(t, split, rights, lefts, splits, inner) ==
  /\ split \in SUBSET Targets(t) /\ RightPages(split) \subseteq 1 .. MaxPages
  /\ DOMAIN rights = RightPages(split) /\ DOMAIN lefts = LeftPages(t) /\ DOMAIN splits = split
  /\ \A i \in split : splits[i].page = Right(split, i)
  /\ \A p \in RightPages(split) : Half(t, p, rights[p], inner)
  /\ \A p \in LeftPages(t) : Half(t, p, lefts[p], inner)

(* When all children that messages go to are locked, they are locked *)
(* exclusively, and they are all leaves or all inner nodes.          *)
LEMMA ReadyFacts ==
  ASSUME TreeInv, NEW t \in Threads, Ready(t)
  PROVE  /\ pc[t] = "flush"
         /\ \A p \in LeftPages(t) : p \in Created \ {Root} /\ access[t][p] = "write"
         /\ \A i \in Targets(t) : Child(t, i) \in Created \ {Root}
         /\ \A p \in LeftPages(t) : ChildAt(t, p) \in Targets(t) /\ Child(t, ChildAt(t, p)) = p
         /\ \E b \in BOOLEAN :
              /\ BranchOK(node[Flushed(t)], Kin(b)) /\ (LeavesBelow(t) <=> ~b)
              /\ \A p \in LeftPages(t) : IsInner(p) <=> b
<1>1. pc[t] = "flush" /\ Unlocked(t) = {}
  BY DEF Ready, At
<1>2. /\ \A i \in Targets(t) :
              /\ Child(t, i) \in Created \ {Root} /\ Child(t, i) \in Range(node[Flushed(t)].children)
      /\ \A p \in AllPages : access[t][p] \in {"none", "write"}
      /\ ZerosOK(t) /\ Targets(t) # {}
      /\ Created \subseteq AllPages
  BY <1>1, FlushFacts, TargetsFinite, InCall, PageNumbers
<1>3. \A i \in Targets(t) : access[t][Child(t, i)] = "write"
  BY <1>1, <1>2 DEF Unlocked
<1>4. \A p \in LeftPages(t) : ChildAt(t, p) \in Targets(t) /\ Child(t, ChildAt(t, p)) = p
  BY DEF LeftPages, ChildAt
<1>5. PICK b \in BOOLEAN : BranchOK(node[Flushed(t)], Kin(b))
  BY <1>1, FlushFacts, BranchKin
<1>6. \A i \in Targets(t) : Child(t, i) \in Kin(b)
  <2>1. Range(node[Flushed(t)].children) \in SUBSET Kin(b)
    BY <1>5, RangeOfSeq DEF BranchOK
  <2> QED BY <1>2, <2>1
<1>7. \A i \in Targets(t) : (IsInner(Child(t, i)) <=> b) /\ (IsInner(Child(t, i)) <=> ~IsLeaf(Child(t, i)))
  <2>1. ASSUME NEW i \in Targets(t)
        PROVE  IsInner(Child(t, i)) <=> ~IsLeaf(Child(t, i))
    <3>1. node[Child(t, i)] # Zeros
      BY <1>1, <1>2, <1>3 DEF ZerosOK
    <3> QED BY <1>2, <3>1, PageShape
  <2> QED BY <1>6, <2>1 DEF Kin
<1>8. LeavesBelow(t) <=> ~b
  BY <1>2, <1>7 DEF LeavesBelow
<1>9. \A p \in LeftPages(t) : IsInner(p) <=> b
  BY <1>7 DEF LeftPages
<1>10. \A p \in LeftPages(t) : p \in Created \ {Root} /\ access[t][p] = "write"
  BY <1>2, <1>3 DEF LeftPages
<1> QED BY <1>1, <1>2, <1>4, <1>5, <1>8, <1>9, <1>10

(* A flush from a node to its children writes pages of the right shape only, *)
(* whether they take the messages or split.                                  *)
LEMMA FlushDown ==
  ASSUME TreeInv, NEW t \in Threads, Ready(t),
         NEW b \in BOOLEAN, BranchOK(node[Flushed(t)], Kin(b)),
         NEW split, NEW rights, NEW lefts, NEW splits, Flushing(t, split, rights, lefts, splits, b),
         NEW new, new = FlushedPages(t, rights, lefts, splits), node' = new ++ node
  PROVE  /\ NewPages(new, Cardinality(split)) /\ Cardinality(split) \in Nat
         /\ NewNodes(new) /\ Locked(t, new)
         /\ IsLeaf(Root)' <=> IsLeaf(Root)
         /\ \A p \in RightPages(split) : p \in Created' /\ node'[p] = rights[p]
         /\ Created \subseteq Created' /\ \A p \in Created : IsInner(p)' <=> IsInner(p)
<1> DEFINE k == Cardinality(split)
           q == Flushed(t)
           m == InsertPivots(node[q], splits)
<1>1. pc[t] = "flush" /\ \A p \in LeftPages(t) : p \in Created \ {Root}
  BY ReadyFacts
<1>2. q \in Created \ {Root} /\ access[t][q] = "write" /\ IsBranch(node[q])
  BY <1>1, FlushFacts
<1>3. split \in SUBSET (Nat \ {0}) /\ IsFiniteSet(split)
  BY <1>1, TargetsFinite, FS_Subset DEF Flushing
<1>4. /\ k \in Nat /\ RightPages(split) = Fresh .. Fresh + k - 1
      /\ \A i \in split : Right(split, i) \in RightPages(split)
      /\ Fresh + k - 1 <= MaxPages
  BY <1>3, RightHalves DEF Flushing
<1> HIDE DEF k
<1>5. /\ DOMAIN new = RightPages(split) \cup LeftPages(t) \cup {q}
      /\ \A p \in RightPages(split) : new[p] = rights[p]
      /\ \A p \in LeftPages(t) \ RightPages(split) : new[p] = lefts[p]
      /\ q \notin RightPages(split) \cup LeftPages(t) => new[q] = m
  <2>1. new = rights ++ lefts ++ Only(q, m)
    BY DEF FlushedPages
  <2>2. DOMAIN rights = RightPages(split) /\ DOMAIN lefts = LeftPages(t)
    BY DEF Flushing
  <2> HIDE DEF q, m
  <2> QED BY <2>1, <2>2, OverIs DEF Over, Only
<1>6. Splitting(t, q, splits, new, k, b)
  <2>1. DOMAIN new \subseteq 1 .. Fresh + k - 1
    <3>1. Created = 1 .. Fresh - 1 /\ Fresh \in Nat /\ Fresh > 1
      BY PageNumbers DEF Root
    <3>2. Fresh .. Fresh + k - 1 \subseteq 1 .. Fresh + k - 1 /\ Created \subseteq 1 .. Fresh + k - 1
      BY <1>4, <3>1
    <3> QED BY <1>1, <1>2, <1>4, <1>5, <3>2
  <2>2. \A i \in DOMAIN splits : splits[i].page \in Fresh .. Fresh + k - 1
    BY <1>4 DEF Flushing
  <2>3. \A p \in DOMAIN new : (p = q /\ new[p] = m) \/ Half(t, p, new[p], b)
    <3> HIDE DEF m
    <3> QED BY <1>5 DEF Flushing
  <2>4. Fresh .. Fresh + k - 1 \subseteq DOMAIN new
    BY <1>4, <1>5
  <2> HIDE DEF q, Half
  <2> QED BY <1>4, <2>1, <2>2, <2>3, <2>4 DEF Splitting, m
<1>7. /\ NewPages(new, k) /\ NewNodes(new) /\ Locked(t, new)
      /\ Root \in DOMAIN new => ((new[Root].type = "leaf") <=> IsLeaf(Root))
  <2> HIDE DEF q, Kin
  <2>1. BranchOK(node[q], Kin(b))
    BY DEF q
  <2> QED BY <1>2, <1>4, <1>6, <2>1, ChildrenSplit
<1>8. IsLeaf(Root)' <=> IsLeaf(Root)
  BY <1>7, RootStays
<1>9. /\ Created \subseteq Created' /\ \A p \in Created : IsInner(p)' <=> IsInner(p)
      /\ \A p \in DOMAIN new : node'[p] = new[p] /\ p \in Created'
  BY <1>4, <1>7, WriteFacts
<1> QED BY <1>4, <1>5, <1>7, <1>8, <1>9 DEF k

LEMMA ChangeLeavesStep ==
  ASSUME TreeInv, NEW t \in Threads, Ready(t), LeavesBelow(t), ChangeLeaves(t)
  PROVE  TreeInv'
<1> DEFINE pairs(i) == node[Child(t, i)].pairs
           median(i) == LeafMedian(pairs(i), Addressed(t, i))
           left(i) == Apply(UpTo(pairs(i), median(i)), UpTo(Addressed(t, i), median(i)))
           right(i) == Apply(Above(pairs(i), median(i)), Above(Addressed(t, i), median(i)))
           all(i) == Apply(pairs(i), Addressed(t, i))
           rights(split) == [p \in RightPages(split) |-> Leaf(right(Split(split, p)))]
           lefts(split) == [p \in LeftPages(t) |->
              Leaf(IF ChildAt(t, p) \in split THEN left(ChildAt(t, p)) ELSE all(ChildAt(t, p)))]
           splits(split) == [i \in split |-> [pivot |-> median(i), page |-> Right(split, i)]]
           new(split) == FlushedPages(t, rights(split), lefts(split), splits(split))
<1>1. Ready(t) /\ LeavesBelow(t) /\ UNCHANGED header /\ Continue(t, Tail(queue[t]))
  BY DEF ChangeLeaves
<1>2. PICK split \in SUBSET Targets(t) : RightPages(split) \subseteq 1 .. MaxPages /\ Write(new(split))
  BY DEF ChangeLeaves, FlushedPages
<1>3. /\ pc[t] = "flush" /\ ~rootLeaf
      /\ queue[t] \in Seq(Range(queue[t])) /\ queue[t] # <<>>
      /\ \A e \in Range(queue[t]) : EntryOK(t, e)
  BY <1>1, ReadyFacts, FlushFacts
<1>4. PICK b \in BOOLEAN : BranchOK(node[Flushed(t)], Kin(b)) /\ ~b /\ \A p \in LeftPages(t) : ~IsInner(p)
  BY <1>1, ReadyFacts
<1>5. \A p \in LeftPages(t) : p \in Created \ {Root} /\ access[t][p] = "write"
  BY <1>1, ReadyFacts
<1>6. split \in SUBSET (Nat \ {0}) /\ IsFiniteSet(split)
  BY <1>3, TargetsFinite, FS_Subset
<1>7. \A p \in RightPages(split) : p \notin Created /\ p # Root
  BY <1>6, RightHalves
<1> HIDE DEF median, left, right, all
<1>8. Flushing(t, split, rights(split), lefts(split), splits(split), b)
  <2>1. \A p \in RightPages(split) : Half(t, p, rights(split)[p], b)
    BY <1>4, <1>7, HalfIsLeaf
  <2>2. \A p \in LeftPages(t) : Half(t, p, lefts(split)[p], b)
    BY <1>4, <1>5, HalfIsLeaf
  <2>3. \A i \in split : splits(split)[i].page = Right(split, i)
    OBVIOUS
  <2> QED BY <1>2, <2>1, <2>2, <2>3 DEF Flushing
<1> HIDE DEF rights, lefts, splits
<1>9. node' = new(split) ++ node
  BY <1>2 DEF Write
<1>10. /\ NewPages(new(split), Cardinality(split)) /\ Cardinality(split) \in Nat
       /\ NewNodes(new(split)) /\ Locked(t, new(split))
       /\ IsLeaf(Root)' <=> IsLeaf(Root)
       /\ Created \subseteq Created' /\ \A p \in Created : IsInner(p)' <=> IsInner(p)
  <2> HIDE DEF Kin
  <2> QED BY <1>1, <1>4, <1>8, <1>9, FlushDown
<1> HIDE DEF new
<1> DEFINE newQueue == Tail(queue[t])
<1>11. newQueue \in Seq(Range(queue[t]))
  BY <1>3, HeadTailProperties
<1>12. \A e \in Range(queue[t]) : QueueOK(t, e)
  <2>1. ASSUME NEW e \in Range(queue[t]) PROVE QueueOK(t, e)
    <3>1. EntryOK(t, e)
      BY <1>3
    <3> QED BY <1>10, <3>1 DEF EntryOK, QueueOK
  <2> QED BY <2>1
<1> HIDE DEF newQueue
<1>13. Continue(t, newQueue)
  BY <1>1 DEF newQueue
<1> QED BY <1>1, <1>2, <1>3, <1>10, <1>11, <1>12, <1>13, ContinueStep

(* Or an assertion fails before anything is changed.                        *)
LEMMA FlushToLeavesStep ==
  ASSUME TreeInv, NEW t \in Threads, FlushToLeaves(t)
  PROVE  TreeInv'
<1>1. Ready(t) /\ LeavesBelow(t) /\ (ChangeLeaves(t) \/ Fail(t))
  BY DEF FlushToLeaves
<1>2. pc[t] = "flush"
  BY <1>1, ReadyFacts
<1> QED BY <1>1, <1>2, ChangeLeavesStep, FailStep

(* A node that keeps some messages is an inner node as it was, and one that *)
(* has no room for the pivots it may need has a pivot to be split at.       *)
LEMMA KeepShape ==
  ASSUME NEW n, NEW below, InnerOK(n, below), NEW additional, NEW removed
  PROVE  /\ InnerOK(Keep(n, additional, removed), below)
         /\ Keep(n, additional, removed).pivots = n.pivots
<1> DEFINE upserts == Restrict(Together(n, additional), DOMAIN Together(n, additional) \ removed)
<1>1. Keep(n, additional, removed) = WithUpserts(n, upserts)
  BY DEF Keep, WithUpserts
<1> HIDE DEF upserts
<1> QED BY <1>1, WithUpsertsShape

(* A node that lacks room for pivots has one: it can be split. *)
LEMMA LacksPivotsLength ==
  ASSUME NEW n, NEW below, BranchOK(n, below), NEW messages, LacksPivots(n, messages)
  PROVE  Len(n.pivots) >= 1
<1> DEFINE I == {ChildIndex(n, k) : k \in DOMAIN messages}
           f == [i \in I |-> {k \in DOMAIN messages : ChildIndex(n, k) = i}]
           B == Blocks(n, messages)
           top == Len(n.pivots) + 1
<1>1. Len(n.pivots) \in Nat
  BY BranchFacts
<1>2. f \in Surjection(I, B)
  <2>1. B = {f[i] : i \in I}
    BY DEF Blocks
  <2> QED BY <2>1 DEF Surjection
<1>3. I \in SUBSET (1 .. top)
  <2>1. \A k \in DOMAIN messages : ChildIndex(n, k) \in 1 .. top
    BY ChildIndexType
  <2> HIDE DEF top
  <2> QED BY <2>1
<1>4. InnerN - Len(n.pivots) < Cardinality(B)
  BY DEF LacksPivots
<1>5. top \in Nat /\ Len(n.pivots) = top - 1
  BY <1>1
<1> HIDE DEF I, f, B, top
<1>6. IsFiniteSet(I) /\ Cardinality(I) <= top
  <2>1. IsFiniteSet(1 .. top) /\ Cardinality(1 .. top) = top
    BY <1>5, FS_Interval
  <2> QED BY <1>3, <2>1, FS_Subset
<1>7. IsFiniteSet(B) /\ Cardinality(B) <= Cardinality(I)
  BY <1>2, <1>6, FS_Surjection
<1>8. Cardinality(B) \in Nat /\ Cardinality(I) \in Nat
  BY <1>6, <1>7, FS_CardinalityType
<1> QED BY <1>4, <1>5, <1>6, <1>7, <1>8, SizesAssumption

(* What comes into the queue from several children.                        *)
LEMMA Collected ==
  ASSUME NEW n \in Nat \ {0}, NEW S, NEW s, \A i \in 1 .. n : s[i] \in Seq(S), DOMAIN s = 1 .. n,
         s = [i \in 1 .. n |-> s[i]], NEW first \in Seq(S)
  PROVE  first \o FlattenSeq(s) \in Seq(S)
<1>1. s \in [1 .. n -> Seq(S)]
  OBVIOUS
<1>2. FlattenSeq(s) \in Seq(S)
  BY <1>1, FlattenedType
<1> QED BY <1>2, ConcatProperties

LEMMA FlushToInnerStep ==
  ASSUME TreeInv, NEW t \in Threads, FlushToInner(t)
  PROVE  TreeInv'
<1> DEFINE child(i) == node[Child(t, i)]
           full == {i \in Targets(t) : ~Fits(child(i), Addressed(t, i))}
           choices(i) == Removed(child(i), Addressed(t, i))
           kept(r, i) == Keep(child(i), Addressed(t, i), IF i \in full THEN r[i] ELSE {})
           out(r, i) == Restrict(Together(child(i), Addressed(t, i)), r[i])
           splitOf(r) == {i \in full : LacksPivots(child(i), out(r, i))}
           left(r, i) == IF i \in splitOf(r) THEN LeftInner(kept(r, i)) ELSE kept(r, i)
           more(r, i) ==
             IF i \in splitOf(r)
             THEN SplitEntries(Child(t, i), Right(splitOf(r), i), InnerPivot(kept(r, i)), out(r, i))
             ELSE IF i \in full THEN Entry(Child(t, i), out(r, i)) ELSE <<>>
           top == Max(Targets(t))
           mores(r) == [i \in 1 .. top |-> IF i \in Targets(t) THEN more(r, i) ELSE <<>>]
           queueAfter(r) == Tail(queue[t]) \o FlattenSeq(mores(r))
           rightsOf(r) == [p \in RightPages(splitOf(r)) |-> RightInner(kept(r, Split(splitOf(r), p)))]
           leftsOf(r) == [p \in LeftPages(t) |-> left(r, ChildAt(t, p))]
           splitsOf(r) == [i \in splitOf(r) |->
              [pivot |-> InnerPivot(kept(r, i)), page |-> Right(splitOf(r), i)]]
           newOf(r) == FlushedPages(t, rightsOf(r), leftsOf(r), splitsOf(r))
<1>1. Ready(t) /\ ~LeavesBelow(t) /\ UNCHANGED header
  BY SMTT(30) DEF FlushToInner
<1>2. PICK r \in [full -> UNION {choices(i) : i \in full}] :
        /\ RightPages(splitOf(r)) \subseteq 1 .. MaxPages
        /\ Write(newOf(r)) /\ Continue(t, queueAfter(r))
  BY DEF FlushToInner, FlushedPages
<1>3. /\ pc[t] = "flush" /\ ~rootLeaf
      /\ queue[t] \in Seq(Range(queue[t])) /\ queue[t] # <<>>
      /\ \A e \in Range(queue[t]) : EntryOK(t, e)
  BY <1>1, ReadyFacts, FlushFacts
<1>4. PICK b \in BOOLEAN : BranchOK(node[Flushed(t)], Kin(b)) /\ b /\ \A p \in LeftPages(t) : IsInner(p)
  BY <1>1, ReadyFacts
<1>5. /\ \A p \in LeftPages(t) : p \in Created \ {Root} /\ access[t][p] = "write"
      /\ \A p \in LeftPages(t) : ChildAt(t, p) \in Targets(t) /\ Child(t, ChildAt(t, p)) = p
      /\ \A i \in Targets(t) : Child(t, i) \in LeftPages(t)
  BY <1>1, ReadyFacts DEF LeftPages
<1> DEFINE split == splitOf(r)
<1>6. split \in SUBSET Targets(t) /\ split \in SUBSET full
  OBVIOUS
<1>7. split \in SUBSET (Nat \ {0}) /\ IsFiniteSet(split)
  <2> HIDE DEF splitOf
  <2> QED BY <1>3, <1>6, TargetsFinite, FS_Subset
<1>8. \A i \in Targets(t) : \E d \in BOOLEAN : InnerOK(child(i), Kin(d))
  <2>1. ASSUME NEW i \in Targets(t) PROVE \E d \in BOOLEAN : InnerOK(child(i), Kin(d))
    <3>1. Child(t, i) \in Created \ {Root} /\ IsInner(Child(t, i))
      BY <1>4, <1>5
    <3>2. PICK d \in BOOLEAN : BranchOK(child(i), Kin(d))
      BY <3>1, PageShape, BranchKin
    <3> QED BY <3>1, <3>2, PageShape DEF InnerOK
  <2> QED BY <2>1
<1>9. \A i \in split : Len(child(i).pivots) >= 1
  <2>1. ASSUME NEW i \in split PROVE Len(child(i).pivots) >= 1
    <3>1. PICK d \in BOOLEAN : InnerOK(child(i), Kin(d))
      BY <1>8
    <3>2. LacksPivots(child(i), out(r, i))
      OBVIOUS
    <3> HIDE DEF Kin, child, out
    <3> QED BY <3>1, <3>2, LacksPivotsLength DEF InnerOK
  <2> QED BY <2>1
<1> HIDE DEF splitOf, full, out, child
<1>10. \A i \in Targets(t) : \E d \in BOOLEAN :
         /\ InnerOK(kept(r, i), Kin(d))
         /\ i \in split => InnerOK(LeftInner(kept(r, i)), Kin(d)) /\ InnerOK(RightInner(kept(r, i)), Kin(d))
  <2>1. ASSUME NEW i \in Targets(t) PROVE \E d \in BOOLEAN :
           /\ InnerOK(kept(r, i), Kin(d))
           /\ i \in split => InnerOK(LeftInner(kept(r, i)), Kin(d)) /\ InnerOK(RightInner(kept(r, i)), Kin(d))
    <3>1. PICK d \in BOOLEAN : InnerOK(child(i), Kin(d))
      BY <1>8
    <3> HIDE DEF Kin
    <3>2. InnerOK(kept(r, i), Kin(d)) /\ kept(r, i).pivots = child(i).pivots
      BY <3>1, KeepShape
    <3> HIDE DEF kept, split
    <3>3. i \in split => InnerOK(LeftInner(kept(r, i)), Kin(d)) /\ InnerOK(RightInner(kept(r, i)), Kin(d))
      BY <1>9, <3>2, HalvesShape DEF InnerOK
    <3> QED BY <3>2, <3>3
  <2> QED BY <2>1
<1> HIDE DEF kept
<1>11. /\ \A p \in RightPages(split) : p \notin Created /\ p # Root /\ Split(split, p) \in split
       /\ \A i \in split : Right(split, i) \in RightPages(split)
  BY <1>7, RightHalves
<1>12. \A p \in RightPages(split) : rightsOf(r)[p].type = "inner" /\ Half(t, p, rightsOf(r)[p], b)
  <2>1. ASSUME NEW p \in RightPages(split)
        PROVE  rightsOf(r)[p].type = "inner" /\ Half(t, p, rightsOf(r)[p], b)
    <3>1. rightsOf(r)[p] = RightInner(kept(r, Split(split, p)))
      OBVIOUS
    <3>2. PICK d \in BOOLEAN : InnerOK(RightInner(kept(r, Split(split, p))), Kin(d))
      BY <1>6, <1>10, <1>11
    <3> HIDE DEF Kin, rightsOf
    <3> QED BY <1>4, <1>11, <3>1, <3>2, HalfIsInner DEF InnerOK
  <2> QED BY <2>1
<1>13. \A p \in LeftPages(t) : Half(t, p, leftsOf(r)[p], b)
  <2>1. ASSUME NEW p \in LeftPages(t)
        PROVE  Half(t, p, leftsOf(r)[p], b)
    <3> DEFINE i == ChildAt(t, p)
    <3>1. leftsOf(r)[p] = IF i \in split THEN LeftInner(kept(r, i)) ELSE kept(r, i)
      OBVIOUS
    <3>2. PICK d \in BOOLEAN : InnerOK(leftsOf(r)[p], Kin(d))
      BY <1>5, <1>10, <3>1
    <3> HIDE DEF Kin, leftsOf
    <3> QED BY <1>4, <1>5, <3>2, HalfIsInner
  <2> QED BY <2>1
<1>14. Flushing(t, split, rightsOf(r), leftsOf(r), splitsOf(r), b)
  <2>1. /\ DOMAIN rightsOf(r) = RightPages(split) /\ DOMAIN leftsOf(r) = LeftPages(t)
        /\ DOMAIN splitsOf(r) = split
    OBVIOUS
  <2>2. \A i \in split : splitsOf(r)[i].page = Right(split, i)
    OBVIOUS
  <2> HIDE DEF rightsOf, leftsOf, splitsOf
  <2> QED BY <1>2, <1>6, <1>12, <1>13, <2>1, <2>2 DEF Flushing
<1> DEFINE new == newOf(r)
           rights == rightsOf(r)
           newQueue == queueAfter(r)
<1>15. node' = new ++ node /\ Write(new)
  BY <1>2 DEF Write
<1> HIDE DEF rightsOf, leftsOf, splitsOf, split
<1>16. /\ NewPages(new, Cardinality(split)) /\ Cardinality(split) \in Nat
       /\ NewNodes(new) /\ Locked(t, new)
       /\ IsLeaf(Root)' <=> IsLeaf(Root)
       /\ \A p \in RightPages(split) : p \in Created' /\ node'[p] = rights[p]
       /\ Created \subseteq Created' /\ \A p \in Created : IsInner(p)' <=> IsInner(p)
  <2> HIDE DEF Kin
  <2> QED BY <1>1, <1>4, <1>14, <1>15, FlushDown
<1> HIDE DEF newOf, new
<1>17. \A p \in RightPages(split) \cup LeftPages(t) :
         p \in Created' \ {Root} /\ node'[p].type = "inner" /\ (p \in Created => access[t][p] = "write")
  BY <1>4, <1>5, <1>11, <1>12, <1>16 DEF IsInner
<1>18. \A i \in Targets(t) :
         /\ more(r, i) \in Seq(Range(more(r, i)))
         /\ \A e \in Range(more(r, i)) :
              e.page \in RightPages(split) \cup LeftPages(t) /\ DOMAIN e.messages # {}
  <2>1. ASSUME NEW i \in Targets(t)
        PROVE  /\ more(r, i) \in Seq(Range(more(r, i)))
               /\ \A e \in Range(more(r, i)) :
                    e.page \in RightPages(split) \cup LeftPages(t) /\ DOMAIN e.messages # {}
    <3>1. CASE i \in split
      <4>1. more(r, i) = SplitEntries(Child(t, i), Right(split, i), InnerPivot(kept(r, i)), out(r, i))
        BY <3>1 DEF split
      <4>2. Child(t, i) \in LeftPages(t) /\ Right(split, i) \in RightPages(split)
        BY <1>5, <1>11, <3>1
      <4> HIDE DEF more
      <4> QED BY <4>1, <4>2, SplitEntriesFacts
    <3>2. CASE i \notin split /\ i \in full
      <4>1. more(r, i) = Entry(Child(t, i), out(r, i)) /\ Child(t, i) \in LeftPages(t)
        BY <1>5, <3>2 DEF split
      <4> HIDE DEF more
      <4> QED BY <4>1, EntryFacts
    <3>3. CASE i \notin split /\ i \notin full
      <4>1. more(r, i) = <<>>
        BY <3>3 DEF split
      <4>2. Range(<<>>) = {}
        BY DEF Range
      <4> HIDE DEF more
      <4> QED BY <4>1, <4>2
    <3> QED BY <3>1, <3>2, <3>3
  <2> QED BY <2>1
<1> HIDE DEF more
<1> DEFINE S == Range(queue[t]) \cup UNION {Range(more(r, i)) : i \in Targets(t)}
<1>19. \A e \in S : QueueOK(t, e)
  <2>1. ASSUME NEW e \in Range(queue[t]) PROVE QueueOK(t, e)
    <3>1. EntryOK(t, e)
      BY <1>3
    <3> QED BY <1>16, <3>1 DEF EntryOK, QueueOK
  <2>2. ASSUME NEW i \in Targets(t), NEW e \in Range(more(r, i)) PROVE QueueOK(t, e)
    BY <1>17, <1>18 DEF QueueOK, IsInner
  <2> QED BY <2>1, <2>2
<1>20. newQueue \in Seq(S)
  <2>1. Tail(queue[t]) \in Seq(S)
    BY <1>3, HeadTailProperties, SeqMonotonic
  <2>2. \A i \in Targets(t) : more(r, i) \in Seq(S)
    <3>1. \A i \in Targets(t) : Range(more(r, i)) \subseteq S
      OBVIOUS
    <3> HIDE DEF S
    <3> QED BY <1>18, <3>1, SeqMonotonic
  <2>3. top \in Nat \ {0}
    BY <1>3, TargetsFinite
  <2> HIDE DEF S, top
  <2>4. /\ DOMAIN mores(r) = 1 .. top /\ mores(r) = [i \in 1 .. top |-> mores(r)[i]]
        /\ \A i \in 1 .. top : mores(r)[i] \in Seq(S)
    BY <2>2
  <2> HIDE DEF mores
  <2> QED BY <2>1, <2>3, <2>4, Collected
<1> HIDE DEF S
<1>21. Continue(t, newQueue)
  BY <1>2
<1> HIDE DEF queueAfter, newQueue
<1> QED BY <1>1, <1>3, <1>15, <1>16, <1>19, <1>20, <1>21, ContinueStep

(***************************************************************************)
(* The invariant, and what it means.                                       *)
(***************************************************************************)
LEMMA TreeInit == Init => TreeInv
<1> SUFFICES ASSUME Init PROVE TreeInv
  OBVIOUS
<1>1. Created = {1} /\ node[1] = Leaf(Empty) /\ Root = 1
  BY DEF Init, Created, Root
<1>2. Cardinality(Created) = 1 /\ 1 .. 1 = {1}
  <2>1. Cardinality({1}) = 1
    BY FS_Singleton
  <2> QED BY <1>1, <2>1
<1>3. LeafOK(node[1]) /\ node[1].type = "leaf"
  BY <1>1, LeafNode
<1>4. PagesOK
  <2>1. Created = 1 .. Cardinality(Created) /\ Cardinality(Created) \in 1 .. MaxPages
    BY <1>1, <1>2, PagesAssumption
  <2>2. \A p \in Created : NodeOK(p, node[p], Created \ {Root}) /\ SiblingsOK(p)
    BY <1>1, <1>3 DEF NodeOK, SiblingsOK, IsBranch
  <2>3. DOMAIN stale = {}
    BY DEF Init, Empty
  <2> QED BY <2>1, <2>2, <2>3 DEF PagesOK
<1>5. LocksOK
  BY DEF Init, LocksOK, AllPages
<1>6. HeaderOK
  BY <1>1, <1>3 DEF Init, HeaderOK, IsLeaf, Open
<1>7. LocalTypes
  BY DEF Init, LocalTypes, Labels
<1>8. ASSUME NEW t \in Threads PROVE ThreadOK(t)
  BY DEF Init, ThreadOK, StartOK, RootStepOK, TargetOK, FlushOK, FindOK, ZerosOK, HasOnly, AllPages
<1> QED BY <1>4, <1>5, <1>6, <1>7, <1>8 DEF TreeInv

(* Every step of a thread keeps the invariant: one lemma per action. *)
LEMMA ThreadStep ==
  ASSUME TreeInv, NEW t \in Threads, Steps(t)
  PROVE  TreeInv'
<1>1. CASE ReadHeader(t)      BY <1>1, ReadHeaderStep
<1>2. CASE PinRoot(t)         BY <1>2, PinRootStep
<1>3. CASE RootLeafKeeps(t)   BY <1>3, RootLeafKeepsStep
<1>4. CASE RootLeafSplits(t)  BY <1>4, RootLeafSplitsStep
<1>5. CASE RetryFullRoot(t)   BY <1>5, RetryStep DEF RetryFullRoot, AtRoot, At
<1>6. CASE SplitRoot(t)       BY <1>6, SplitRootStep
<1>7. CASE PinTarget(t)       BY <1>7, PinTargetStep
<1>8. CASE RetryFullLeaf(t)   BY <1>8, RetryStep DEF RetryFullLeaf, AtLeaf, At
<1>9. CASE TargetLeafKeeps(t) BY <1>9, TargetLeafKeepsStep
<1>10. CASE TargetLeafSplits(t) BY <1>10, TargetLeafSplitsStep
<1>11. CASE StoreUpsert(t)    BY <1>11, StoreUpsertStep
<1>12. CASE RetryFullTarget(t) BY <1>12, RetryStep DEF RetryFullTarget, AtInner, At
<1>13. CASE FlushTarget(t)    BY <1>13, FlushTargetStep
<1>14. CASE FlushSplitTarget(t) BY <1>14, FlushSplitTargetStep
<1>15. CASE \E i \in 1 .. InnerN + 1 : PinFlushChild(t, i)
  BY <1>15, PinFlushChildStep
<1>16. CASE FlushToLeaves(t)  BY <1>16, FlushToLeavesStep
<1>17. CASE FlushToInner(t)   BY <1>17, FlushToInnerStep
<1>18. CASE FindInRootLeaf(t) BY <1>18, FindInRootLeafStep
<1>19. CASE FindChild(t)      BY <1>19, FindChildStep
<1> QED BY <1>1, <1>2, <1>3, <1>4, <1>5, <1>6, <1>7, <1>8, <1>9, <1>10, <1>11, <1>12, <1>13,
           <1>14, <1>15, <1>16, <1>17, <1>18, <1>19 DEF Steps

(* TreeInv is inductive. *)
LEMMA TreeNext == TreeInv /\ [Next]_vars => TreeInv'
<1> SUFFICES ASSUME TreeInv, [Next]_vars PROVE TreeInv'
  OBVIOUS
<1>1. CASE Evict
  BY <1>1, EvictStep
<1>2. CASE Close
  BY <1>2, CloseStep
<1>3. CASE Reopen
  BY <1>3, ReopenStep
<1>4. ASSUME NEW t \in Threads, Steps(t) PROVE TreeInv'
  BY <1>4, ThreadStep
<1>5. ASSUME NEW t \in Threads, Load(t) PROVE TreeInv'
  BY <1>5, BeginStep DEF Load
<1>6. ASSUME NEW t \in Threads, NEW c, Call(t, c) PROVE TreeInv'
  BY <1>6, BeginStep DEF Call
<1>7. CASE UNCHANGED vars
  BY <1>7, IdleStep DEF vars, state
<1> QED BY <1>1, <1>2, <1>3, <1>4, <1>5, <1>6, <1>7 DEF Next

(* At any time, with any number of threads, splits, flushes, evictions and  *)
(* restarts: a page is locked by one thread exclusively or by several       *)
(* shared; a node has one more child than pivots, and its children are      *)
(* pages below the root, all of them inner nodes or none; header.rootLeaf   *)
(* tells whether the root is a leaf; the nodes in the queue of a thread are *)
(* inner nodes it has exclusively; and a thread that goes on holds no page  *)
(* of zeros (upsert, find, flush and handleTraversalNode of BeTree.h).      *)
THEOREM TreeInvariant == Spec => []TreeInv
BY TreeInit, TreeNext, PTL DEF Spec

(* A root that is a leaf is changed by a thread that has it exclusively,    *)
(* although the thread chose the mode of the lock by header.rootLeaf, which *)
(* it read without a lock and before (the assertion of BeTree.h:1189).      *)
THEOREM RootLeafLocked == Spec => []RootLeafExclusive
<1>1. TreeInv => RootLeafExclusive
  <2> SUFFICES ASSUME TreeInv, NEW t \in Threads, pc[t] = "root", Upserting(t), IsLeaf(Root)
               PROVE  access[t][Root] = "write" /\ rootLeaf
    BY DEF RootLeafExclusive, At
  <2> QED BY AtRootFacts DEF HeaderOK
<1> QED BY <1>1, TreeInvariant, PTL
=============================================================================
