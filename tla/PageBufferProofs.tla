-------------------------- MODULE PageBufferProofs --------------------------
(***************************************************************************)
(* Theorems about the page buffer, for any number of threads, frames and   *)
(* pages.  BufferInv is the inductive invariant: the lock of the table,    *)
(* the pin counters, the consistency of table, frames and 2Q, and the      *)
(* locals of the threads only hold together.  Each part has a lemma that   *)
(* every step preserves it, with one step of the proof per action.         *)
(***************************************************************************)
EXTENDS PageBufferInv, SequenceTheorems, FiniteSetTheorems, TLAPS

(***************************************************************************)
(* What the operations of the queues do to the entries of a queue, for     *)
(* queues of any length.                                                   *)
(***************************************************************************)
EntryOf(K, V) == [key : K, value : V]

(* The entries of a queue are found at the positions 1 .. Len(q). *)
LEMMA EntriesOfSeq ==
  ASSUME NEW K, NEW V, NEW q \in Seq(EntryOf(K, V))
  PROVE  /\ DOMAIN q = 1 .. Len(q) /\ Len(q) \in Nat
         /\ \A i \in 1 .. Len(q) : q[i] \in EntryOf(K, V) /\ q[i].key \in K /\ q[i].value \in V
         /\ Entries(q) \subseteq EntryOf(K, V)
         /\ \A e \in Entries(q) : QueueContains(q, e.key)
<1>1. DOMAIN q = 1 .. Len(q) /\ Len(q) \in Nat /\ \A i \in 1 .. Len(q) : q[i] \in EntryOf(K, V)
  BY LenProperties, ElementOfSeq
<1> QED BY <1>1 DEF EntryOf, Entries, QueueContains

(* Queue::insert adds one entry, at the front. *)
LEMMA InsertProperties ==
  ASSUME NEW K, NEW V, NEW q \in Seq(EntryOf(K, V)), NEW k \in K, NEW v \in V
  PROVE  /\ QueueInsert(q, k, v) \in Seq(EntryOf(K, V))
         /\ Entries(QueueInsert(q, k, v)) = Entries(q) \cup {[key |-> k, value |-> v]}
         /\ \A x : QueueContains(QueueInsert(q, k, v), x) <=> QueueContains(q, x) \/ x = k
         /\ KeysDistinct(q) /\ ~QueueContains(q, k) => KeysDistinct(QueueInsert(q, k, v))
<1> DEFINE e == [key |-> k, value |-> v]
           one == <<e>>
           r == one \o q
           S == EntryOf(K, V)
<1>1. e \in S /\ e.key = k
  BY DEF EntryOf
<1>2. one \in Seq(S) /\ Len(one) = 1 /\ one[1] = e /\ q \in Seq(S)
  BY <1>1
<1>3. /\ r \in Seq(S)
      /\ Len(r) = 1 + Len(q)
      /\ \A i \in 1 .. 1 + Len(q) : r[i] = IF i <= 1 THEN one[i] ELSE q[i - 1]
  <2> HIDE DEF one, S
  <2> QED BY <1>2, ConcatProperties, SMTT(30)
<1>4. DOMAIN q = 1 .. Len(q) /\ Len(q) \in Nat /\ DOMAIN r = 1 .. Len(r)
  <2> HIDE DEF r
  <2> QED BY <1>3, LenProperties
<1>5. QueueInsert(q, k, v) = r
  BY DEF QueueInsert
<1>6. r[1] = e /\ \A i \in DOMAIN q : i + 1 \in DOMAIN r /\ r[i + 1] = q[i]
  <2> HIDE DEF r, one, e
  <2> QED BY <1>2, <1>3, <1>4
<1>7. \A j \in DOMAIN r : j = 1 \/ (j - 1 \in DOMAIN q /\ r[j] = q[j - 1])
  <2> HIDE DEF r, one, e
  <2> QED BY <1>2, <1>3, <1>4
<1>8. 1 \in DOMAIN r
  <2> HIDE DEF r
  <2> QED BY <1>3, <1>4
<1> HIDE DEF r, one
<1>9. Entries(r) = Entries(q) \cup {e}
  <2>1. Entries(r) \subseteq Entries(q) \cup {e}
    BY <1>6, <1>7 DEF Entries
  <2>2. Entries(q) \cup {e} \subseteq Entries(r)
    BY <1>6, <1>8 DEF Entries
  <2> QED BY <2>1, <2>2
<1>10. \A x : QueueContains(r, x) <=> QueueContains(q, x) \/ x = k
  BY <1>1, <1>6, <1>7, <1>8 DEF QueueContains
<1>11. KeysDistinct(q) /\ ~QueueContains(q, k) => KeysDistinct(r)
  <2> SUFFICES ASSUME KeysDistinct(q), ~QueueContains(q, k),
                      NEW i \in DOMAIN r, NEW j \in DOMAIN r, r[i].key = r[j].key
               PROVE  i = j
    BY DEF KeysDistinct
  <2>1. CASE i = 1 /\ j # 1
    BY <2>1, <1>1, <1>6, <1>7 DEF QueueContains
  <2>2. CASE i # 1 /\ j = 1
    BY <2>2, <1>1, <1>6, <1>7 DEF QueueContains
  <2>3. CASE i # 1 /\ j # 1
    <3>1. i - 1 = j - 1
      BY <2>3, <1>7 DEF KeysDistinct
    <3> QED BY <3>1, <1>3, <1>4
  <2> QED BY <2>1, <2>2, <2>3
<1> QED BY <1>3, <1>5, <1>9, <1>10, <1>11

(* pointerMap leads to an entry that carries the key. *)
LEMMA PositionProperties ==
  ASSUME NEW K, NEW V, NEW q \in Seq(EntryOf(K, V)), NEW k, QueueContains(q, k)
  PROVE  /\ Position(q, k) \in 1 .. Len(q)
         /\ q[Position(q, k)].key = k
<1>1. DOMAIN q = 1 .. Len(q)
  BY LenProperties
<1> QED BY <1>1 DEF QueueContains, Position

(* Queue::remove takes out the entry of the key and no other one. *)
LEMMA RemoveProperties ==
  ASSUME NEW K, NEW V, NEW q \in Seq(EntryOf(K, V)), NEW k,
         QueueContains(q, k), KeysDistinct(q)
  PROVE  /\ QueueRemove(q, k) \in Seq(EntryOf(K, V))
         /\ Entries(QueueRemove(q, k)) = {e \in Entries(q) : e.key # k}
         /\ \A x : QueueContains(QueueRemove(q, k), x) <=> QueueContains(q, x) /\ x # k
         /\ KeysDistinct(QueueRemove(q, k))
<1> DEFINE p == Position(q, k)
           n == Len(q)
           front == SubSeq(q, 1, p - 1)
           back == SubSeq(q, p + 1, n)
           r == front \o back
           S == EntryOf(K, V)
<1>1. /\ q \in Seq(S) /\ n \in Nat /\ DOMAIN q = 1 .. n
      /\ p \in 1 .. n /\ q[p].key = k
      /\ \A i \in 1 .. n : q[i] \in S
  BY PositionProperties, LenProperties, ElementOfSeq
<1>2. QueueRemove(q, k) = r
  BY DEF QueueRemove, RemoveAt
<1> HIDE DEF p, n, S
<1>3. /\ front \in Seq(S) /\ Len(front) = p - 1
      /\ \A i \in 1 .. p - 1 : front[i] = q[i]
  <2>1. 1 \in Int /\ p - 1 \in Int /\ \A i \in 1 .. p - 1 : q[i] \in S
    BY <1>1
  <2>2. /\ front \in Seq(S)
        /\ Len(front) = IF 1 <= p - 1 THEN p - 1 - 1 + 1 ELSE 0
        /\ \A i \in 1 .. p - 1 - 1 + 1 : front[i] = q[1 + i - 1]
    BY <2>1, SubSeqProperties
  <2> HIDE DEF front
  <2> QED BY <1>1, <2>2
<1>4. /\ back \in Seq(S) /\ Len(back) = n - p
      /\ \A i \in 1 .. n - p : back[i] = q[i + p]
  <2>1. p + 1 \in Int /\ n \in Int /\ \A i \in p + 1 .. n : q[i] \in S
    BY <1>1
  <2>2. /\ back \in Seq(S)
        /\ Len(back) = IF p + 1 <= n THEN n - (p + 1) + 1 ELSE 0
        /\ \A i \in 1 .. n - (p + 1) + 1 : back[i] = q[p + 1 + i - 1]
    BY <2>1, SubSeqProperties
  <2> HIDE DEF back
  <2> QED BY <1>1, <2>2
<1> HIDE DEF front, back
<1>5. /\ r \in Seq(S) /\ Len(r) = Len(front) + Len(back)
      /\ \A i \in 1 .. Len(front) + Len(back) :
           r[i] = IF i <= Len(front) THEN front[i] ELSE back[i - Len(front)]
  BY <1>3, <1>4, ConcatProperties
<1> HIDE DEF r
<1>6. DOMAIN r = 1 .. n - 1 /\ \A i \in 1 .. n - 1 : r[i] = IF i < p THEN q[i] ELSE q[i + 1]
  <2>1. DOMAIN r = 1 .. Len(r)
    BY <1>5, LenProperties
  <2>2. Len(r) = n - 1
    BY <1>1, <1>3, <1>4, <1>5
  <2>3. ASSUME NEW i \in 1 .. n - 1, i < p PROVE r[i] = q[i]
    BY <2>3, <1>1, <1>3, <1>4, <1>5
  <2>4. ASSUME NEW i \in 1 .. n - 1, ~(i < p) PROVE r[i] = q[i + 1]
    BY <2>4, <1>1, <1>3, <1>4, <1>5
  <2> QED BY <2>1, <2>2, <2>3, <2>4
(* The positions of q other than p and those of r correspond. *)
<1>7. \A j \in DOMAIN q : j # p => \E i \in DOMAIN r : r[i] = q[j]
  <2> SUFFICES ASSUME NEW j \in DOMAIN q, j # p PROVE \E i \in DOMAIN r : r[i] = q[j]
    OBVIOUS
  <2>1. CASE j < p
    BY <2>1, <1>1, <1>6
  <2>2. CASE j > p
    <3>1. j - 1 \in DOMAIN r /\ r[j - 1] = q[j]
      BY <2>2, <1>1, <1>6
    <3> QED BY <3>1
  <2> QED BY <2>1, <2>2, <1>1
<1>8. \A i \in DOMAIN r : \E j \in DOMAIN q : j # p /\ r[i] = q[j]
  <2> SUFFICES ASSUME NEW i \in DOMAIN r PROVE \E j \in DOMAIN q : j # p /\ r[i] = q[j]
    OBVIOUS
  <2>1. CASE i < p
    BY <2>1, <1>1, <1>6
  <2>2. CASE ~(i < p)
    <3>1. i + 1 \in DOMAIN q /\ i + 1 # p /\ r[i] = q[i + 1]
      BY <2>2, <1>1, <1>6
    <3> QED BY <3>1
  <2> QED BY <2>1, <2>2
<1>9. \A j \in DOMAIN q : q[j].key = k <=> j = p
  BY <1>1 DEF KeysDistinct
<1>10. Entries(r) = {e \in Entries(q) : e.key # k}
  <2>1. Entries(r) \subseteq {e \in Entries(q) : e.key # k}
    BY <1>8, <1>9 DEF Entries
  <2>2. {e \in Entries(q) : e.key # k} \subseteq Entries(r)
    BY <1>7, <1>9 DEF Entries
  <2> QED BY <2>1, <2>2
<1>11. \A x : QueueContains(r, x) <=> QueueContains(q, x) /\ x # k
  BY <1>7, <1>8, <1>9 DEF QueueContains
<1>12. KeysDistinct(r)
  <2> SUFFICES ASSUME NEW i \in DOMAIN r, NEW j \in DOMAIN r, r[i].key = r[j].key
               PROVE  i = j
    BY DEF KeysDistinct
  <2> DEFINE at(x) == IF x < p THEN x ELSE x + 1
  <2>1. at(i) \in DOMAIN q /\ at(j) \in DOMAIN q /\ q[at(i)] = r[i] /\ q[at(j)] = r[j]
    BY <1>1, <1>6
  <2>2. at(i) = at(j)
    <3> HIDE DEF at
    <3> QED BY <2>1 DEF KeysDistinct
  <2> QED BY <2>2, <1>1, <1>6
<1> QED BY <1>2, <1>5, <1>10, <1>11, <1>12 DEF S

(* LRUQueue::find with modify keeps the entries and moves one to the front. *)
LEMMA TouchProperties ==
  ASSUME NEW K, NEW V, NEW q \in Seq(EntryOf(K, V)), NEW k \in K,
         QueueContains(q, k), KeysDistinct(q)
  PROVE  /\ QueueTouch(q, k) \in Seq(EntryOf(K, V))
         /\ Entries(QueueTouch(q, k)) = Entries(q)
         /\ \A x : QueueContains(QueueTouch(q, k), x) <=> QueueContains(q, x)
         /\ KeysDistinct(QueueTouch(q, k))
<1> DEFINE p == Position(q, k)
           r == QueueRemove(q, k)
           v == QueueValue(q, k)
           e == [key |-> k, value |-> v]
<1>1. p \in 1 .. Len(q) /\ q[p].key = k /\ DOMAIN q = 1 .. Len(q) /\ q[p] \in EntryOf(K, V)
  BY PositionProperties, LenProperties, ElementOfSeq
<1>2. v \in V /\ q[p] = e
  BY <1>1 DEF EntryOf, QueueValue
<1>3. \A x \in Entries(q) : x.key = k <=> x = e
  BY <1>1, <1>2 DEF Entries, KeysDistinct
<1>4. e \in Entries(q)
  BY <1>1, <1>2 DEF Entries
<1>5. /\ r \in Seq(EntryOf(K, V))
      /\ Entries(r) = {x \in Entries(q) : x.key # k}
      /\ \A x : QueueContains(r, x) <=> QueueContains(q, x) /\ x # k
      /\ KeysDistinct(r)
  BY RemoveProperties
<1> HIDE DEF r, v
<1>6. QueueTouch(q, k) = QueueInsert(r, k, v)
  BY DEF QueueTouch, r, v
<1>7. /\ QueueInsert(r, k, v) \in Seq(EntryOf(K, V))
      /\ Entries(QueueInsert(r, k, v)) = Entries(r) \cup {e}
      /\ \A x : QueueContains(QueueInsert(r, k, v), x) <=> QueueContains(r, x) \/ x = k
      /\ KeysDistinct(QueueInsert(r, k, v))
  BY <1>2, <1>5, InsertProperties
<1> QED BY <1>3, <1>4, <1>5, <1>6, <1>7

(* findOne looks at every entry of the queue and at nothing else. *)
LEMMA ScanProperties ==
  ASSUME NEW K, NEW V, NEW q \in Seq(EntryOf(K, V))
  PROVE  /\ ScanOrder(q) \in Seq(EntryOf(K, V))
         /\ Entries(ScanOrder(q)) = Entries(q)
<1> DEFINE n == Len(q)
           r == [i \in 1 .. n |-> q[(n - i) + 1]]
<1>1. n \in Nat /\ DOMAIN q = 1 .. n /\ \A i \in 1 .. n : q[i] \in EntryOf(K, V)
  BY LenProperties, ElementOfSeq
<1>2. ScanOrder(q) = r
  BY DEF ScanOrder, Reverse
<1> HIDE DEF n
<1>3. r \in [1 .. n -> EntryOf(K, V)]
  BY <1>1
<1>4. r \in Seq(EntryOf(K, V))
  BY <1>1, <1>3, SeqDef
<1>5. Entries(r) \subseteq Entries(q)
  BY <1>1 DEF Entries
<1>6. ASSUME NEW j \in DOMAIN q PROVE \E i \in DOMAIN r : r[i] = q[j]
  <2>1. (n - j) + 1 \in DOMAIN r /\ (n - ((n - j) + 1)) + 1 = j
    BY <1>1
  <2> QED BY <2>1
<1> HIDE DEF r
<1>7. Entries(q) \subseteq Entries(r)
  BY <1>6 DEF Entries
<1> QED BY <1>2, <1>4, <1>5, <1>7

(* The next step of the scan. *)
LEMMA TailProperties ==
  ASSUME NEW K, NEW V, NEW q \in Seq(EntryOf(K, V)), q # <<>>
  PROVE  /\ Tail(q) \in Seq(EntryOf(K, V)) /\ Entries(Tail(q)) \subseteq Entries(q)
         /\ Head(q) \in Entries(q) /\ Head(q) \in EntryOf(K, V)
<1>1. Len(q) \in Nat \ {0} /\ DOMAIN q = 1 .. Len(q)
  BY EmptySeq, LenProperties
<1>2. /\ Head(q) \in EntryOf(K, V) /\ Tail(q) \in Seq(EntryOf(K, V))
      /\ Len(Tail(q)) = Len(q) - 1
      /\ \A i \in 1 .. Len(Tail(q)) : Tail(q)[i] = q[i + 1]
  BY HeadTailProperties
<1>3. DOMAIN Tail(q) = 1 .. Len(Tail(q))
  BY <1>2, LenProperties
<1>4. Head(q) = q[1]
  OBVIOUS
<1>5. \A i \in DOMAIN Tail(q) : i + 1 \in DOMAIN q /\ Tail(q)[i] = q[i + 1]
  BY <1>1, <1>2, <1>3
<1> QED BY <1>1, <1>2, <1>4, <1>5 DEF Entries

(***************************************************************************)
(* Consequences of the invariant.                                          *)
(***************************************************************************)

(* The users of a frame can be counted. *)
LEMMA UsersFinite ==
  ASSUME NEW g \in Frames
  PROVE  IsFiniteSet(Users(g)) /\ Cardinality(Users(g)) \in Nat
<1>1. IsFiniteSet(Threads) /\ Users(g) \in SUBSET Threads
  BY FramesAssumption DEF Users
<1>2. IsFiniteSet(Users(g))
  BY <1>1, FS_Subset
<1> QED BY <1>2, FS_CardinalityType

(* A frame whose counter is 0 is used by nobody. *)
LEMMA UnpinnedUnused ==
  ASSUME BufferInv, NEW g \in Frames, pins[g] = 0, NEW u \in Threads
  PROVE  ~Uses(u, g)
<1>1. Cardinality(Users(g)) = 0
  BY DEF BufferInv, PinsCountUsers
<1>2. Users(g) = {}
  BY <1>1, UsersFinite, FS_EmptySet
<1> QED BY <1>2 DEF Users

(* A frame whose counter is 1 has one user. *)
LEMMA SoleUser ==
  ASSUME BufferInv, NEW g \in Frames, pins[g] = 1,
         NEW t \in Threads, NEW u \in Threads, Uses(t, g), Uses(u, g)
  PROVE  u = t
<1>1. Cardinality(Users(g)) = 1 /\ IsFiniteSet(Users(g))
  BY UsersFinite DEF BufferInv, PinsCountUsers
<1>2. PICK x : Users(g) = {x}
  BY <1>1, FS_Singleton
<1> QED BY <1>2 DEF Users

(* The page a thread asks for, if it is in memory, is not one it holds. *)
LEMMA WantedNotHeld ==
  ASSUME BufferInv, NEW t \in Threads, pc[t] = "lookup", pageTable[want[t]] # None
  PROVE  /\ want[t] \in Pages
         /\ pageTable[want[t]] \in Frames \ freeSlots
         /\ pageTable[want[t]] \notin held[t]
<1> DEFINE g == pageTable[want[t]]
<1>1. want[t] \in Pages
  BY DEF BufferInv, LocalsOK, FrameOK, InPin, Labels
<1>2. g \in Frames /\ g \notin freeSlots /\ id[g] = want[t]
  BY <1>1 DEF BufferInv, TypeOK, TableConsistent
<1>3. ~(id[g] < want[t])
  <2>1. want[t] \in Nat
    BY <1>1, PagesAssumption
  <2>2. \A n \in Nat : ~(n < n)
    OBVIOUS
  <2> QED BY <1>2, <2>1, <2>2
<1>4. g \notin held[t]
  BY <1>3 DEF BufferInv, LocalsOK, HeldOK, InPin, Labels
<1> QED BY <1>1, <1>2, <1>4

(* The victim of a thread is the page that its frame contains. *)
LEMMA VictimInFrame ==
  ASSUME BufferInv, NEW t \in Threads, pc[t] \in VictimSteps
  PROVE  /\ Victim(t) \in Pages /\ frame[t] \in Frames \ freeSlots
         /\ pageTable[Victim(t)] = frame[t] /\ id[frame[t]] = Victim(t)
<1>1. scan[t] # <<>> /\ scan[t] \in Seq(EntryOf(Pages, Frames))
      /\ pageTable[Victim(t)] = frame[t]
  BY DEF BufferInv, LocalsOK, VictimOK, TypeOK, Entry, EntryOf
<1>2. Victim(t) \in Pages
  BY <1>1, TailProperties DEF Victim, EntryOf
<1>3. frame[t] \in Frames
  BY DEF BufferInv, LocalsOK, FrameOK, VictimSteps, PinSteps
<1>4. frame[t] \notin freeSlots /\ id[frame[t]] = Victim(t)
  BY <1>1, <1>2, <1>3, NoneAssumption DEF BufferInv, TableConsistent
<1> QED BY <1>1, <1>2, <1>3, <1>4

(* A thread that owns the table is alone in it. *)
LEMMA TableExclusion ==
  ASSUME BufferInv, NEW t \in Threads, NEW u \in Threads, u # t, OwnsTable(t)
  PROVE  ~OwnsTable(u) /\ ~SharesTable(u)
BY NoneAssumption DEF BufferInv, TableLockOwned

(***************************************************************************)
(* Every step preserves the ownership of the lock of the table.            *)
(***************************************************************************)

(***************************************************************************)
(* What the process finds when it starts again.                            *)
(***************************************************************************)
LEMMA SavedType ==
  ASSUME TypeOK, NEW frames \in SUBSET Frames
  PROVE  Saved(frames) \in [Pages -> Content]
<1>1. ASSUME NEW p \in Pages, \E f \in frames : id[f] = p
      PROVE  data[CHOOSE f \in frames : id[f] = p] \in Content
  BY <1>1 DEF TypeOK
<1> QED BY <1>1 DEF Saved, TypeOK

LEMMA EndFacts ==
  ASSUME TypeOK, FlushCutShort \/ Restart
  PROVE  \E pages \in SUBSET Pages : StartAgain(pages)
<1>1. known \subseteq Pages /\ Synced \subseteq Pages
  BY DEF TypeOK, Synced
<1> QED BY <1>1 DEF FlushCutShort, Restart

LEMMA TableLockStep ==
  ASSUME BufferInv, [Next]_vars
  PROVE  TableLockOwned'
<1> USE NoneAssumption DEF table, tableLock, counters, contents, pageLock, request, search, modes,
            client, files, history,
            At, Go, EndTurn, EndCall, RetryWith, Pinned, LockTable, UnlockTable, CanLockTable,
            TypeOK, TableLockOwned, OwnsTable, SharesTable, InTable
<1>0. /\ TypeOK /\ TableLockOwned
      /\ \A t \in Threads : pc[t] = "undoPin" => ~exclusiveTable[t]
  BY DEF BufferInv, LocalsOK, FrameOK
<1>1. ASSUME NEW t \in Threads, EnterTable(t) PROVE TableLockOwned'
  BY <1>1, <1>0 DEF EnterTable
<1>2. ASSUME NEW t \in Threads, HitPinned(t) PROVE TableLockOwned'
  BY <1>2, <1>0 DEF HitPinned, Hit
<1>3. ASSUME NEW t \in Threads, HitUnpinnedShared(t) PROVE TableLockOwned'
  BY <1>3, <1>0 DEF HitUnpinnedShared, Hit
<1>4. ASSUME NEW t \in Threads, HitUnpinnedExclusive(t) PROVE TableLockOwned'
  BY <1>4, <1>0 DEF HitUnpinnedExclusive, Hit
<1>5. ASSUME NEW t \in Threads, MissShared(t) PROVE TableLockOwned'
  BY <1>5, <1>0 DEF MissShared, Miss
<1>6. ASSUME NEW t \in Threads, StartScan(t) PROVE TableLockOwned'
  BY <1>6, <1>0 DEF StartScan, Miss
<1>7. ASSUME NEW t \in Threads, NEW f \in Frames, UseFreeSlot(t, f) PROVE
    TableLockOwned'
  <2>1. CASE SkipLoad(t)
    <3>1. PICK label \in {"mode", "lockPage"} : pc' = [pc EXCEPT ![t] = label]
      BY <1>7, <2>1 DEF UseFreeSlot, Miss, Claimed
    <3>2. /\ OwnsTable(t)
          /\ tableWriter' = None /\ UNCHANGED <<tableReaders, exclusiveTable>>
      BY <1>7, <2>1 DEF UseFreeSlot, Miss, Claimed
    <3> QED BY <1>0, <3>1, <3>2
  <2>2. CASE ~SkipLoad(t)
    BY <1>7, <1>0, <2>2 DEF UseFreeSlot, Miss, Claimed
  <2> QED BY <2>1, <2>2
<1>8. ASSUME NEW t \in Threads, UndoPin(t) PROVE TableLockOwned'
  BY <1>8, <1>0 DEF UndoPin
<1>9. ASSUME NEW t \in Threads, LockForLoad(t) PROVE TableLockOwned'
  BY <1>9, <1>0 DEF LockForLoad, LockPage
<1>10. ASSUME NEW t \in Threads, Load(t) PROVE TableLockOwned'
  BY <1>10, <1>0 DEF Load, UnlockPage
<1>11. ASSUME NEW t \in Threads, SkipEntry(t) PROVE TableLockOwned'
  BY <1>11, <1>0 DEF SkipEntry
<1>12. ASSUME NEW t \in Threads, ScanLRU(t) PROVE TableLockOwned'
  BY <1>12, <1>0 DEF ScanLRU
<1>13. ASSUME NEW t \in Threads, Raise(t) PROVE TableLockOwned'
  BY <1>13, <1>0 DEF Raise
<1>14. ASSUME NEW t \in Threads, FindVictim(t) PROVE TableLockOwned'
  BY <1>14, <1>0 DEF FindVictim
<1>15. ASSUME NEW t \in Threads, PinVictim(t) PROVE TableLockOwned'
  BY <1>15, <1>0 DEF PinVictim
<1>16. ASSUME NEW t \in Threads, TestDirty(t) PROVE TableLockOwned'
  <2>1. CASE pc' = [pc EXCEPT ![t] = "markClean"] /\ UNCHANGED tableLock
    BY <1>16, <1>0, <2>1 DEF TestDirty
  <2>2. CASE exclusiveTable[t] /\ pc' = [pc EXCEPT ![t] = "recheck"] /\ UNCHANGED tableLock
    BY <1>16, <1>0, <2>2 DEF TestDirty
  <2>3. CASE ~exclusiveTable[t] /\ pc' = [pc EXCEPT ![t] = "relock"] /\ UnlockTable(t, FALSE)
    BY <1>16, <1>0, <2>3 DEF TestDirty
  <2> QED BY <1>16, <2>1, <2>2, <2>3 DEF TestDirty
<1>17. ASSUME NEW t \in Threads, MarkClean(t) PROVE TableLockOwned'
  BY <1>17, <1>0 DEF MarkClean
<1>18. ASSUME NEW t \in Threads, LockForSave(t) PROVE TableLockOwned'
  BY <1>18, <1>0 DEF LockForSave, LockPage
<1>19. ASSUME NEW t \in Threads, Save(t) PROVE TableLockOwned'
  BY <1>19, <1>0 DEF Save, UnlockPage
<1>20. ASSUME NEW t \in Threads, Relock(t) PROVE TableLockOwned'
  BY <1>20, <1>0 DEF Relock
<1>21. ASSUME NEW t \in Threads, Recheck(t) PROVE TableLockOwned'
  BY <1>21, <1>0 DEF Recheck
<1>22. ASSUME NEW t \in Threads, GiveUp(t) PROVE TableLockOwned'
  BY <1>22, <1>0 DEF GiveUp
<1>23. ASSUME NEW t \in Threads, Evict(t) PROVE TableLockOwned'
  <2>1. CASE SkipLoad(t)
    <3>1. PICK label \in {"mode", "lockPage"} : pc' = [pc EXCEPT ![t] = label]
      BY <1>23, <2>1 DEF Evict, Claimed
    <3>2. /\ OwnsTable(t)
          /\ tableWriter' = None /\ UNCHANGED <<tableReaders, exclusiveTable>>
      BY <1>23, <2>1 DEF Evict, Claimed
    <3> QED BY <1>0, <3>1, <3>2
  <2>2. CASE ~SkipLoad(t)
    BY <1>23, <1>0, <2>2 DEF Evict, Claimed
  <2> QED BY <2>1, <2>2
<1>24. ASSUME NEW t \in Threads, ChooseMode(t) PROVE TableLockOwned'
  BY <1>24, <1>0 DEF ChooseMode
<1>25. ASSUME NEW t \in Threads, EnterPage(t) PROVE TableLockOwned'
  BY <1>25, <1>0 DEF EnterPage, LockPage
<1>26. ASSUME NEW t \in Threads, ReleasePage(t) PROVE TableLockOwned'
  <2>1. /\ pc[t] = "unlockPage" /\ pc' = [pc EXCEPT ![t] = "decPins"]
        /\ tableWriter' = tableWriter /\ tableReaders' = tableReaders
        /\ exclusiveTable' = exclusiveTable
    BY <1>26 DEF ReleasePage
  <2> QED BY <1>0, <2>1
<1>27. ASSUME NEW t \in Threads, DecPins(t) PROVE TableLockOwned'
  BY <1>27, <1>0 DEF DecPins
<1>28. ASSUME NEW t \in Threads, NEW p \in Pages, NEW k \in Kinds, PinPage(t,
    p, k) PROVE TableLockOwned'
  BY <1>28, <1>0 DEF PinPage, Call
<1>29. ASSUME NEW t \in Threads, NEW p \in Pages, CreatePage(t, p) PROVE
    TableLockOwned'
  BY <1>29, <1>0 DEF CreatePage, Call
<1>30. ASSUME NEW t \in Threads, NEW f \in Frames, Write(t, f) PROVE
    TableLockOwned'
  BY <1>30, <1>0 DEF Write
<1>31. ASSUME NEW t \in Threads, NEW f \in Frames, NEW d \in BOOLEAN,
    UnpinPage(t, f, d) PROVE TableLockOwned'
  BY <1>31, <1>0 DEF UnpinPage
<1>32. ASSUME Flush PROVE TableLockOwned'
  BY <1>32, <1>0 DEF Flush
<1>33. ASSUME FlushCutShort \/ Restart PROVE TableLockOwned'
  <2>1. PICK pages \in SUBSET Pages : StartAgain(pages)
    BY <1>33, <1>0, EndFacts
  <2> QED BY <2>1, <1>0 DEF StartAgain, NewBuffer, ResetThreads
<1>34. ASSUME UNCHANGED vars PROVE TableLockOwned'
  BY <1>34, <1>0 DEF vars
<1> QED
  BY <1>1, <1>2, <1>3, <1>4, <1>5, <1>6, <1>7, <1>8, <1>9, <1>10, <1>11,
      <1>12, <1>13, <1>14, <1>15, <1>16, <1>17, <1>18, <1>19, <1>20, <1>21,
      <1>22, <1>23, <1>24, <1>25, <1>26, <1>27, <1>28, <1>29, <1>30, <1>31,
      <1>32, <1>33, <1>34 DEF Next, Pin, Lookup, Eviction, Unpin, Caller

(***************************************************************************)
(* Every step preserves the count of the users of a frame.                 *)
(***************************************************************************)

(* Who uses what is the same after the step. *)
SameUsers == \A g \in Frames, u \in Threads : Uses(u, g)' <=> Uses(u, g)

(* What the counters satisfy after a step. *)
PinsOK == PinsCountUsers /\ pins \in [Frames -> Nat]

LEMMA SamePins ==
  ASSUME BufferInv, pins' = pins, SameUsers
  PROVE  PinsOK'
<1>1. \A g \in Frames : Users(g)' = Users(g)
  BY DEF SameUsers, Users
<1> QED BY <1>1 DEF PinsOK, BufferInv, TypeOK, PinsCountUsers

(* ++pins: the thread becomes a user of the frame. *)
LEMMA AddPin ==
  ASSUME BufferInv, NEW t \in Threads, NEW g \in Frames, NEW label \in PinSteps,
         ~Uses(t, g), pc[t] \notin PinSteps, pc' = [pc EXCEPT ![t] = label],
         frame'[t] = g, \A u \in Threads \ {t} : frame'[u] = frame[u], held' = held,
         pins' = [pins EXCEPT ![g] = pins[g] + 1]
  PROVE  PinsOK'
<1>1. \A h \in Frames : Users(h)' = IF h = g THEN Users(h) \cup {t} ELSE Users(h)
  <2>1. pc'[t] = label /\ \A u \in Threads \ {t} : pc'[u] = pc[u]
    BY DEF BufferInv, TypeOK
  <2>2. \A h \in Frames, u \in Threads \ {t} : Uses(u, h)' <=> Uses(u, h)
    BY <2>1 DEF Uses
  <2>3. \A h \in Frames : Uses(t, h)' <=> Uses(t, h) \/ h = g
    BY <2>1 DEF Uses
  <2> QED BY <2>2, <2>3 DEF Users
<1>2. t \notin Users(g)
  BY DEF Users
<1>3. \A h \in Frames : IsFiniteSet(Users(h)) /\ Cardinality(Users(h)) \in Nat
  BY UsersFinite
<1>4. Cardinality(Users(g)') = Cardinality(Users(g)) + 1
  BY <1>1, <1>2, <1>3, FS_AddElement
<1>5. \A h \in Frames : pins[h] = Cardinality(Users(h)) /\ pins \in [Frames -> Nat]
  BY DEF BufferInv, TypeOK, PinsCountUsers
<1>6. \A h \in Frames : pins'[h] = Cardinality(Users(h)')
  BY <1>1, <1>4, <1>5
<1>7. pins' \in [Frames -> Nat]
  BY <1>5
<1> QED BY <1>6, <1>7 DEF PinsOK, PinsCountUsers

(* --pins: the thread is no longer a user of its frame. *)
LEMMA DropPin ==
  ASSUME BufferInv, NEW t \in Threads, NEW g \in Frames, NEW label,
         pc[t] \in PinSteps, label \notin PinSteps, pc' = [pc EXCEPT ![t] = label],
         frame[t] = g, g \notin held[t],
         \A u \in Threads \ {t} : frame'[u] = frame[u], held' = held,
         pins' = [pins EXCEPT ![g] = pins[g] - 1]
  PROVE  PinsOK'
<1>1. \A h \in Frames : Users(h)' = IF h = g THEN Users(h) \ {t} ELSE Users(h)
  <2>1. pc'[t] = label /\ \A u \in Threads \ {t} : pc'[u] = pc[u]
    BY DEF BufferInv, TypeOK
  <2>2. \A h \in Frames, u \in Threads \ {t} : Uses(u, h)' <=> Uses(u, h)
    BY <2>1 DEF Uses
  <2>3. \A h \in Frames : Uses(t, h)' <=> Uses(t, h) /\ h # g
    BY <2>1 DEF Uses
  <2> QED BY <2>2, <2>3 DEF Users
<1>2. t \in Users(g)
  BY DEF Users, Uses
<1>3. \A h \in Frames : IsFiniteSet(Users(h)) /\ Cardinality(Users(h)) \in Nat
  BY UsersFinite
<1>4. Cardinality(Users(g)') = Cardinality(Users(g)) - 1 /\ Cardinality(Users(g)) # 0
  BY <1>1, <1>2, <1>3, FS_RemoveElement, FS_EmptySet
<1>5. \A h \in Frames : pins[h] = Cardinality(Users(h)) /\ pins \in [Frames -> Nat]
  BY DEF BufferInv, TypeOK, PinsCountUsers
<1>6. \A h \in Frames : pins'[h] = Cardinality(Users(h)')
  BY <1>1, <1>4, <1>5
<1>7. pins' \in [Frames -> Nat]
  BY <1>3, <1>4, <1>5
<1> QED BY <1>6, <1>7 DEF PinsOK, PinsCountUsers

LEMMA PinsStep ==
  ASSUME BufferInv, [Next]_vars
  PROVE  PinsOK'
<1> USE DEF table, tableLock, counters, contents, pageLock, request, search, modes,
            client, files, history,
            At, Go, EndTurn, EndCall, RetryWith, Pinned, LockTable, UnlockTable
<1>0. /\ TypeOK /\ \A t \in Threads : FrameOK(t)
  BY DEF BufferInv, LocalsOK
<1>1. ASSUME NEW t \in Threads, EnterTable(t) PROVE PinsOK'
  <2>1. pins' = pins
    BY <1>1 DEF EnterTable
  <2>2. SameUsers
    BY <1>1, <1>0 DEF EnterTable, TypeOK, FrameOK, SameUsers, Uses, PinSteps
  <2> QED BY <2>1, <2>2, SamePins
<1>2. ASSUME NEW t \in Threads, HitPinned(t) PROVE PinsOK'
  <2> DEFINE g == pageTable[want[t]]
  <2>1. g \in Frames \ freeSlots /\ g \notin held[t] /\ pc[t] = "lookup"
    BY <1>2, WantedNotHeld DEF HitPinned, Hit
  <2>2. PICK label \in {"undoPin", "mode", "lockPage"} : pc' = [pc EXCEPT ![t] = label]
    BY <1>2 DEF HitPinned, Hit
  <2>3. /\ pins' = [pins EXCEPT ![g] = pins[g] + 1]
        /\ frame' = [frame EXCEPT ![t] = g] /\ held' = held
    BY <1>2 DEF HitPinned, Hit
  <2>4. label \in PinSteps /\ pc[t] \notin PinSteps /\ ~Uses(t, g)
    BY <2>1 DEF PinSteps, Uses
  <2>5. frame'[t] = g /\ \A u \in Threads \ {t} : frame'[u] = frame[u]
    BY <1>0, <2>3 DEF TypeOK
  <2> HIDE DEF g
  <2> QED BY <2>1, <2>2, <2>3, <2>4, <2>5, AddPin
<1>3. ASSUME NEW t \in Threads, HitUnpinnedShared(t) PROVE PinsOK'
  <2> DEFINE g == pageTable[want[t]]
  <2>1. g \in Frames \ freeSlots /\ g \notin held[t] /\ pc[t] = "lookup"
    BY <1>3, WantedNotHeld DEF HitUnpinnedShared, Hit
  <2>2. PICK label \in {"undoPin", "mode", "lockPage"} : pc' = [pc EXCEPT ![t] = label]
    BY <1>3 DEF HitUnpinnedShared, Hit
  <2>3. /\ pins' = [pins EXCEPT ![g] = pins[g] + 1]
        /\ frame' = [frame EXCEPT ![t] = g] /\ held' = held
    BY <1>3 DEF HitUnpinnedShared, Hit
  <2>4. label \in PinSteps /\ pc[t] \notin PinSteps /\ ~Uses(t, g)
    BY <2>1 DEF PinSteps, Uses
  <2>5. frame'[t] = g /\ \A u \in Threads \ {t} : frame'[u] = frame[u]
    BY <1>0, <2>3 DEF TypeOK
  <2> HIDE DEF g
  <2> QED BY <2>1, <2>2, <2>3, <2>4, <2>5, AddPin
<1>4. ASSUME NEW t \in Threads, HitUnpinnedExclusive(t) PROVE PinsOK'
  <2> DEFINE g == pageTable[want[t]]
  <2>1. g \in Frames \ freeSlots /\ g \notin held[t] /\ pc[t] = "lookup"
    BY <1>4, WantedNotHeld DEF HitUnpinnedExclusive, Hit
  <2>2. PICK label \in {"undoPin", "mode", "lockPage"} : pc' = [pc EXCEPT ![t] = label]
    BY <1>4 DEF HitUnpinnedExclusive, Hit
  <2>3. /\ pins' = [pins EXCEPT ![g] = pins[g] + 1]
        /\ frame' = [frame EXCEPT ![t] = g] /\ held' = held
    BY <1>4 DEF HitUnpinnedExclusive, Hit
  <2>4. label \in PinSteps /\ pc[t] \notin PinSteps /\ ~Uses(t, g)
    BY <2>1 DEF PinSteps, Uses
  <2>5. frame'[t] = g /\ \A u \in Threads \ {t} : frame'[u] = frame[u]
    BY <1>0, <2>3 DEF TypeOK
  <2> HIDE DEF g
  <2> QED BY <2>1, <2>2, <2>3, <2>4, <2>5, AddPin
<1>5. ASSUME NEW t \in Threads, MissShared(t) PROVE PinsOK'
  <2>1. pins' = pins
    BY <1>5 DEF MissShared, Miss
  <2>2. SameUsers
    BY <1>5, <1>0 DEF MissShared, Miss, TypeOK, FrameOK, SameUsers, Uses, PinSteps
  <2> QED BY <2>1, <2>2, SamePins
<1>6. ASSUME NEW t \in Threads, StartScan(t) PROVE PinsOK'
  <2>1. pins' = pins
    BY <1>6 DEF StartScan, Miss
  <2>2. SameUsers
    BY <1>6, <1>0 DEF StartScan, Miss, TypeOK, FrameOK, SameUsers, Uses, PinSteps
  <2> QED BY <2>1, <2>2, SamePins
<1>7. ASSUME NEW t \in Threads, NEW f \in Frames, UseFreeSlot(t, f) PROVE
    PinsOK'
  <2>1. pins[f] = 0 /\ pc[t] = "lookup"
    BY <1>7 DEF UseFreeSlot, Miss, BufferInv, TableConsistent
  <2>2. PICK label \in {"loadLock", "mode", "lockPage"} : pc' = [pc EXCEPT ![t] = label]
    BY <1>7 DEF UseFreeSlot, Claimed
  <2>3. /\ pins' = [pins EXCEPT ![f] = pins[f] + 1]
        /\ frame' = [frame EXCEPT ![t] = f] /\ held' = held
    BY <1>7, <2>1 DEF UseFreeSlot
  <2>4. label \in PinSteps /\ pc[t] \notin PinSteps /\ ~Uses(t, f)
    BY <2>1, UnpinnedUnused DEF PinSteps
  <2>5. frame'[t] = f /\ \A u \in Threads \ {t} : frame'[u] = frame[u]
    BY <1>0, <2>3 DEF TypeOK
  <2> QED BY <2>2, <2>3, <2>4, <2>5, AddPin
<1>8. ASSUME NEW t \in Threads, UndoPin(t) PROVE PinsOK'
  <2>1. frame[t] \in Frames \ held[t] /\ pc[t] \in PinSteps
    BY <1>8, <1>0 DEF UndoPin, FrameOK, PinSteps
  <2>2. /\ pins' = [pins EXCEPT ![frame[t]] = pins[frame[t]] - 1]
        /\ frame' = [frame EXCEPT ![t] = None] /\ held' = held
    BY <1>8 DEF UndoPin
  <2>3. PICK label \in {"lockTable", "client"} : pc' = [pc EXCEPT ![t] = label]
    BY <1>8 DEF UndoPin
  <2>4. label \notin PinSteps
    BY DEF PinSteps
  <2>5. \A u \in Threads \ {t} : frame'[u] = frame[u]
    BY <1>0, <2>2 DEF TypeOK
  <2> QED BY <2>1, <2>2, <2>3, <2>4, <2>5, DropPin
<1>9. ASSUME NEW t \in Threads, LockForLoad(t) PROVE PinsOK'
  <2>1. pins' = pins
    BY <1>9 DEF LockForLoad, LockPage
  <2>2. SameUsers
    BY <1>9, <1>0 DEF LockForLoad, LockPage, TypeOK, FrameOK, SameUsers, Uses, PinSteps
  <2> QED BY <2>1, <2>2, SamePins
<1>10. ASSUME NEW t \in Threads, Load(t) PROVE PinsOK'
  <2>1. pins' = pins
    BY <1>10 DEF Load, UnlockPage
  <2>2. SameUsers
    BY <1>10, <1>0 DEF Load, UnlockPage, TypeOK, FrameOK, SameUsers, Uses, PinSteps
  <2> QED BY <2>1, <2>2, SamePins
<1>11. ASSUME NEW t \in Threads, SkipEntry(t) PROVE PinsOK'
  <2>1. pins' = pins
    BY <1>11 DEF SkipEntry
  <2>2. SameUsers
    BY <1>11, <1>0 DEF SkipEntry, TypeOK, FrameOK, SameUsers, Uses, PinSteps
  <2> QED BY <2>1, <2>2, SamePins
<1>12. ASSUME NEW t \in Threads, ScanLRU(t) PROVE PinsOK'
  <2>1. pins' = pins
    BY <1>12 DEF ScanLRU
  <2>2. SameUsers
    BY <1>12, <1>0 DEF ScanLRU, TypeOK, FrameOK, SameUsers, Uses, PinSteps
  <2> QED BY <2>1, <2>2, SamePins
<1>13. ASSUME NEW t \in Threads, Raise(t) PROVE PinsOK'
  <2>1. pins' = pins
    BY <1>13 DEF Raise
  <2>2. SameUsers
    BY <1>13, <1>0 DEF Raise, TypeOK, FrameOK, SameUsers, Uses, PinSteps
  <2> QED BY <2>1, <2>2, SamePins
<1>14. ASSUME NEW t \in Threads, FindVictim(t) PROVE PinsOK'
  <2>1. pins' = pins
    BY <1>14 DEF FindVictim
  <2>2. SameUsers
    BY <1>14, <1>0 DEF FindVictim, TypeOK, FrameOK, SameUsers, Uses, PinSteps
  <2> QED BY <2>1, <2>2, SamePins
<1>15. ASSUME NEW t \in Threads, PinVictim(t) PROVE PinsOK'
  <2>1. frame[t] \in Frames /\ frame[t] \notin held[t] /\ pc[t] = "pinVictim"
    BY <1>15, <1>0 DEF PinVictim, FrameOK
  <2>2. /\ pc' = [pc EXCEPT ![t] = "testDirty"]
        /\ pins' = [pins EXCEPT ![frame[t]] = pins[frame[t]] + 1]
        /\ frame' = frame /\ held' = held
    BY <1>15 DEF PinVictim
  <2>3. "testDirty" \in PinSteps /\ pc[t] \notin PinSteps /\ ~Uses(t, frame[t])
    BY <2>1 DEF PinSteps, Uses
  <2> QED BY <2>1, <2>2, <2>3, AddPin
<1>16. ASSUME NEW t \in Threads, TestDirty(t) PROVE PinsOK'
  <2>1. pins' = pins
    BY <1>16 DEF TestDirty
  <2>2. SameUsers
    BY <1>16, <1>0 DEF TestDirty, TypeOK, FrameOK, SameUsers, Uses, PinSteps
  <2> QED BY <2>1, <2>2, SamePins
<1>17. ASSUME NEW t \in Threads, MarkClean(t) PROVE PinsOK'
  <2>1. pins' = pins
    BY <1>17 DEF MarkClean
  <2>2. SameUsers
    BY <1>17, <1>0 DEF MarkClean, TypeOK, FrameOK, SameUsers, Uses, PinSteps
  <2> QED BY <2>1, <2>2, SamePins
<1>18. ASSUME NEW t \in Threads, LockForSave(t) PROVE PinsOK'
  <2>1. pins' = pins
    BY <1>18 DEF LockForSave, LockPage
  <2>2. SameUsers
    BY <1>18, <1>0 DEF LockForSave, LockPage, TypeOK, FrameOK, SameUsers, Uses, PinSteps
  <2> QED BY <2>1, <2>2, SamePins
<1>19. ASSUME NEW t \in Threads, Save(t) PROVE PinsOK'
  <2>1. pins' = pins
    BY <1>19 DEF Save, UnlockPage
  <2>2. SameUsers
    BY <1>19, <1>0 DEF Save, UnlockPage, TypeOK, FrameOK, SameUsers, Uses, PinSteps
  <2> QED BY <2>1, <2>2, SamePins
<1>20. ASSUME NEW t \in Threads, Relock(t) PROVE PinsOK'
  <2>1. pins' = pins
    BY <1>20 DEF Relock
  <2>2. SameUsers
    BY <1>20, <1>0 DEF Relock, TypeOK, FrameOK, SameUsers, Uses, PinSteps
  <2> QED BY <2>1, <2>2, SamePins
<1>21. ASSUME NEW t \in Threads, Recheck(t) PROVE PinsOK'
  <2>1. pins' = pins
    BY <1>21 DEF Recheck
  <2>2. SameUsers
    BY <1>21, <1>0 DEF Recheck, TypeOK, FrameOK, SameUsers, Uses, PinSteps
  <2> QED BY <2>1, <2>2, SamePins
<1>22. ASSUME NEW t \in Threads, GiveUp(t) PROVE PinsOK'
  <2>1. frame[t] \in Frames \ held[t] /\ pc[t] \in PinSteps
    BY <1>22, <1>0 DEF GiveUp, FrameOK, PinSteps
  <2>2. /\ pins' = [pins EXCEPT ![frame[t]] = pins[frame[t]] - 1]
        /\ frame' = [frame EXCEPT ![t] = None] /\ held' = held
    BY <1>22 DEF GiveUp
  <2>3. PICK label \in {"lockTable", "client"} : pc' = [pc EXCEPT ![t] = label]
    BY <1>22 DEF GiveUp
  <2>4. label \notin PinSteps
    BY DEF PinSteps
  <2>5. \A u \in Threads \ {t} : frame'[u] = frame[u]
    BY <1>0, <2>2 DEF TypeOK
  <2> QED BY <2>1, <2>2, <2>3, <2>4, <2>5, DropPin
<1>23. ASSUME NEW t \in Threads, Evict(t) PROVE PinsOK'
  <2>1. pins' = pins
    BY <1>23 DEF Evict
  <2>2. PICK label \in {"loadLock", "mode", "lockPage"} : pc' = [pc EXCEPT ![t] = label]
    BY <1>23 DEF Evict, Claimed
  <2>3. SameUsers
    BY <1>23, <1>0, <2>2 DEF Evict, TypeOK, SameUsers, Uses, PinSteps
  <2> QED BY <2>1, <2>3, SamePins
<1>24. ASSUME NEW t \in Threads, ChooseMode(t) PROVE PinsOK'
  <2>1. pins' = pins
    BY <1>24 DEF ChooseMode
  <2>2. SameUsers
    BY <1>24, <1>0 DEF ChooseMode, TypeOK, FrameOK, SameUsers, Uses, PinSteps
  <2> QED BY <2>1, <2>2, SamePins
<1>25. ASSUME NEW t \in Threads, EnterPage(t) PROVE PinsOK'
  <2>1. pins' = pins
    BY <1>25 DEF EnterPage, LockPage
  <2>2. SameUsers
    BY <1>25, <1>0 DEF EnterPage, LockPage, TypeOK, FrameOK, SameUsers, Uses, PinSteps
  <2> QED BY <2>1, <2>2, SamePins
<1>26. ASSUME NEW t \in Threads, ReleasePage(t) PROVE PinsOK'
  <2>1. pins' = pins
    BY <1>26 DEF ReleasePage, UnlockPage
  <2>2. SameUsers
    BY <1>26, <1>0 DEF ReleasePage, UnlockPage, TypeOK, FrameOK, SameUsers, Uses, PinSteps
  <2> QED BY <2>1, <2>2, SamePins
<1>27. ASSUME NEW t \in Threads, DecPins(t) PROVE PinsOK'
  <2>1. frame[t] \in Frames \ held[t] /\ pc[t] \in PinSteps
    BY <1>27, <1>0 DEF DecPins, FrameOK, PinSteps
  <2>2. /\ pins' = [pins EXCEPT ![frame[t]] = pins[frame[t]] - 1]
        /\ frame' = [frame EXCEPT ![t] = None] /\ held' = held
    BY <1>27 DEF DecPins
  <2>3. PICK label \in {"lockTable", "client"} : pc' = [pc EXCEPT ![t] = label]
    BY <1>27 DEF DecPins
  <2>4. label \notin PinSteps
    BY DEF PinSteps
  <2>5. \A u \in Threads \ {t} : frame'[u] = frame[u]
    BY <1>0, <2>2 DEF TypeOK
  <2> QED BY <2>1, <2>2, <2>3, <2>4, <2>5, DropPin
<1>28. ASSUME NEW t \in Threads, NEW p \in Pages, NEW k \in Kinds, PinPage(t,
    p, k) PROVE PinsOK'
  <2>1. pins' = pins
    BY <1>28 DEF PinPage, Call
  <2>2. SameUsers
    BY <1>28, <1>0 DEF PinPage, Call, TypeOK, FrameOK, SameUsers, Uses, PinSteps
  <2> QED BY <2>1, <2>2, SamePins
<1>29. ASSUME NEW t \in Threads, NEW p \in Pages, CreatePage(t, p) PROVE
    PinsOK'
  <2>1. pins' = pins
    BY <1>29 DEF CreatePage, Call
  <2>2. SameUsers
    BY <1>29, <1>0 DEF CreatePage, Call, TypeOK, FrameOK, SameUsers, Uses, PinSteps
  <2> QED BY <2>1, <2>2, SamePins
<1>30. ASSUME NEW t \in Threads, NEW f \in Frames, Write(t, f) PROVE PinsOK'
  <2>1. pins' = pins
    BY <1>30 DEF Write
  <2>2. SameUsers
    BY <1>30, <1>0 DEF Write, TypeOK, FrameOK, SameUsers, Uses, PinSteps
  <2> QED BY <2>1, <2>2, SamePins
<1>31. ASSUME NEW t \in Threads, NEW f \in Frames, NEW d \in BOOLEAN,
    UnpinPage(t, f, d) PROVE PinsOK'
  <2>1. pins' = pins
    BY <1>31 DEF UnpinPage
  <2>2. SameUsers
    BY <1>31, <1>0 DEF UnpinPage, TypeOK, FrameOK, SameUsers, Uses, PinSteps
  <2> QED BY <2>1, <2>2, SamePins
<1>32. ASSUME Flush PROVE PinsOK'
  <2>1. pins' = pins
    BY <1>32 DEF Flush
  <2>2. SameUsers
    BY <1>32, <1>0 DEF Flush, TypeOK, FrameOK, SameUsers, Uses, PinSteps
  <2> QED BY <2>1, <2>2, SamePins
<1>33. ASSUME FlushCutShort \/ Restart PROVE PinsOK'
  <2>0. PICK pages \in SUBSET Pages : StartAgain(pages)
    BY <1>33, <1>0, EndFacts
  <2>1. \A g \in Frames : pins'[g] = 0 /\ Users(g)' = {}
    BY <2>0 DEF StartAgain, NewBuffer, ResetThreads, Users, Uses, PinSteps
  <2>2. pins' \in [Frames -> Nat]
    BY <2>0 DEF StartAgain, NewBuffer
  <2> QED BY <2>1, <2>2, FS_EmptySet DEF PinsOK, PinsCountUsers
<1>34. ASSUME UNCHANGED vars PROVE PinsOK'
  <2>1. pins' = pins
    BY <1>34 DEF vars
  <2>2. SameUsers
    BY <1>34, <1>0, SMTT(30) DEF vars, TypeOK, FrameOK, SameUsers, Uses, PinSteps
  <2> QED BY <2>1, <2>2, SamePins
<1> QED
  BY <1>1, <1>2, <1>3, <1>4, <1>5, <1>6, <1>7, <1>8, <1>9, <1>10, <1>11,
      <1>12, <1>13, <1>14, <1>15, <1>16, <1>17, <1>18, <1>19, <1>20, <1>21,
      <1>22, <1>23, <1>24, <1>25, <1>26, <1>27, <1>28, <1>29, <1>30, <1>31,
      <1>32, <1>33, <1>34 DEF Next, Pin, Lookup, Eviction, Unpin, Caller

(***************************************************************************)
(* Every step preserves the types.  The counters are left to PinsStep.     *)
(***************************************************************************)
LEMMA TypeStep ==
  ASSUME BufferInv, [Next]_vars, PinsOK'
  PROVE  TypeOK'
<1> USE NoneAssumption, KindsAssumption DEF table, tableLock, counters, contents, pageLock, request, search, modes,
            client, files, history,
            At, Go, EndTurn, EndCall, RetryWith, Pinned, LockTable, UnlockTable, TypeOK, Labels
<1>0. /\ TypeOK
      /\ \A t \in Threads :
           /\ pc[t] \in InPin => want[t] \in Pages
           /\ pc[t] \in PinSteps \cup {"pinVictim", "unlockPage"} => frame[t] \in Frames
  BY DEF BufferInv, LocalsOK, FrameOK
<1>q. Entry = EntryOf(Pages, Frames)
  BY DEF Entry, EntryOf
<1>1. ASSUME NEW t \in Threads, EnterTable(t) PROVE TypeOK'
  BY <1>1, <1>0 DEF EnterTable, InPin, PinSteps, PinsOK
<1>2. ASSUME NEW t \in Threads, HitPinned(t) PROVE TypeOK'
  BY <1>2, <1>0 DEF HitPinned, Hit, InPin, PinSteps, PinsOK
<1>3. ASSUME NEW t \in Threads, HitUnpinnedShared(t) PROVE TypeOK'
  BY <1>3, <1>0 DEF HitUnpinnedShared, Hit, InPin, PinSteps, PinsOK
<1>4. ASSUME NEW t \in Threads, HitUnpinnedExclusive(t) PROVE TypeOK'
  <2>1. want[t] \in Pages /\ pageTable[want[t]] \in Frames /\ KeysDistinct(fifoQueue) /\ KeysDistinct(lruQueue)
    BY <1>4, WantedNotHeld DEF HitUnpinnedExclusive, Hit, BufferInv, TableConsistent
  <2> DEFINE p == want[t]
             g == pageTable[p]
  <2>2. fifoQueue' \in Seq(Entry) /\ lruQueue' \in Seq(Entry)
    <3>1. Promote(p, g)
      BY <1>4, <1>0 DEF HitUnpinnedExclusive, Hit
    <3>2. QueueContains(fifoQueue, p) => QueueRemove(fifoQueue, p) \in Seq(Entry)
      BY <1>0, <1>q, <2>1, RemoveProperties
    <3>3. QueueContains(lruQueue, p) => QueueTouch(lruQueue, p) \in Seq(Entry)
      BY <1>0, <1>q, <2>1, TouchProperties
    <3>4. QueueInsert(fifoQueue, p, g) \in Seq(Entry) /\ QueueInsert(lruQueue, p, g) \in Seq(Entry)
      BY <1>0, <1>q, <2>1, InsertProperties
    <3> QED BY <1>0, <3>1, <3>2, <3>3, <3>4 DEF Promote
  <2>3. PICK label \in {"mode", "lockPage"} : pc' = [pc EXCEPT ![t] = label]
    BY <1>4 DEF HitUnpinnedExclusive
  <2>4. /\ tableWriter' \in {tableWriter, None} /\ tableReaders' \subseteq tableReaders
        /\ frame' = [frame EXCEPT ![t] = g] /\ pageTable' = pageTable /\ freeSlots' = freeSlots
        /\ UNCHANGED <<dirty, contents, pageLock, request, scan, from, modes, client,
                       calls, files, history>>
    BY <1>4 DEF HitUnpinnedExclusive, Hit
  <2>5. pins' \in [Frames -> Nat]
    BY DEF PinsOK
  <2>6. pc' \in [Threads -> Labels]
    BY <1>0, <2>3 DEF Labels
  <2> HIDE DEF p
  <2> QED BY <1>0, <2>1, <2>2, <2>4, <2>5, <2>6 DEF p
<1>5. ASSUME NEW t \in Threads, MissShared(t) PROVE TypeOK'
  <2>1. pins' \in [Frames -> Nat]
    BY DEF PinsOK
  <2>2. /\ pc' = [pc EXCEPT ![t] = "lockTable"] /\ frame' = [frame EXCEPT ![t] = None]
        /\ scan' = [scan EXCEPT ![t] = <<>>] /\ from' = [from EXCEPT ![t] = None]
        /\ \E mode \in BOOLEAN : exclusiveTable' = [exclusiveTable EXCEPT ![t] = mode]
        /\ tableWriter' \in {tableWriter, None} /\ tableReaders' \subseteq tableReaders
        /\ UNCHANGED <<table, dirty, contents, pageLock, request, exclusive, client,
                       calls, files, history>>
    BY <1>5 DEF MissShared, Miss
  <2>3. scan' \in [Threads -> Seq(Entry)]
    BY <1>0, <2>2, EmptySeq
  <2> QED BY <1>0, <2>1, <2>2, <2>3 DEF Labels
<1>6. ASSUME NEW t \in Threads, StartScan(t) PROVE TypeOK'
  <2>1. ScanOrder(fifoQueue) \in Seq(Entry)
    BY <1>0, <1>q, ScanProperties
  <2> QED BY <1>6, <1>0, <2>1 DEF StartScan, Miss
<1>7. ASSUME NEW t \in Threads, NEW f \in Frames, UseFreeSlot(t, f) PROVE
    TypeOK'
  <2>1. want[t] \in Pages
    BY <1>7, <1>0 DEF UseFreeSlot, Miss, InPin
  <2>2. fifoQueue' \in Seq(Entry)
    BY <1>7, <1>0, <1>q, <2>1, InsertProperties DEF UseFreeSlot
  <2>3. PICK label \in {"loadLock", "mode", "lockPage"} : pc' = [pc EXCEPT ![t] = label]
    BY <1>7 DEF UseFreeSlot, Claimed
  <2>4. tableWriter' \in {tableWriter, None} /\ tableReaders' \subseteq tableReaders
    BY <1>7 DEF UseFreeSlot, Claimed
  <2>5. pins' \in [Frames -> Nat]
    BY DEF PinsOK
  <2> QED BY <1>7, <1>0, <2>1, <2>2, <2>3, <2>4, <2>5 DEF UseFreeSlot
<1>8. ASSUME NEW t \in Threads, UndoPin(t) PROVE TypeOK'
  <2>1. pins' \in [Frames -> Nat]
    BY DEF PinsOK
  <2>2. /\ pc' = [pc EXCEPT ![t] = "lockTable"] /\ frame' = [frame EXCEPT ![t] = None]
        /\ scan' = [scan EXCEPT ![t] = <<>>] /\ from' = [from EXCEPT ![t] = None]
        /\ \E mode \in BOOLEAN : exclusiveTable' = [exclusiveTable EXCEPT ![t] = mode]
        /\ tableWriter' \in {tableWriter, None} /\ tableReaders' \subseteq tableReaders
        /\ UNCHANGED <<table, dirty, contents, pageLock, request, exclusive, client,
                       calls, files, history>>
    BY <1>8 DEF UndoPin
  <2>3. scan' \in [Threads -> Seq(Entry)]
    BY <1>0, <2>2, EmptySeq
  <2> QED BY <1>0, <2>1, <2>2, <2>3 DEF Labels
<1>9. ASSUME NEW t \in Threads, LockForLoad(t) PROVE TypeOK'
  BY <1>9, <1>0 DEF LockForLoad, LockPage, InPin, PinSteps, PinsOK
<1>10. ASSUME NEW t \in Threads, Load(t) PROVE TypeOK'
  BY <1>10, <1>0 DEF Load, UnlockPage, InPin, PinSteps, PinsOK
<1>11. ASSUME NEW t \in Threads, SkipEntry(t) PROVE TypeOK'
  <2>1. Tail(scan[t]) \in Seq(Entry)
    BY <1>11, <1>0, <1>q, TailProperties DEF SkipEntry
  <2> QED BY <1>11, <1>0, <2>1 DEF SkipEntry
<1>12. ASSUME NEW t \in Threads, ScanLRU(t) PROVE TypeOK'
  <2>1. ScanOrder(lruQueue) \in Seq(Entry)
    BY <1>0, <1>q, ScanProperties
  <2> QED BY <1>12, <1>0, <2>1 DEF ScanLRU
<1>13. ASSUME NEW t \in Threads, Raise(t) PROVE TypeOK'
  BY <1>13, <1>0 DEF Raise, InPin, PinSteps, PinsOK
<1>14. ASSUME NEW t \in Threads, FindVictim(t) PROVE TypeOK'
  <2>1. Head(scan[t]).value \in Frames
    <3>1. scan[t] \in Seq(Entry) /\ scan[t] # <<>>
      BY <1>14, <1>0 DEF FindVictim
    <3>2. Head(scan[t]) \in EntryOf(Pages, Frames)
      BY <1>q, <3>1, TailProperties
    <3> QED BY <3>2 DEF EntryOf
  <2> QED BY <1>14, <1>0, <2>1 DEF FindVictim
<1>15. ASSUME NEW t \in Threads, PinVictim(t) PROVE TypeOK'
  BY <1>15, <1>0 DEF PinVictim, InPin, PinSteps, PinsOK
<1>16. ASSUME NEW t \in Threads, TestDirty(t) PROVE TypeOK'
  <2>1. PICK label \in {"markClean", "recheck", "relock"} : pc' = [pc EXCEPT ![t] = label]
    BY <1>16 DEF TestDirty
  <2>2. tableWriter' \in {tableWriter, None} /\ tableReaders' \subseteq tableReaders
    BY <1>16 DEF TestDirty
  <2> QED BY <1>16, <1>0, <2>1, <2>2 DEF TestDirty
<1>17. ASSUME NEW t \in Threads, MarkClean(t) PROVE TypeOK'
  BY <1>17, <1>0 DEF MarkClean, InPin, PinSteps, PinsOK
<1>18. ASSUME NEW t \in Threads, LockForSave(t) PROVE TypeOK'
  BY <1>18, <1>0 DEF LockForSave, LockPage, InPin, PinSteps, PinsOK
<1>19. ASSUME NEW t \in Threads, Save(t) PROVE TypeOK'
  BY <1>19, <1>0 DEF Save, UnlockPage, InPin, PinSteps, PinsOK
<1>20. ASSUME NEW t \in Threads, Relock(t) PROVE TypeOK'
  BY <1>20, <1>0 DEF Relock, InPin, PinSteps, PinsOK
<1>21. ASSUME NEW t \in Threads, Recheck(t) PROVE TypeOK'
  BY <1>21, <1>0 DEF Recheck, InPin, PinSteps, PinsOK
<1>22. ASSUME NEW t \in Threads, GiveUp(t) PROVE TypeOK'
  <2>1. pins' \in [Frames -> Nat]
    BY DEF PinsOK
  <2>2. /\ pc' = [pc EXCEPT ![t] = "lockTable"] /\ frame' = [frame EXCEPT ![t] = None]
        /\ scan' = [scan EXCEPT ![t] = <<>>] /\ from' = [from EXCEPT ![t] = None]
        /\ \E mode \in BOOLEAN : exclusiveTable' = [exclusiveTable EXCEPT ![t] = mode]
        /\ tableWriter' \in {tableWriter, None} /\ tableReaders' \subseteq tableReaders
        /\ UNCHANGED <<table, dirty, contents, pageLock, request, exclusive, client,
                       calls, files, history>>
    BY <1>22 DEF GiveUp
  <2>3. scan' \in [Threads -> Seq(Entry)]
    BY <1>0, <2>2, EmptySeq
  <2> QED BY <1>0, <2>1, <2>2, <2>3 DEF Labels
<1>23. ASSUME NEW t \in Threads, Evict(t) PROVE TypeOK'
  <2>1. /\ want[t] \in Pages /\ Victim(t) \in Pages /\ frame[t] \in Frames
        /\ KeysDistinct(fifoQueue) /\ KeysDistinct(lruQueue)
        /\ QueueContains(IF from[t] = "fifo" THEN fifoQueue ELSE lruQueue, Victim(t))
    BY <1>23, <1>0, VictimInFrame
       DEF Evict, VictimSteps, BufferInv, LocalsOK, VictimOK, InItsQueue, TableConsistent,
           InPin, PinSteps
  <2>2. fifoQueue' \in Seq(Entry) /\ lruQueue' \in Seq(Entry)
    <3>1. CASE from[t] = "fifo"
      <4>1. QueueRemove(fifoQueue, Victim(t)) \in Seq(Entry)
        BY <1>0, <1>q, <2>1, <3>1, RemoveProperties
      <4>2. QueueInsert(QueueRemove(fifoQueue, Victim(t)), want[t], frame[t]) \in Seq(Entry)
        BY <1>q, <2>1, <4>1, InsertProperties
      <4> QED BY <1>23, <1>0, <3>1, <4>2 DEF Evict
    <3>2. CASE from[t] # "fifo"
      <4>1. QueueRemove(lruQueue, Victim(t)) \in Seq(Entry)
        BY <1>0, <1>q, <2>1, <3>2, RemoveProperties
      <4>2. QueueInsert(fifoQueue, want[t], frame[t]) \in Seq(Entry)
        BY <1>0, <1>q, <2>1, InsertProperties
      <4> QED BY <1>23, <3>2, <4>1, <4>2 DEF Evict
    <3> QED BY <3>1, <3>2
  <2>3. PICK label \in {"loadLock", "mode", "lockPage"} : pc' = [pc EXCEPT ![t] = label]
    BY <1>23 DEF Evict, Claimed
  <2>4. tableWriter' \in {tableWriter, None} /\ tableReaders' \subseteq tableReaders
    BY <1>23 DEF Evict, Claimed
  <2>5. pageTable' \in [Pages -> Frames \cup {None}]
    BY <1>23, <1>0, <2>1 DEF Evict
  <2>6. /\ id' \in [Frames -> Pages \cup {None}] /\ dirty' \in [Frames -> BOOLEAN]
        /\ freeSlots' = freeSlots /\ pins' = pins
        /\ UNCHANGED <<data, pageLock, request, search, modes, client, calls, files, history>>
    BY <1>23, <1>0, <2>1 DEF Evict
  <2>7. pc' \in [Threads -> Labels]
    BY <1>0, <2>3 DEF Labels
  <2> QED BY <1>0, <2>2, <2>4, <2>5, <2>6, <2>7
<1>24. ASSUME NEW t \in Threads, ChooseMode(t) PROVE TypeOK'
  <2>1. IsLeaf(data[frame[t]]) \in BOOLEAN
    BY DEF IsLeaf
  <2> QED BY <1>24, <1>0, <2>1 DEF ChooseMode
<1>25. ASSUME NEW t \in Threads, EnterPage(t) PROVE TypeOK'
  BY <1>25, <1>0, SMTT(30) DEF EnterPage, LockPage, InPin, PinSteps, PinsOK
<1>26. ASSUME NEW t \in Threads, ReleasePage(t) PROVE TypeOK'
  BY <1>26, <1>0 DEF ReleasePage, UnlockPage, InPin, PinSteps, PinsOK
<1>27. ASSUME NEW t \in Threads, DecPins(t) PROVE TypeOK'
  BY <1>27, <1>0, SMTT(30) DEF DecPins, InPin, PinSteps, PinsOK
<1>28. ASSUME NEW t \in Threads, NEW p \in Pages, NEW k \in Kinds, PinPage(t,
    p, k) PROVE TypeOK'
  BY <1>28, <1>0, SMTT(30) DEF PinPage, Call, InPin, PinSteps, PinsOK
<1>29. ASSUME NEW t \in Threads, NEW p \in Pages, CreatePage(t, p) PROVE
    TypeOK'
  BY <1>29, <1>0, SMTT(30) DEF CreatePage, Call, InPin, PinSteps, PinsOK
<1>30. ASSUME NEW t \in Threads, NEW f \in Frames, Write(t, f) PROVE TypeOK'
  <2>1. f \in Frames \ freeSlots
    BY <1>30 DEF Write, BufferInv, LocalsOK, HeldOK
  <2>2. id[f] \in Pages
    BY <1>0, <2>1, NoneAssumption DEF BufferInv, TableConsistent
  <2>3. latest' \in [Pages -> Nat]
    BY <1>30, <1>0, <2>2 DEF Write
  <2>4. [page |-> id[f], version |-> latest'[id[f]]] \in Content
    BY <2>2, <2>3 DEF Content
  <2>5. data' \in [Frames -> Content]
    BY <1>30, <1>0, <2>4 DEF Write
  <2> QED BY <1>30, <1>0, <2>2, <2>3, <2>5, SMTT(30) DEF Write
<1>31. ASSUME NEW t \in Threads, NEW f \in Frames, NEW d \in BOOLEAN,
    UnpinPage(t, f, d) PROVE TypeOK'
  BY <1>31, <1>0 DEF UnpinPage, InPin, PinSteps, PinsOK
<1>32. ASSUME Flush PROVE TypeOK'
  <2>1. disk' \in [Pages -> Content]
    BY <1>32, <1>0, SavedType DEF Flush
  <2> QED BY <1>32, <1>0, <2>1 DEF Flush
<1>33. ASSUME FlushCutShort \/ Restart PROVE TypeOK'
  <2>0. PICK pages \in SUBSET Pages : StartAgain(pages)
    BY <1>33, <1>0, EndFacts
  <2>1. Zeros \in Content
    BY DEF Zeros, Content
  <2>2. <<>> \in Seq(Entry)
    BY EmptySeq
  <2>3. disk' \in [Pages -> Content]
    <3>1. CASE Restart
      BY <1>0, <3>1 DEF Restart
    <3>2. CASE FlushCutShort
      <4>1. PICK frames \in SUBSET Frames : disk' = Saved(frames)
        BY <3>2 DEF FlushCutShort
      <4> QED BY <1>0, <4>1, SavedType
    <3> QED BY <1>33, <3>1, <3>2
  <2>4. \A p \in Pages : disk'[p].version \in Nat
    BY <2>3 DEF Content
  <2>5. latest' \in [Pages -> Nat] /\ synced' \in [Pages -> Nat] /\ restarts' \in Nat
    BY <2>0, <1>0, <2>4 DEF StartAgain
  <2> QED BY <2>0, <1>0, <2>1, <2>2, <2>3, <2>5 DEF StartAgain, NewBuffer, ResetThreads
<1>34. ASSUME UNCHANGED vars PROVE TypeOK'
  BY <1>34, <1>0 DEF vars, InPin, PinSteps, PinsOK
<1> QED
  BY <1>1, <1>2, <1>3, <1>4, <1>5, <1>6, <1>7, <1>8, <1>9, <1>10, <1>11,
      <1>12, <1>13, <1>14, <1>15, <1>16, <1>17, <1>18, <1>19, <1>20, <1>21,
      <1>22, <1>23, <1>24, <1>25, <1>26, <1>27, <1>28, <1>29, <1>30, <1>31,
      <1>32, <1>33, <1>34 DEF Next, Pin, Lookup, Eviction, Unpin, Caller

(***************************************************************************)
(* Every step preserves what is known of the frame a thread works on.      *)
(***************************************************************************)
LEMMA FrameStep ==
  ASSUME BufferInv, [Next]_vars, NEW u \in Threads
  PROVE  FrameOK(u)'
<1> USE NoneAssumption, KindsAssumption DEF table, tableLock, counters, contents, pageLock, request, search, modes,
            client, files, history,
            At, Go, EndTurn, EndCall, RetryWith, Pinned, LockTable, UnlockTable, FrameOK, InPin, PinSteps, Labels
<1>0. /\ TypeOK /\ \A v \in Threads : FrameOK(v) /\ HeldOK(v)
      /\ \A f \in freeSlots : pins[f] = 0
  BY DEF BufferInv, LocalsOK, TableConsistent
<1>1. ASSUME NEW t \in Threads, EnterTable(t) PROVE FrameOK(u)'
  BY <1>1, <1>0 DEF EnterTable, TypeOK, HeldOK
<1>2. ASSUME NEW t \in Threads, HitPinned(t) PROVE FrameOK(u)'
  <2>1. pageTable[want[t]] \in Frames \ freeSlots /\ pageTable[want[t]] \notin held[t]
    BY <1>2, WantedNotHeld DEF HitPinned, Hit
  <2> QED BY <1>2, <1>0, <2>1 DEF HitPinned, Hit, TypeOK
<1>3. ASSUME NEW t \in Threads, HitUnpinnedShared(t) PROVE FrameOK(u)'
  <2>1. pageTable[want[t]] \in Frames \ freeSlots /\ pageTable[want[t]] \notin held[t]
    BY <1>3, WantedNotHeld DEF HitUnpinnedShared, Hit
  <2> QED BY <1>3, <1>0, <2>1 DEF HitUnpinnedShared, Hit, TypeOK
<1>4. ASSUME NEW t \in Threads, HitUnpinnedExclusive(t) PROVE FrameOK(u)'
  <2>1. pageTable[want[t]] \in Frames \ freeSlots /\ pageTable[want[t]] \notin held[t]
    BY <1>4, WantedNotHeld DEF HitUnpinnedExclusive, Hit
  <2> QED BY <1>4, <1>0, <2>1 DEF HitUnpinnedExclusive, Hit, TypeOK
<1>5. ASSUME NEW t \in Threads, MissShared(t) PROVE FrameOK(u)'
  BY <1>5, <1>0 DEF MissShared, Miss, TypeOK, HeldOK
<1>6. ASSUME NEW t \in Threads, StartScan(t) PROVE FrameOK(u)'
  BY <1>6, <1>0 DEF StartScan, Miss, TypeOK, HeldOK
<1>7. ASSUME NEW t \in Threads, NEW f \in Frames, UseFreeSlot(t, f) PROVE
    FrameOK(u)'
  BY <1>7, <1>0 DEF UseFreeSlot, Miss, Claimed, TypeOK, HeldOK
<1>8. ASSUME NEW t \in Threads, UndoPin(t) PROVE FrameOK(u)'
  BY <1>8, <1>0 DEF UndoPin, TypeOK, HeldOK
<1>9. ASSUME NEW t \in Threads, LockForLoad(t) PROVE FrameOK(u)'
  BY <1>9, <1>0 DEF LockForLoad, LockPage, TypeOK, HeldOK
<1>10. ASSUME NEW t \in Threads, Load(t) PROVE FrameOK(u)'
  BY <1>10, <1>0 DEF Load, UnlockPage, TypeOK, HeldOK
<1>11. ASSUME NEW t \in Threads, SkipEntry(t) PROVE FrameOK(u)'
  BY <1>11, <1>0 DEF SkipEntry, TypeOK, HeldOK
<1>12. ASSUME NEW t \in Threads, ScanLRU(t) PROVE FrameOK(u)'
  BY <1>12, <1>0 DEF ScanLRU, TypeOK, HeldOK
<1>13. ASSUME NEW t \in Threads, Raise(t) PROVE FrameOK(u)'
  BY <1>13, <1>0 DEF Raise, TypeOK, HeldOK
<1>14. ASSUME NEW t \in Threads, FindVictim(t) PROVE FrameOK(u)'
  <2> DEFINE g == Head(scan[t]).value
  <2>1. scan[t] \in Seq(EntryOf(Pages, Frames)) /\ scan[t] # <<>> /\ pins[g] = 0
    BY <1>14, <1>0 DEF FindVictim, Entry, EntryOf, TypeOK
  <2>2. g \in Frames
    BY <2>1, TailProperties DEF EntryOf
  <2>3. g \notin held[t]
    BY <2>1, <2>2, UnpinnedUnused DEF Uses
  <2> QED BY <1>14, <1>0, <2>2, <2>3 DEF FindVictim, TypeOK
<1>15. ASSUME NEW t \in Threads, PinVictim(t) PROVE FrameOK(u)'
  <2>1. frame[t] \in Frames \ freeSlots
    BY <1>15, VictimInFrame DEF PinVictim, VictimSteps
  <2> QED BY <1>15, <1>0, <2>1 DEF PinVictim, TypeOK
<1>16. ASSUME NEW t \in Threads, TestDirty(t) PROVE FrameOK(u)'
  BY <1>16, <1>0 DEF TestDirty, TypeOK, HeldOK
<1>17. ASSUME NEW t \in Threads, MarkClean(t) PROVE FrameOK(u)'
  BY <1>17, <1>0 DEF MarkClean, TypeOK, HeldOK
<1>18. ASSUME NEW t \in Threads, LockForSave(t) PROVE FrameOK(u)'
  BY <1>18, <1>0 DEF LockForSave, LockPage, TypeOK, HeldOK
<1>19. ASSUME NEW t \in Threads, Save(t) PROVE FrameOK(u)'
  BY <1>19, <1>0 DEF Save, UnlockPage, TypeOK, HeldOK
<1>20. ASSUME NEW t \in Threads, Relock(t) PROVE FrameOK(u)'
  BY <1>20, <1>0 DEF Relock, TypeOK, HeldOK
<1>21. ASSUME NEW t \in Threads, Recheck(t) PROVE FrameOK(u)'
  BY <1>21, <1>0 DEF Recheck, TypeOK, HeldOK
<1>22. ASSUME NEW t \in Threads, GiveUp(t) PROVE FrameOK(u)'
  BY <1>22, <1>0 DEF GiveUp, TypeOK, HeldOK
<1>23. ASSUME NEW t \in Threads, Evict(t) PROVE FrameOK(u)'
  <2>1. PICK label \in {"loadLock", "mode", "lockPage"} : pc' = [pc EXCEPT ![t] = label]
    BY <1>23 DEF Evict, Claimed
  <2>2. /\ pc[t] = "recheckDirty" /\ pins = pins'
        /\ UNCHANGED <<want, frame, held, freeSlots, exclusiveTable>>
    BY <1>23 DEF Evict
  <2> QED BY <1>0, <2>1, <2>2 DEF TypeOK
<1>24. ASSUME NEW t \in Threads, ChooseMode(t) PROVE FrameOK(u)'
  BY <1>24, <1>0 DEF ChooseMode, TypeOK, HeldOK
<1>25. ASSUME NEW t \in Threads, EnterPage(t) PROVE FrameOK(u)'
  BY <1>25, <1>0 DEF EnterPage, LockPage, TypeOK, HeldOK
<1>26. ASSUME NEW t \in Threads, ReleasePage(t) PROVE FrameOK(u)'
  BY <1>26, <1>0 DEF ReleasePage, UnlockPage, TypeOK, HeldOK
<1>27. ASSUME NEW t \in Threads, DecPins(t) PROVE FrameOK(u)'
  BY <1>27, <1>0 DEF DecPins, TypeOK, HeldOK
<1>28. ASSUME NEW t \in Threads, NEW p \in Pages, NEW k \in Kinds, PinPage(t,
    p, k) PROVE FrameOK(u)'
  BY <1>28, <1>0 DEF PinPage, Call, TypeOK, HeldOK
<1>29. ASSUME NEW t \in Threads, NEW p \in Pages, CreatePage(t, p) PROVE
    FrameOK(u)'
  BY <1>29, <1>0 DEF CreatePage, Call, TypeOK, HeldOK
<1>30. ASSUME NEW t \in Threads, NEW f \in Frames, Write(t, f) PROVE
    FrameOK(u)'
  BY <1>30, <1>0 DEF Write, TypeOK, HeldOK
<1>31. ASSUME NEW t \in Threads, NEW f \in Frames, NEW d \in BOOLEAN,
    UnpinPage(t, f, d) PROVE FrameOK(u)'
  BY <1>31, <1>0 DEF UnpinPage, TypeOK, HeldOK
<1>32. ASSUME Flush PROVE FrameOK(u)'
  BY <1>32, <1>0 DEF Flush, TypeOK, HeldOK
<1>33. ASSUME FlushCutShort \/ Restart PROVE FrameOK(u)'
  <2>1. PICK pages \in SUBSET Pages : StartAgain(pages)
    BY <1>33, <1>0, EndFacts
  <2> QED BY <2>1, <1>0 DEF StartAgain, NewBuffer, ResetThreads, TypeOK, HeldOK
<1>34. ASSUME UNCHANGED vars PROVE FrameOK(u)'
  BY <1>34, <1>0 DEF vars, TypeOK, HeldOK
<1> QED
  BY <1>1, <1>2, <1>3, <1>4, <1>5, <1>6, <1>7, <1>8, <1>9, <1>10, <1>11,
      <1>12, <1>13, <1>14, <1>15, <1>16, <1>17, <1>18, <1>19, <1>20, <1>21,
      <1>22, <1>23, <1>24, <1>25, <1>26, <1>27, <1>28, <1>29, <1>30, <1>31,
      <1>32, <1>33, <1>34 DEF Next, Pin, Lookup, Eviction, Unpin, Caller

(***************************************************************************)
(* Every step preserves that the pages a thread holds stay in their frames *)
(* and are above the page it asks for.                                     *)
(***************************************************************************)
LEMMA HeldStep ==
  ASSUME BufferInv, [Next]_vars, NEW u \in Threads
  PROVE  HeldOK(u)'
<1> USE NoneAssumption, PagesAssumption DEF table, tableLock, counters, contents, pageLock, request, search, modes,
            client, files, history,
            At, Go, EndTurn, EndCall, RetryWith, Pinned, LockTable, UnlockTable, HeldOK, InPin, Labels
<1>0. TypeOK /\ \A v \in Threads : FrameOK(v) /\ HeldOK(v)
  BY DEF BufferInv, LocalsOK
<1>1. ASSUME NEW t \in Threads, EnterTable(t) PROVE HeldOK(u)'
  BY <1>1, <1>0 DEF EnterTable, TypeOK, FrameOK, PinSteps, Below
<1>2. ASSUME NEW t \in Threads, HitPinned(t) PROVE HeldOK(u)'
  BY <1>2, <1>0 DEF HitPinned, Hit, TypeOK, FrameOK, PinSteps, Below
<1>3. ASSUME NEW t \in Threads, HitUnpinnedShared(t) PROVE HeldOK(u)'
  BY <1>3, <1>0 DEF HitUnpinnedShared, Hit, TypeOK, FrameOK, PinSteps, Below
<1>4. ASSUME NEW t \in Threads, HitUnpinnedExclusive(t) PROVE HeldOK(u)'
  BY <1>4, <1>0 DEF HitUnpinnedExclusive, Hit, TypeOK, FrameOK, PinSteps,
      Below
<1>5. ASSUME NEW t \in Threads, MissShared(t) PROVE HeldOK(u)'
  BY <1>5, <1>0 DEF MissShared, Miss, TypeOK, FrameOK, PinSteps, Below
<1>6. ASSUME NEW t \in Threads, StartScan(t) PROVE HeldOK(u)'
  BY <1>6, <1>0 DEF StartScan, Miss, TypeOK, FrameOK, PinSteps, Below
<1>7. ASSUME NEW t \in Threads, NEW f \in Frames, UseFreeSlot(t, f) PROVE
    HeldOK(u)'
  <2>1. PICK label \in {"loadLock", "mode", "lockPage"} : pc' = [pc EXCEPT ![t] = label]
    BY <1>7 DEF UseFreeSlot, Claimed
  <2>2. /\ pc[t] = "lookup" /\ f \in freeSlots /\ freeSlots' = freeSlots \ {f}
        /\ id' = [id EXCEPT ![f] = want[t]] /\ UNCHANGED <<want, held>>
    BY <1>7 DEF UseFreeSlot, Miss
  <2> QED BY <1>0, <2>1, <2>2 DEF TypeOK
<1>8. ASSUME NEW t \in Threads, UndoPin(t) PROVE HeldOK(u)'
  BY <1>8, <1>0 DEF UndoPin, TypeOK, FrameOK, PinSteps, Below
<1>9. ASSUME NEW t \in Threads, LockForLoad(t) PROVE HeldOK(u)'
  BY <1>9, <1>0 DEF LockForLoad, LockPage, TypeOK, FrameOK, PinSteps, Below
<1>10. ASSUME NEW t \in Threads, Load(t) PROVE HeldOK(u)'
  BY <1>10, <1>0 DEF Load, UnlockPage, TypeOK, FrameOK, PinSteps, Below
<1>11. ASSUME NEW t \in Threads, SkipEntry(t) PROVE HeldOK(u)'
  BY <1>11, <1>0 DEF SkipEntry, TypeOK, FrameOK, PinSteps, Below
<1>12. ASSUME NEW t \in Threads, ScanLRU(t) PROVE HeldOK(u)'
  BY <1>12, <1>0 DEF ScanLRU, TypeOK, FrameOK, PinSteps, Below
<1>13. ASSUME NEW t \in Threads, Raise(t) PROVE HeldOK(u)'
  BY <1>13, <1>0 DEF Raise, TypeOK, FrameOK, PinSteps, Below
<1>14. ASSUME NEW t \in Threads, FindVictim(t) PROVE HeldOK(u)'
  BY <1>14, <1>0 DEF FindVictim, TypeOK, FrameOK, PinSteps, Below
<1>15. ASSUME NEW t \in Threads, PinVictim(t) PROVE HeldOK(u)'
  BY <1>15, <1>0 DEF PinVictim, TypeOK, FrameOK, PinSteps, Below
<1>16. ASSUME NEW t \in Threads, TestDirty(t) PROVE HeldOK(u)'
  <2>1. PICK label \in {"markClean", "recheck", "relock"} : pc' = [pc EXCEPT ![t] = label]
    BY <1>16 DEF TestDirty
  <2>2. pc[t] = "testDirty" /\ UNCHANGED <<want, held, id, freeSlots>>
    BY <1>16 DEF TestDirty
  <2> QED BY <1>0, <2>1, <2>2 DEF TypeOK
<1>17. ASSUME NEW t \in Threads, MarkClean(t) PROVE HeldOK(u)'
  BY <1>17, <1>0 DEF MarkClean, TypeOK, FrameOK, PinSteps, Below
<1>18. ASSUME NEW t \in Threads, LockForSave(t) PROVE HeldOK(u)'
  BY <1>18, <1>0 DEF LockForSave, LockPage, TypeOK, FrameOK, PinSteps, Below
<1>19. ASSUME NEW t \in Threads, Save(t) PROVE HeldOK(u)'
  BY <1>19, <1>0 DEF Save, UnlockPage, TypeOK, FrameOK, PinSteps, Below
<1>20. ASSUME NEW t \in Threads, Relock(t) PROVE HeldOK(u)'
  BY <1>20, <1>0 DEF Relock, TypeOK, FrameOK, PinSteps, Below
<1>21. ASSUME NEW t \in Threads, Recheck(t) PROVE HeldOK(u)'
  BY <1>21, <1>0 DEF Recheck, TypeOK, FrameOK, PinSteps, Below
<1>22. ASSUME NEW t \in Threads, GiveUp(t) PROVE HeldOK(u)'
  BY <1>22, <1>0 DEF GiveUp, TypeOK, FrameOK, PinSteps, Below
<1>23. ASSUME NEW t \in Threads, Evict(t) PROVE HeldOK(u)'
  <2>1. frame[t] \in Frames /\ pins[frame[t]] = 1 /\ pc[t] = "recheckDirty"
    BY <1>23, <1>0 DEF Evict, BufferInv, LocalsOK, VictimOK, FrameOK, PinSteps
  <2>2. frame[t] \notin held[t]
    BY <1>0, <2>1 DEF FrameOK, PinSteps
  <2>3. frame[t] \notin held[u]
    BY <2>1, <2>2, SoleUser DEF Uses, PinSteps
  <2>4. id' = [id EXCEPT ![frame[t]] = want[t]] /\ UNCHANGED <<held, want, freeSlots>>
    BY <1>23 DEF Evict
  <2>5. pc'[u] \in InPin => pc[u] \in InPin
    BY <1>23, <1>0, <2>1 DEF Evict, Claimed, TypeOK
  <2>6. \A f \in held[u] : f \in Frames /\ id'[f] = id[f]
    BY <1>0, <2>1, <2>3, <2>4 DEF TypeOK
  <2> HIDE DEF InPin
  <2> QED BY <1>0, <2>4, <2>5, <2>6
<1>24. ASSUME NEW t \in Threads, ChooseMode(t) PROVE HeldOK(u)'
  BY <1>24, <1>0 DEF ChooseMode, TypeOK, FrameOK, PinSteps, Below
<1>25. ASSUME NEW t \in Threads, EnterPage(t) PROVE HeldOK(u)'
  BY <1>25, <1>0 DEF EnterPage, LockPage, TypeOK, FrameOK, PinSteps, Below
<1>26. ASSUME NEW t \in Threads, ReleasePage(t) PROVE HeldOK(u)'
  BY <1>26, <1>0 DEF ReleasePage, UnlockPage, TypeOK, FrameOK, PinSteps, Below
<1>27. ASSUME NEW t \in Threads, DecPins(t) PROVE HeldOK(u)'
  BY <1>27, <1>0 DEF DecPins, TypeOK, FrameOK, PinSteps, Below
<1>28. ASSUME NEW t \in Threads, NEW p \in Pages, NEW k \in Kinds, PinPage(t,
    p, k) PROVE HeldOK(u)'
  BY <1>28, <1>0 DEF PinPage, Call, TypeOK, FrameOK, PinSteps, Below
<1>29. ASSUME NEW t \in Threads, NEW p \in Pages, CreatePage(t, p) PROVE
    HeldOK(u)'
  BY <1>29, <1>0 DEF CreatePage, Call, TypeOK, FrameOK, PinSteps, Below
<1>30. ASSUME NEW t \in Threads, NEW f \in Frames, Write(t, f) PROVE
    HeldOK(u)'
  BY <1>30, <1>0 DEF Write, TypeOK, FrameOK, PinSteps, Below
<1>31. ASSUME NEW t \in Threads, NEW f \in Frames, NEW d \in BOOLEAN,
    UnpinPage(t, f, d) PROVE HeldOK(u)'
  BY <1>31, <1>0 DEF UnpinPage, TypeOK, FrameOK, PinSteps, Below
<1>32. ASSUME Flush PROVE HeldOK(u)'
  BY <1>32, <1>0 DEF Flush, TypeOK, FrameOK, PinSteps, Below
<1>33. ASSUME FlushCutShort \/ Restart PROVE HeldOK(u)'
  <2>1. PICK pages \in SUBSET Pages : StartAgain(pages)
    BY <1>33, <1>0, EndFacts
  <2> QED BY <2>1, <1>0 DEF StartAgain, NewBuffer, ResetThreads, TypeOK, FrameOK,
      PinSteps, Below
<1>34. ASSUME UNCHANGED vars PROVE HeldOK(u)'
  BY <1>34, <1>0 DEF vars, TypeOK, FrameOK, PinSteps, Below
<1> QED
  BY <1>1, <1>2, <1>3, <1>4, <1>5, <1>6, <1>7, <1>8, <1>9, <1>10, <1>11,
      <1>12, <1>13, <1>14, <1>15, <1>16, <1>17, <1>18, <1>19, <1>20, <1>21,
      <1>22, <1>23, <1>24, <1>25, <1>26, <1>27, <1>28, <1>29, <1>30, <1>31,
      <1>32, <1>33, <1>34 DEF Next, Pin, Lookup, Eviction, Unpin, Caller

(***************************************************************************)
(* Every step preserves what is known of the victim of a thread.           *)
(***************************************************************************)
LEMMA VictimStep ==
  ASSUME BufferInv, [Next]_vars, NEW u \in Threads
  PROVE  VictimOK(u)'
<1> USE NoneAssumption DEF table, tableLock, counters, contents, pageLock, request, search, modes,
            client, files, history,
            At, Go, EndTurn, EndCall, RetryWith, Pinned, LockTable, UnlockTable, VictimOK, VictimSteps, Labels,
            OwnsTable, SharesTable, InTable
<1>0. /\ TypeOK /\ TableLockOwned
      /\ \A v \in Threads : FrameOK(v) /\ VictimOK(v)
      /\ \A f \in freeSlots : pins[f] = 0
  BY DEF BufferInv, LocalsOK, TableConsistent
<1>1. ASSUME NEW t \in Threads, EnterTable(t) PROVE VictimOK(u)'
  BY <1>1, <1>0 DEF EnterTable, TypeOK, TableLockOwned, FrameOK, PinSteps,
      InPin, Victim, InItsQueue
<1>2. ASSUME NEW t \in Threads, HitPinned(t) PROVE VictimOK(u)'
  BY <1>2, <1>0, SMTT(30) DEF HitPinned, Hit, TypeOK, TableLockOwned, FrameOK, PinSteps,
      InPin, Victim, InItsQueue
<1>3. ASSUME NEW t \in Threads, HitUnpinnedShared(t) PROVE VictimOK(u)'
  BY <1>3, <1>0 DEF HitUnpinnedShared, Hit, TypeOK, TableLockOwned, FrameOK,
      PinSteps, InPin, Victim, InItsQueue
<1>4. ASSUME NEW t \in Threads, HitUnpinnedExclusive(t) PROVE VictimOK(u)'
  BY <1>4, <1>0 DEF HitUnpinnedExclusive, Hit, TypeOK, TableLockOwned,
      FrameOK, PinSteps, InPin, Victim, InItsQueue
<1>5. ASSUME NEW t \in Threads, MissShared(t) PROVE VictimOK(u)'
  BY <1>5, <1>0 DEF MissShared, Miss, TypeOK, TableLockOwned, FrameOK,
      PinSteps, InPin, Victim, InItsQueue
<1>6. ASSUME NEW t \in Threads, StartScan(t) PROVE VictimOK(u)'
  <2>1. Entries(ScanOrder(fifoQueue)) = Entries(fifoQueue)
    <3>1. fifoQueue \in Seq(EntryOf(Pages, Frames))
      BY <1>0 DEF TypeOK, Entry, EntryOf
    <3> QED BY <3>1, ScanProperties
  <2>2. \A e \in Entries(fifoQueue) : pageTable[e.key] = e.value
    BY DEF BufferInv, TableConsistent
  <2>3. /\ scan' = [scan EXCEPT ![t] = ScanOrder(fifoQueue)] /\ pc[t] = "lookup" /\ pc'[t] = "scan"
        /\ \A v \in Threads \ {t} : pc'[v] = pc[v] /\ from'[v] = from[v]
        /\ UNCHANGED <<frame, want, table, pins>>
    BY <1>6, <1>0 DEF StartScan, Miss, TypeOK
  <2>4. CASE u = t
    <3>1. pc'[u] = "scan" /\ scan'[u] = ScanOrder(fifoQueue) /\ pageTable' = pageTable
      BY <1>0, <2>3, <2>4 DEF TypeOK
    <3>2. Entries(scan[u])' = Entries(fifoQueue)
      BY <2>1, <3>1
    <3> QED BY <2>2, <3>1, <3>2
  <2>5. CASE u # t
    BY <1>0, <2>3, <2>5 DEF TypeOK, Victim, InItsQueue
  <2> QED BY <2>4, <2>5
<1>7. ASSUME NEW t \in Threads, NEW f \in Frames, UseFreeSlot(t, f) PROVE
    VictimOK(u)'
  BY <1>7, <1>0, SMTT(30) DEF UseFreeSlot, Miss, Claimed, TypeOK, TableLockOwned,
      FrameOK, PinSteps, InPin, Victim, InItsQueue
<1>8. ASSUME NEW t \in Threads, UndoPin(t) PROVE VictimOK(u)'
  BY <1>8, <1>0, SMTT(30) DEF UndoPin, TypeOK, TableLockOwned, FrameOK, PinSteps, InPin,
      Victim, InItsQueue
<1>9. ASSUME NEW t \in Threads, LockForLoad(t) PROVE VictimOK(u)'
  BY <1>9, <1>0 DEF LockForLoad, LockPage, TypeOK, TableLockOwned, FrameOK,
      PinSteps, InPin, Victim, InItsQueue
<1>10. ASSUME NEW t \in Threads, Load(t) PROVE VictimOK(u)'
  BY <1>10, <1>0 DEF Load, UnlockPage, TypeOK, TableLockOwned, FrameOK,
      PinSteps, InPin, Victim, InItsQueue
<1>11. ASSUME NEW t \in Threads, SkipEntry(t) PROVE VictimOK(u)'
  <2>1. Entries(Tail(scan[t])) \subseteq Entries(scan[t])
    <3>1. scan[t] \in Seq(EntryOf(Pages, Frames)) /\ scan[t] # <<>>
      BY <1>11, <1>0 DEF SkipEntry, TypeOK, Entry, EntryOf
    <3> QED BY <3>1, TailProperties
  <2>2. scan' = [scan EXCEPT ![t] = Tail(scan[t])] /\ pc[t] = "scan" /\ pc' = pc
        /\ UNCHANGED <<frame, want, from, table, pins>>
    BY <1>11 DEF SkipEntry
  <2>3. CASE u = t
    BY <1>0, <2>1, <2>2, <2>3 DEF TypeOK
  <2>4. CASE u # t
    BY <1>0, <2>2, <2>4 DEF TypeOK, Victim, InItsQueue
  <2> QED BY <2>3, <2>4
<1>12. ASSUME NEW t \in Threads, ScanLRU(t) PROVE VictimOK(u)'
  <2>1. Entries(ScanOrder(lruQueue)) = Entries(lruQueue)
    <3>1. lruQueue \in Seq(EntryOf(Pages, Frames))
      BY <1>0 DEF TypeOK, Entry, EntryOf
    <3> QED BY <3>1, ScanProperties
  <2>2. \A e \in Entries(lruQueue) : pageTable[e.key] = e.value
    BY DEF BufferInv, TableConsistent
  <2>3. /\ scan' = [scan EXCEPT ![t] = ScanOrder(lruQueue)] /\ pc[t] = "scan" /\ pc'[t] = "scan"
        /\ \A v \in Threads \ {t} : pc'[v] = pc[v] /\ from'[v] = from[v]
        /\ UNCHANGED <<frame, want, table, pins>>
    BY <1>12, <1>0 DEF ScanLRU, TypeOK
  <2>4. CASE u = t
    <3>1. pc'[u] = "scan" /\ scan'[u] = ScanOrder(lruQueue) /\ pageTable' = pageTable
      BY <1>0, <2>3, <2>4 DEF TypeOK
    <3>2. Entries(scan[u])' = Entries(lruQueue)
      BY <2>1, <3>1
    <3> QED BY <2>2, <3>1, <3>2
  <2>5. CASE u # t
    BY <1>0, <2>3, <2>5 DEF TypeOK, Victim, InItsQueue
  <2> QED BY <2>4, <2>5
<1>13. ASSUME NEW t \in Threads, Raise(t) PROVE VictimOK(u)'
  BY <1>13, <1>0 DEF Raise, TypeOK, TableLockOwned, FrameOK, PinSteps, InPin,
      Victim, InItsQueue
<1>14. ASSUME NEW t \in Threads, FindVictim(t) PROVE VictimOK(u)'
  <2>1. scan[t] \in Seq(EntryOf(Pages, Frames)) /\ scan[t] # <<>>
    BY <1>14, <1>0 DEF FindVictim, TypeOK, Entry, EntryOf
  <2>2. Head(scan[t]) \in Entries(scan[t])
    BY <2>1, TailProperties
  <2>3. pc[t] = "scan" /\ pc' = [pc EXCEPT ![t] = "pinVictim"]
        /\ frame' = [frame EXCEPT ![t] = Head(scan[t]).value]
        /\ UNCHANGED <<scan, from, want, table, pins>>
    BY <1>14 DEF FindVictim
  <2> QED BY <1>0, <2>1, <2>2, <2>3, SMTT(30) DEF TypeOK, Victim, InItsQueue
<1>15. ASSUME NEW t \in Threads, PinVictim(t) PROVE VictimOK(u)'
  BY <1>15, <1>0 DEF PinVictim, TypeOK, TableLockOwned, FrameOK, PinSteps,
      InPin, Victim, InItsQueue
<1>16. ASSUME NEW t \in Threads, TestDirty(t) PROVE VictimOK(u)'
  BY <1>16, <1>0 DEF TestDirty, TypeOK, TableLockOwned, FrameOK, PinSteps,
      InPin, Victim, InItsQueue
<1>17. ASSUME NEW t \in Threads, MarkClean(t) PROVE VictimOK(u)'
  BY <1>17, <1>0 DEF MarkClean, TypeOK, TableLockOwned, FrameOK, PinSteps,
      InPin, Victim, InItsQueue
<1>18. ASSUME NEW t \in Threads, LockForSave(t) PROVE VictimOK(u)'
  BY <1>18, <1>0 DEF LockForSave, LockPage, TypeOK, TableLockOwned, FrameOK,
      PinSteps, InPin, Victim, InItsQueue
<1>19. ASSUME NEW t \in Threads, Save(t) PROVE VictimOK(u)'
  BY <1>19, <1>0 DEF Save, UnlockPage, TypeOK, TableLockOwned, FrameOK,
      PinSteps, InPin, Victim, InItsQueue
<1>20. ASSUME NEW t \in Threads, Relock(t) PROVE VictimOK(u)'
  BY <1>20, <1>0 DEF Relock, TypeOK, TableLockOwned, FrameOK, PinSteps, InPin,
      Victim, InItsQueue
<1>21. ASSUME NEW t \in Threads, Recheck(t) PROVE VictimOK(u)'
  <2>1. Unused(t) /\ UNCHANGED <<table, pins, search, request>> /\ pc[t] = "recheck"
        /\ pc' = [pc EXCEPT ![t] = "recheckDirty"]
    BY <1>21 DEF Recheck
  <2> QED BY <1>0, <2>1 DEF Unused, TypeOK, Victim, InItsQueue
<1>22. ASSUME NEW t \in Threads, GiveUp(t) PROVE VictimOK(u)'
  BY <1>22, <1>0 DEF GiveUp, TypeOK, TableLockOwned, FrameOK, PinSteps, InPin,
      Victim, InItsQueue
<1>23. ASSUME NEW t \in Threads, Evict(t) PROVE VictimOK(u)'
  <2>1. CASE u = t
    <3>1. PICK label \in {"loadLock", "mode", "lockPage"} : pc' = [pc EXCEPT ![t] = label]
      BY <1>23 DEF Evict, Claimed
    <3> QED BY <1>0, <2>1, <3>1 DEF TypeOK
  <2>2. CASE u # t
    <3>1. pc[t] = "recheckDirty" /\ OwnsTable(t)
      BY <1>23 DEF Evict
    <3>2. pc'[u] = pc[u] /\ UNCHANGED <<frame, scan>>
          /\ pageTable' = [pageTable EXCEPT ![Victim(t)] = None, ![want[t]] = frame[t]]
      BY <1>23, <1>0, <2>2 DEF Evict, Claimed, TypeOK
    <3>3. pc[u] \notin {"scan", "recheckDirty"} /\ (pc[u] \in VictimSteps => pc[u] \in PinSteps)
      BY <2>2, <3>1, TableExclusion DEF PinSteps
    <3>4. ASSUME pc[u] \in VictimSteps
          PROVE  pageTable'[Victim(u)] = pageTable[Victim(u)]
      <4>1. frame[t] \in Frames /\ frame[u] \in Frames /\ want[t] \in Pages
            /\ Uses(t, frame[t]) /\ Uses(u, frame[u])
            /\ pins[frame[t]] = 1 /\ pageTable[want[t]] = None
        BY <1>0, <3>1, <3>3, <3>4 DEF FrameOK, PinSteps, Uses, InPin
      <4>2. frame[t] # frame[u]
        BY <2>2, <4>1, SoleUser
      <4>3. pageTable[Victim(t)] = frame[t] /\ pageTable[Victim(u)] = frame[u]
            /\ Victim(t) \in Pages /\ Victim(u) \in Pages
        BY <3>1, <3>4, VictimInFrame
      <4> QED BY <1>0, <3>2, <4>1, <4>2, <4>3 DEF TypeOK
    <3> QED BY <1>0, <3>2, <3>3, <3>4 DEF Victim
  <2> QED BY <2>1, <2>2
<1>24. ASSUME NEW t \in Threads, ChooseMode(t) PROVE VictimOK(u)'
  BY <1>24, <1>0 DEF ChooseMode, TypeOK, TableLockOwned, FrameOK, PinSteps,
      InPin, Victim, InItsQueue
<1>25. ASSUME NEW t \in Threads, EnterPage(t) PROVE VictimOK(u)'
  BY <1>25, <1>0 DEF EnterPage, LockPage, TypeOK, TableLockOwned, FrameOK,
      PinSteps, InPin, Victim, InItsQueue
<1>26. ASSUME NEW t \in Threads, ReleasePage(t) PROVE VictimOK(u)'
  BY <1>26, <1>0 DEF ReleasePage, UnlockPage, TypeOK, TableLockOwned, FrameOK,
      PinSteps, InPin, Victim, InItsQueue
<1>27. ASSUME NEW t \in Threads, DecPins(t) PROVE VictimOK(u)'
  <2>1. CASE u = t
    BY <1>27, <1>0, <2>1 DEF DecPins, TypeOK
  <2>2. CASE u # t
    <3>1. pc[u] = "recheckDirty" => frame[u] # frame[t]
      <4> SUFFICES ASSUME pc[u] = "recheckDirty", frame[u] = frame[t]
                   PROVE  FALSE
        OBVIOUS
      <4>1. frame[t] \in Frames /\ pins[frame[t]] = 1 /\ Uses(t, frame[t]) /\ Uses(u, frame[t])
        BY <1>27, <1>0 DEF DecPins, FrameOK, PinSteps, Uses
      <4> QED BY <2>2, <4>1, SoleUser
    <3>2. pc'[u] = pc[u] /\ frame'[u] = frame[u] /\ scan'[u] = scan[u]
          /\ from'[u] = from[u] /\ want'[u] = want[u]
          /\ pins' = [pins EXCEPT ![frame[t]] = pins[frame[t]] - 1]
          /\ UNCHANGED table
      BY <1>27, <1>0, <2>2 DEF DecPins, TypeOK
    <3> QED BY <1>0, <3>1, <3>2 DEF TypeOK, FrameOK, PinSteps, Victim, InItsQueue
  <2> QED BY <2>1, <2>2
<1>28. ASSUME NEW t \in Threads, NEW p \in Pages, NEW k \in Kinds, PinPage(t,
    p, k) PROVE VictimOK(u)'
  BY <1>28, <1>0 DEF PinPage, Call, TypeOK, TableLockOwned, FrameOK, PinSteps,
      InPin, Victim, InItsQueue
<1>29. ASSUME NEW t \in Threads, NEW p \in Pages, CreatePage(t, p) PROVE
    VictimOK(u)'
  BY <1>29, <1>0 DEF CreatePage, Call, TypeOK, TableLockOwned, FrameOK,
      PinSteps, InPin, Victim, InItsQueue
<1>30. ASSUME NEW t \in Threads, NEW f \in Frames, Write(t, f) PROVE
    VictimOK(u)'
  BY <1>30, <1>0 DEF Write, TypeOK, TableLockOwned, FrameOK, PinSteps, InPin,
      Victim, InItsQueue
<1>31. ASSUME NEW t \in Threads, NEW f \in Frames, NEW d \in BOOLEAN,
    UnpinPage(t, f, d) PROVE VictimOK(u)'
  BY <1>31, <1>0 DEF UnpinPage, TypeOK, TableLockOwned, FrameOK, PinSteps,
      InPin, Victim, InItsQueue
<1>32. ASSUME Flush PROVE VictimOK(u)'
  BY <1>32, <1>0 DEF Flush, TypeOK, TableLockOwned, FrameOK, PinSteps, InPin,
      Victim, InItsQueue
<1>33. ASSUME FlushCutShort \/ Restart PROVE VictimOK(u)'
  <2>1. PICK pages \in SUBSET Pages : StartAgain(pages)
    BY <1>33, <1>0, EndFacts
  <2> QED BY <2>1, <1>0 DEF StartAgain, NewBuffer, ResetThreads, TypeOK, TableLockOwned,
      FrameOK, PinSteps, InPin, Victim, InItsQueue
<1>34. ASSUME UNCHANGED vars PROVE VictimOK(u)'
  BY <1>34, <1>0 DEF vars, TypeOK, TableLockOwned, FrameOK, PinSteps, InPin,
      Victim, InItsQueue
<1> QED
  BY <1>1, <1>2, <1>3, <1>4, <1>5, <1>6, <1>7, <1>8, <1>9, <1>10, <1>11,
      <1>12, <1>13, <1>14, <1>15, <1>16, <1>17, <1>18, <1>19, <1>20, <1>21,
      <1>22, <1>23, <1>24, <1>25, <1>26, <1>27, <1>28, <1>29, <1>30, <1>31,
      <1>32, <1>33, <1>34 DEF Next, Pin, Lookup, Eviction, Unpin, Caller

(***************************************************************************)
(* Every step preserves that table, frames, free slots and 2Q agree.       *)
(***************************************************************************)

(* A page that is not in memory has no entry in a queue. *)
LEMMA NotInQueues ==
  ASSUME BufferInv, NEW w \in Pages, pageTable[w] = None
  PROVE  ~QueueContains(fifoQueue, w) /\ ~QueueContains(lruQueue, w)
<1>1. /\ fifoQueue \in Seq(EntryOf(Pages, Frames)) /\ lruQueue \in Seq(EntryOf(Pages, Frames))
      /\ \A e \in Entries(fifoQueue) \cup Entries(lruQueue) : pageTable[e.key] = e.value
  BY DEF BufferInv, TypeOK, Entry, EntryOf, TableConsistent
<1>2. \A e \in Entries(fifoQueue) \cup Entries(lruQueue) : e.value \in Frames
  BY <1>1, EntriesOfSeq DEF EntryOf
<1> QED BY <1>1, <1>2, NoneAssumption DEF QueueContains, Entries

LEMMA TableStep ==
  ASSUME BufferInv, [Next]_vars
  PROVE  TableConsistent'
<1> USE DEF table, tableLock, counters, contents, pageLock, request, search, modes,
            client, files, history,
            At, Go, EndTurn, EndCall, RetryWith, Pinned, LockTable, UnlockTable
<1>0. /\ TypeOK /\ TableConsistent /\ \A v \in Threads : FrameOK(v) /\ VictimOK(v)
  BY DEF BufferInv, LocalsOK
<1>q. /\ fifoQueue \in Seq(EntryOf(Pages, Frames)) /\ lruQueue \in Seq(EntryOf(Pages, Frames))
  BY <1>0 DEF TypeOK, Entry, EntryOf
<1>e. /\ \A e \in Entries(fifoQueue) : QueueContains(fifoQueue, e.key) /\ e.key \in Pages
      /\ \A e \in Entries(lruQueue) : QueueContains(lruQueue, e.key) /\ e.key \in Pages
  <2>1. /\ Entries(fifoQueue) \subseteq EntryOf(Pages, Frames)
        /\ \A e \in Entries(fifoQueue) : QueueContains(fifoQueue, e.key)
    BY <1>q, EntriesOfSeq
  <2>2. /\ Entries(lruQueue) \subseteq EntryOf(Pages, Frames)
        /\ \A e \in Entries(lruQueue) : QueueContains(lruQueue, e.key)
    BY <1>q, EntriesOfSeq
  <2> QED BY <2>1, <2>2 DEF EntryOf
<1>1. ASSUME NEW t \in Threads, EnterTable(t) PROVE TableConsistent'
  BY <1>1, <1>0 DEF EnterTable, TypeOK, FrameOK, PinSteps, Labels,
      TableConsistent
<1>2. ASSUME NEW t \in Threads, HitPinned(t) PROVE TableConsistent'
  <2>1. want[t] \in Pages /\ pageTable[want[t]] \in Frames \ freeSlots
    BY <1>2, WantedNotHeld DEF HitPinned, Hit
  <2>2. UNCHANGED <<table, id>> /\ pins' = [pins EXCEPT ![pageTable[want[t]]] = pins[pageTable[want[t]]] + 1]
    BY <1>2 DEF HitPinned, Hit
  <2> QED BY <1>0, <2>1, <2>2 DEF TypeOK, TableConsistent
<1>3. ASSUME NEW t \in Threads, HitUnpinnedShared(t) PROVE TableConsistent'
  <2>1. want[t] \in Pages /\ pageTable[want[t]] \in Frames \ freeSlots
    BY <1>3, WantedNotHeld DEF HitUnpinnedShared, Hit
  <2>2. UNCHANGED <<table, id>> /\ pins' = [pins EXCEPT ![pageTable[want[t]]] = pins[pageTable[want[t]]] + 1]
    BY <1>3 DEF HitUnpinnedShared, Hit
  <2> QED BY <1>0, <2>1, <2>2 DEF TypeOK, TableConsistent
<1>4. ASSUME NEW t \in Threads, HitUnpinnedExclusive(t) PROVE TableConsistent'
  <2> DEFINE p == want[t]
             g == pageTable[p]
  <2>1. p \in Pages /\ g \in Frames \ freeSlots
    BY <1>4, WantedNotHeld DEF HitUnpinnedExclusive, Hit
  <2>2. /\ Promote(p, g) /\ UNCHANGED <<pageTable, freeSlots, id>>
        /\ pins' = [pins EXCEPT ![g] = pins[g] + 1]
    BY <1>4, <1>0 DEF HitUnpinnedExclusive, Hit, TypeOK
  <2> HIDE DEF p
  <2>3. /\ KeysDistinct(fifoQueue) /\ KeysDistinct(lruQueue)
        /\ QueueContains(fifoQueue, p) \/ QueueContains(lruQueue, p)
        /\ ~(QueueContains(fifoQueue, p) /\ QueueContains(lruQueue, p))
    BY <2>1, NoneAssumption DEF BufferInv, TableConsistent
  <2>4. CASE QueueContains(fifoQueue, p)
    <3>1. fifoQueue' = QueueRemove(fifoQueue, p) /\ lruQueue' = QueueInsert(lruQueue, p, g)
      BY <2>2, <2>4 DEF Promote
    <3>2. /\ Entries(fifoQueue') = {e \in Entries(fifoQueue) : e.key # p}
          /\ \A x : QueueContains(fifoQueue', x) <=> QueueContains(fifoQueue, x) /\ x # p
          /\ KeysDistinct(fifoQueue')
      BY <1>q, <2>3, <2>4, <3>1, RemoveProperties
    <3>3. /\ Entries(lruQueue') = Entries(lruQueue) \cup {[key |-> p, value |-> g]}
          /\ \A x : QueueContains(lruQueue', x) <=> QueueContains(lruQueue, x) \/ x = p
          /\ KeysDistinct(lruQueue')
      BY <1>q, <2>1, <2>3, <2>4, <3>1, InsertProperties
    <3> QED BY <1>0, <2>1, <2>2, <3>2, <3>3 DEF TypeOK, TableConsistent
  <2>5. CASE ~QueueContains(fifoQueue, p)
    <3>1. fifoQueue' = fifoQueue /\ lruQueue' = QueueTouch(lruQueue, p)
      BY <2>2, <2>3, <2>5 DEF Promote
    <3>2. /\ Entries(lruQueue') = Entries(lruQueue)
          /\ \A x : QueueContains(lruQueue', x) <=> QueueContains(lruQueue, x)
          /\ KeysDistinct(lruQueue')
      BY <1>q, <2>1, <2>3, <2>5, <3>1, TouchProperties
    <3> QED BY <1>0, <2>1, <2>2, <3>1, <3>2 DEF TypeOK, TableConsistent
  <2> QED BY <2>4, <2>5
<1>5. ASSUME NEW t \in Threads, MissShared(t) PROVE TableConsistent'
  BY <1>5, <1>0 DEF MissShared, Miss, TypeOK, FrameOK, PinSteps, Labels,
      TableConsistent
<1>6. ASSUME NEW t \in Threads, StartScan(t) PROVE TableConsistent'
  BY <1>6, <1>0 DEF StartScan, Miss, TypeOK, FrameOK, PinSteps, Labels,
      TableConsistent
<1>7. ASSUME NEW t \in Threads, NEW f \in Frames, UseFreeSlot(t, f) PROVE
    TableConsistent'
  <2>1. want[t] \in Pages /\ pageTable[want[t]] = None
    BY <1>7, <1>0 DEF UseFreeSlot, Miss, FrameOK, InPin, Labels
  <2> DEFINE w == want[t]
  <2>2. /\ f \in freeSlots /\ freeSlots' = freeSlots \ {f} /\ lruQueue' = lruQueue
        /\ pageTable' = [pageTable EXCEPT ![w] = f] /\ id' = [id EXCEPT ![f] = w]
        /\ fifoQueue' = QueueInsert(fifoQueue, w, f) /\ pins' = [pins EXCEPT ![f] = 1]
    BY <1>7 DEF UseFreeSlot
  <2> HIDE DEF w
  <2>3. w \in Pages /\ pageTable[w] = None
    BY <2>1 DEF w
  <2>4. ~QueueContains(fifoQueue, w) /\ ~QueueContains(lruQueue, w)
    BY <2>3, NotInQueues
  <2>5. /\ Entries(fifoQueue') = Entries(fifoQueue) \cup {[key |-> w, value |-> f]}
        /\ \A x : QueueContains(fifoQueue', x) <=> QueueContains(fifoQueue, x) \/ x = w
        /\ KeysDistinct(fifoQueue')
    BY <1>0, <1>q, <2>2, <2>3, <2>4, InsertProperties DEF TableConsistent
  <2>6. \A e \in Entries(fifoQueue') \cup Entries(lruQueue') : pageTable'[e.key] = e.value
    <3>1. \A e \in Entries(fifoQueue) \cup Entries(lruQueue) : e.key \in Pages \ {w}
      BY <1>e, <2>4
    <3> QED BY <1>0, <2>2, <2>3, <2>5, <3>1 DEF TypeOK, TableConsistent
  <2>7. \A p \in Pages : pageTable'[p] # None =>
          /\ id'[pageTable'[p]] = p /\ pageTable'[p] \notin freeSlots'
          /\ QueueContains(fifoQueue', p) \/ QueueContains(lruQueue', p)
    BY <1>0, <2>2, <2>3, <2>5 DEF TypeOK, TableConsistent
  <2>8. \A h \in Frames \ freeSlots' : id'[h] # None /\ pageTable'[id'[h]] = h
    BY <1>0, <2>2, <2>3, NoneAssumption DEF TypeOK, TableConsistent
  <2> QED BY <1>0, <2>2, <2>3, <2>4, <2>5, <2>6, <2>7, <2>8 DEF TypeOK, TableConsistent
<1>8. ASSUME NEW t \in Threads, UndoPin(t) PROVE TableConsistent'
  BY <1>8, <1>0 DEF UndoPin, TypeOK, FrameOK, PinSteps, Labels,
      TableConsistent
<1>9. ASSUME NEW t \in Threads, LockForLoad(t) PROVE TableConsistent'
  BY <1>9, <1>0 DEF LockForLoad, LockPage, TypeOK, FrameOK, PinSteps, Labels,
      TableConsistent
<1>10. ASSUME NEW t \in Threads, Load(t) PROVE TableConsistent'
  BY <1>10, <1>0 DEF Load, UnlockPage, TypeOK, FrameOK, PinSteps, Labels,
      TableConsistent
<1>11. ASSUME NEW t \in Threads, SkipEntry(t) PROVE TableConsistent'
  BY <1>11, <1>0 DEF SkipEntry, TypeOK, FrameOK, PinSteps, Labels,
      TableConsistent
<1>12. ASSUME NEW t \in Threads, ScanLRU(t) PROVE TableConsistent'
  BY <1>12, <1>0 DEF ScanLRU, TypeOK, FrameOK, PinSteps, Labels,
      TableConsistent
<1>13. ASSUME NEW t \in Threads, Raise(t) PROVE TableConsistent'
  BY <1>13, <1>0 DEF Raise, TypeOK, FrameOK, PinSteps, Labels, TableConsistent
<1>14. ASSUME NEW t \in Threads, FindVictim(t) PROVE TableConsistent'
  BY <1>14, <1>0 DEF FindVictim, TypeOK, FrameOK, PinSteps, Labels,
      TableConsistent
<1>15. ASSUME NEW t \in Threads, PinVictim(t) PROVE TableConsistent'
  <2>1. frame[t] \in Frames \ freeSlots
    BY <1>15, VictimInFrame DEF PinVictim, VictimSteps
  <2>2. UNCHANGED <<table, id>> /\ pins' = [pins EXCEPT ![frame[t]] = pins[frame[t]] + 1]
    BY <1>15 DEF PinVictim
  <2> QED BY <1>0, <2>1, <2>2 DEF TypeOK, TableConsistent
<1>16. ASSUME NEW t \in Threads, TestDirty(t) PROVE TableConsistent'
  BY <1>16, <1>0 DEF TestDirty, TypeOK, FrameOK, PinSteps, Labels,
      TableConsistent
<1>17. ASSUME NEW t \in Threads, MarkClean(t) PROVE TableConsistent'
  BY <1>17, <1>0 DEF MarkClean, TypeOK, FrameOK, PinSteps, Labels,
      TableConsistent
<1>18. ASSUME NEW t \in Threads, LockForSave(t) PROVE TableConsistent'
  BY <1>18, <1>0 DEF LockForSave, LockPage, TypeOK, FrameOK, PinSteps, Labels,
      TableConsistent
<1>19. ASSUME NEW t \in Threads, Save(t) PROVE TableConsistent'
  BY <1>19, <1>0 DEF Save, UnlockPage, TypeOK, FrameOK, PinSteps, Labels,
      TableConsistent
<1>20. ASSUME NEW t \in Threads, Relock(t) PROVE TableConsistent'
  BY <1>20, <1>0 DEF Relock, TypeOK, FrameOK, PinSteps, Labels,
      TableConsistent
<1>21. ASSUME NEW t \in Threads, Recheck(t) PROVE TableConsistent'
  BY <1>21, <1>0 DEF Recheck, TypeOK, FrameOK, PinSteps, Labels,
      TableConsistent
<1>22. ASSUME NEW t \in Threads, GiveUp(t) PROVE TableConsistent'
  BY <1>22, <1>0 DEF GiveUp, TypeOK, FrameOK, PinSteps, Labels,
      TableConsistent
<1>23. ASSUME NEW t \in Threads, Evict(t) PROVE TableConsistent'
  <2> DEFINE w == want[t]
             v == Victim(t)
             g == frame[t]
  <2>1. /\ v \in Pages /\ g \in Frames \ freeSlots /\ pageTable[v] = g /\ id[g] = v
        /\ w \in Pages /\ pageTable[w] = None /\ w # v
        /\ QueueContains(IF from[t] = "fifo" THEN fifoQueue ELSE lruQueue, v)
    <3>1. pc[t] = "recheckDirty"
      BY <1>23 DEF Evict
    <3>2. v \in Pages /\ g \in Frames \ freeSlots /\ pageTable[v] = g /\ id[g] = v
      BY <3>1, VictimInFrame DEF VictimSteps
    <3>3. w \in Pages /\ pageTable[w] = None /\ InItsQueue(t)
      BY <1>0, <3>1 DEF FrameOK, VictimOK, InPin, Labels
    <3> QED BY <3>2, <3>3, NoneAssumption DEF InItsQueue
  <2>2. /\ freeSlots' = freeSlots /\ pins' = pins
        /\ pageTable' = [pageTable EXCEPT ![v] = None, ![w] = g]
        /\ id' = [id EXCEPT ![g] = w]
        /\ from[t] = "fifo" => /\ fifoQueue' = QueueInsert(QueueRemove(fifoQueue, v), w, g)
                               /\ lruQueue' = lruQueue
        /\ from[t] # "fifo" => /\ fifoQueue' = QueueInsert(fifoQueue, w, g)
                               /\ lruQueue' = QueueRemove(lruQueue, v)
    BY <1>23 DEF Evict
  <2> HIDE DEF w, v, g
  <2>3. ~QueueContains(fifoQueue, w) /\ ~QueueContains(lruQueue, w)
    BY <2>1, NotInQueues
  <2>4. KeysDistinct(fifoQueue) /\ KeysDistinct(lruQueue)
    BY <1>0 DEF TableConsistent
  (* The victim leaves its queue, and the page enters the FIFO queue. *)
  <2>5. /\ Entries(fifoQueue') \cup Entries(lruQueue') =
             {e \in Entries(fifoQueue) \cup Entries(lruQueue) : e.key # v}
               \cup {[key |-> w, value |-> g]}
        /\ \A x : QueueContains(fifoQueue', x) \/ QueueContains(lruQueue', x) <=>
                    ((QueueContains(fifoQueue, x) \/ QueueContains(lruQueue, x)) /\ x # v) \/ x = w
        /\ KeysDistinct(fifoQueue') /\ KeysDistinct(lruQueue')
        /\ \A p \in Pages : ~(QueueContains(fifoQueue', p) /\ QueueContains(lruQueue', p))
    <3>0. /\ \A p \in Pages : ~(QueueContains(fifoQueue, p) /\ QueueContains(lruQueue, p))
          /\ \A e \in Entries(fifoQueue) : QueueContains(fifoQueue, e.key) /\ e.key \in Pages
          /\ \A e \in Entries(lruQueue) : QueueContains(lruQueue, e.key) /\ e.key \in Pages
      BY <1>0, <1>e DEF TableConsistent
    <3>1. CASE from[t] = "fifo"
      <4> DEFINE r == QueueRemove(fifoQueue, v)
      <4>1. /\ r \in Seq(EntryOf(Pages, Frames))
            /\ Entries(r) = {e \in Entries(fifoQueue) : e.key # v}
            /\ \A x : QueueContains(r, x) <=> QueueContains(fifoQueue, x) /\ x # v
            /\ KeysDistinct(r)
        BY <1>q, <2>1, <2>4, <3>1, RemoveProperties
      <4>2. lruQueue' = lruQueue /\ fifoQueue' = QueueInsert(r, w, g)
        BY <2>2, <3>1
      <4> HIDE DEF r
      <4>3. ~QueueContains(r, w)
        BY <2>3, <4>1
      <4>4. /\ Entries(fifoQueue') = Entries(r) \cup {[key |-> w, value |-> g]}
            /\ \A x : QueueContains(fifoQueue', x) <=> QueueContains(r, x) \/ x = w
            /\ KeysDistinct(fifoQueue')
        BY <2>1, <4>1, <4>2, <4>3, InsertProperties
      <4>5. \A e \in Entries(lruQueue) : e.key # v
        BY <2>1, <3>0, <3>1
      <4> QED BY <2>1, <2>3, <2>4, <3>0, <4>1, <4>2, <4>4, <4>5, <3>1
    <3>2. CASE from[t] # "fifo"
      <4>1. /\ Entries(lruQueue') = {e \in Entries(lruQueue) : e.key # v}
            /\ \A x : QueueContains(lruQueue', x) <=> QueueContains(lruQueue, x) /\ x # v
            /\ KeysDistinct(lruQueue')
        BY <1>q, <2>1, <2>2, <2>4, <3>2, RemoveProperties
      <4>2. /\ Entries(fifoQueue') = Entries(fifoQueue) \cup {[key |-> w, value |-> g]}
            /\ \A x : QueueContains(fifoQueue', x) <=> QueueContains(fifoQueue, x) \/ x = w
            /\ KeysDistinct(fifoQueue')
        BY <1>q, <2>1, <2>2, <2>3, <2>4, <3>2, InsertProperties
      <4>3. \A e \in Entries(fifoQueue) : e.key # v
        BY <2>1, <3>0, <3>2
      <4> QED BY <2>1, <2>3, <2>4, <3>0, <4>1, <4>2, <4>3, <3>2
    <3> QED BY <3>1, <3>2
  <2>6. \A e \in Entries(fifoQueue') \cup Entries(lruQueue') : pageTable'[e.key] = e.value
    <3>1. \A e \in Entries(fifoQueue) \cup Entries(lruQueue) : e.key \in Pages \ {w}
      BY <1>e, <2>3
    <3> QED BY <1>0, <2>1, <2>2, <2>5, <3>1 DEF TypeOK, TableConsistent
  <2>7. \A p \in Pages : pageTable'[p] # None =>
          /\ id'[pageTable'[p]] = p /\ pageTable'[p] \notin freeSlots'
          /\ QueueContains(fifoQueue', p) \/ QueueContains(lruQueue', p)
    <3> SUFFICES ASSUME NEW p \in Pages, pageTable'[p] # None
                 PROVE  /\ id'[pageTable'[p]] = p /\ pageTable'[p] \notin freeSlots'
                        /\ QueueContains(fifoQueue', p) \/ QueueContains(lruQueue', p)
      OBVIOUS
    <3>1. CASE p = w
      <4>1. pageTable'[p] = g /\ id'[g] = w
        BY <1>0, <2>1, <2>2, <3>1 DEF TypeOK
      <4> QED BY <2>1, <2>2, <2>5, <3>1, <4>1
    <3>2. CASE p # w
      <4>1. p # v /\ pageTable'[p] = pageTable[p]
        BY <1>0, <2>1, <2>2, <3>2 DEF TypeOK
      <4>2. /\ pageTable[p] \in Frames \ freeSlots /\ id[pageTable[p]] = p
            /\ QueueContains(fifoQueue, p) \/ QueueContains(lruQueue, p)
        BY <1>0, <4>1 DEF TypeOK, TableConsistent
      <4>3. id'[pageTable[p]] = id[pageTable[p]]
        BY <1>0, <2>1, <2>2, <4>1, <4>2 DEF TypeOK
      <4> QED BY <2>2, <2>5, <4>1, <4>2, <4>3
    <3> QED BY <3>1, <3>2
  <2>8. \A h \in Frames \ freeSlots' : id'[h] # None /\ pageTable'[id'[h]] = h
    BY <1>0, <2>1, <2>2, NoneAssumption DEF TypeOK, TableConsistent
  <2> QED BY <1>0, <2>2, <2>5, <2>6, <2>7, <2>8 DEF TypeOK, TableConsistent
<1>24. ASSUME NEW t \in Threads, ChooseMode(t) PROVE TableConsistent'
  BY <1>24, <1>0 DEF ChooseMode, TypeOK, FrameOK, PinSteps, Labels,
      TableConsistent
<1>25. ASSUME NEW t \in Threads, EnterPage(t) PROVE TableConsistent'
  BY <1>25, <1>0 DEF EnterPage, LockPage, TypeOK, FrameOK, PinSteps, Labels,
      TableConsistent
<1>26. ASSUME NEW t \in Threads, ReleasePage(t) PROVE TableConsistent'
  BY <1>26, <1>0 DEF ReleasePage, UnlockPage, TypeOK, FrameOK, PinSteps,
      Labels, TableConsistent
<1>27. ASSUME NEW t \in Threads, DecPins(t) PROVE TableConsistent'
  BY <1>27, <1>0 DEF DecPins, TypeOK, FrameOK, PinSteps, Labels,
      TableConsistent
<1>28. ASSUME NEW t \in Threads, NEW p \in Pages, NEW k \in Kinds, PinPage(t,
    p, k) PROVE TableConsistent'
  BY <1>28, <1>0 DEF PinPage, Call, TypeOK, FrameOK, PinSteps, Labels,
      TableConsistent
<1>29. ASSUME NEW t \in Threads, NEW p \in Pages, CreatePage(t, p) PROVE
    TableConsistent'
  BY <1>29, <1>0 DEF CreatePage, Call, TypeOK, FrameOK, PinSteps, Labels,
      TableConsistent
<1>30. ASSUME NEW t \in Threads, NEW f \in Frames, Write(t, f) PROVE
    TableConsistent'
  BY <1>30, <1>0 DEF Write, TypeOK, FrameOK, PinSteps, Labels, TableConsistent
<1>31. ASSUME NEW t \in Threads, NEW f \in Frames, NEW d \in BOOLEAN,
    UnpinPage(t, f, d) PROVE TableConsistent'
  BY <1>31, <1>0 DEF UnpinPage, TypeOK, FrameOK, PinSteps, Labels,
      TableConsistent
<1>32. ASSUME Flush PROVE TableConsistent'
  BY <1>32, <1>0 DEF Flush, TypeOK, FrameOK, PinSteps, Labels, TableConsistent
<1>33. ASSUME FlushCutShort \/ Restart PROVE TableConsistent'
  <2>0. PICK pages \in SUBSET Pages : StartAgain(pages)
    BY <1>33, <1>0, EndFacts
  <2>1. /\ pageTable' = [p \in Pages |-> None] /\ freeSlots' = Frames
        /\ fifoQueue' = <<>> /\ lruQueue' = <<>> /\ pins' = [f \in Frames |-> 0]
    BY <2>0 DEF StartAgain, NewBuffer
  <2>2. DOMAIN fifoQueue' = {} /\ DOMAIN lruQueue' = {}
    BY <2>1
  <2> QED BY <2>1, <2>2 DEF TableConsistent, KeysDistinct, QueueContains, Entries
<1>34. ASSUME UNCHANGED vars PROVE TableConsistent'
  BY <1>34, <1>0 DEF vars, TypeOK, FrameOK, PinSteps, Labels, TableConsistent
<1> QED
  BY <1>1, <1>2, <1>3, <1>4, <1>5, <1>6, <1>7, <1>8, <1>9, <1>10, <1>11,
      <1>12, <1>13, <1>14, <1>15, <1>16, <1>17, <1>18, <1>19, <1>20, <1>21,
      <1>22, <1>23, <1>24, <1>25, <1>26, <1>27, <1>28, <1>29, <1>30, <1>31,
      <1>32, <1>33, <1>34 DEF Next, Pin, Lookup, Eviction, Unpin, Caller

(***************************************************************************)
(* The invariant and what follows from it.                                 *)
(***************************************************************************)
LEMMA InitInv == Init => BufferInv
<1> SUFFICES ASSUME Init PROVE BufferInv
  OBVIOUS
<1> USE NoneAssumption, PagesAssumption DEF Init, EmptyBuffer, NewThreads
<1>1. TypeOK
  <2>1. <<>> \in Seq(Entry) /\ Zeros \in Content
    BY EmptySeq DEF Zeros, Content
  <2>2. \A p \in Pages : [page |-> p, version |-> 1] \in Content
    BY DEF Content
  <2>3. disk \in [Pages -> Content] /\ latest \in [Pages -> Nat]
    BY <2>1, <2>2
  <2> QED BY <2>1, <2>3 DEF TypeOK, Labels
<1>2. TableLockOwned
  BY DEF TableLockOwned, OwnsTable, SharesTable, InTable
<1>3. TableConsistent
  <2>1. DOMAIN fifoQueue = {} /\ DOMAIN lruQueue = {}
    OBVIOUS
  <2> QED BY <2>1 DEF TableConsistent, KeysDistinct, QueueContains, Entries
<1>4. PinsCountUsers
  <2>1. \A f \in Frames : Users(f) = {}
    BY DEF Users, Uses, PinSteps
  <2> QED BY <2>1, FS_EmptySet DEF PinsCountUsers
<1>5. LocalsOK
  BY DEF LocalsOK, HeldOK, FrameOK, VictimOK, InPin, PinSteps, VictimSteps
<1> QED BY <1>1, <1>2, <1>3, <1>4, <1>5 DEF BufferInv

LEMMA StepInv == BufferInv /\ [Next]_vars => BufferInv'
<1> SUFFICES ASSUME BufferInv, [Next]_vars PROVE BufferInv'
  OBVIOUS
<1>1. PinsOK'
  BY PinsStep
<1>2. TypeOK' /\ TableLockOwned' /\ TableConsistent'
  BY <1>1, TypeStep, TableLockStep, TableStep
<1>3. \A u \in Threads : HeldOK(u)' /\ FrameOK(u)' /\ VictimOK(u)'
  BY HeldStep, FrameStep, VictimStep
<1> QED BY <1>1, <1>2, <1>3 DEF BufferInv, LocalsOK, PinsOK

(* The page buffer always satisfies its invariant. *)
THEOREM Invariant == Spec => []BufferInv
<1> QED BY InitInv, StepInv, PTL DEF Spec

(* Every variable of the page buffer keeps its type: no queue ever holds    *)
(* anything but an entry, no counter of pins becomes negative.              *)
THEOREM TypeCorrect == Spec => []TypeOK
<1>1. BufferInv => TypeOK
  BY DEF BufferInv
<1> QED BY <1>1, Invariant, PTL

(* The counter of a frame is at any time the number of threads that use it: *)
(* pinPage and unpinPage neither lose nor leave behind a pin, whichever way *)
(* readers, retrying readers and evictors interleave.                       *)
THEOREM PinsCorrect == Spec => []PinsCountUsers
<1>1. BufferInv => PinsCountUsers
  BY DEF BufferInv
<1> QED BY <1>1, Invariant, PTL

(* Page table, frames, free slots and the 2Q always describe the same       *)
(* assignment of pages to frames.                                           *)
THEOREM TableCorrect == Spec => []TableConsistent
<1>1. BufferInv => TableConsistent
  BY DEF BufferInv
<1> QED BY <1>1, Invariant, PTL

(* A step that gives a frame to another page finds it free, or in use by    *)
(* the evicting thread alone.                                               *)
LEMMA ReuseStep ==
  ASSUME BufferInv, [Next]_vars, restarts' = restarts,
         NEW slot \in Frames, id'[slot] # id[slot], NEW user \in Users(slot)
  PROVE  At(user, "recheckDirty") /\ want[user] = id'[slot]
<1> DEFINE Reuse == \A g \in Frames : id'[g] # id[g] =>
                      \A u \in Users(g) : At(u, "recheckDirty") /\ want[u] = id'[g]
<1> USE DEF table, tableLock, counters, contents, pageLock, request, search, modes,
            client, files, history, At
<1>0. /\ id \in [Frames -> Pages \cup {None}] /\ restarts \in Nat /\ restarts' = restarts
      /\ \A g \in freeSlots : pins[g] = 0
  BY DEF BufferInv, TypeOK, TableConsistent
<1>1. ASSUME NEW t \in Threads, EnterTable(t) PROVE Reuse
  BY <1>1 DEF EnterTable
<1>2. ASSUME NEW t \in Threads, HitPinned(t) PROVE Reuse
  BY <1>2 DEF HitPinned, Hit
<1>3. ASSUME NEW t \in Threads, HitUnpinnedShared(t) PROVE Reuse
  BY <1>3 DEF HitUnpinnedShared, Hit
<1>4. ASSUME NEW t \in Threads, HitUnpinnedExclusive(t) PROVE Reuse
  BY <1>4 DEF HitUnpinnedExclusive, Hit
<1>5. ASSUME NEW t \in Threads, MissShared(t) PROVE Reuse
  BY <1>5 DEF MissShared, Miss
<1>6. ASSUME NEW t \in Threads, StartScan(t) PROVE Reuse
  BY <1>6 DEF StartScan, Miss
<1>7. ASSUME NEW t \in Threads, NEW f \in Frames, UseFreeSlot(t, f) PROVE
    Reuse
  <2>1. \A g \in Frames : id'[g] # id[g] => g = f
    BY <1>7, <1>0 DEF UseFreeSlot
  <2>2. Users(f) = {}
    BY <1>7, <1>0, UnpinnedUnused DEF UseFreeSlot, Users
  <2> QED BY <2>1, <2>2
<1>8. ASSUME NEW t \in Threads, UndoPin(t) PROVE Reuse
  BY <1>8 DEF UndoPin
<1>9. ASSUME NEW t \in Threads, LockForLoad(t) PROVE Reuse
  BY <1>9 DEF LockForLoad, LockPage
<1>10. ASSUME NEW t \in Threads, Load(t) PROVE Reuse
  BY <1>10 DEF Load, UnlockPage
<1>11. ASSUME NEW t \in Threads, SkipEntry(t) PROVE Reuse
  BY <1>11 DEF SkipEntry
<1>12. ASSUME NEW t \in Threads, ScanLRU(t) PROVE Reuse
  BY <1>12 DEF ScanLRU
<1>13. ASSUME NEW t \in Threads, Raise(t) PROVE Reuse
  BY <1>13 DEF Raise
<1>14. ASSUME NEW t \in Threads, FindVictim(t) PROVE Reuse
  BY <1>14 DEF FindVictim
<1>15. ASSUME NEW t \in Threads, PinVictim(t) PROVE Reuse
  BY <1>15 DEF PinVictim
<1>16. ASSUME NEW t \in Threads, TestDirty(t) PROVE Reuse
  BY <1>16 DEF TestDirty
<1>17. ASSUME NEW t \in Threads, MarkClean(t) PROVE Reuse
  BY <1>17 DEF MarkClean
<1>18. ASSUME NEW t \in Threads, LockForSave(t) PROVE Reuse
  BY <1>18 DEF LockForSave, LockPage
<1>19. ASSUME NEW t \in Threads, Save(t) PROVE Reuse
  BY <1>19 DEF Save, UnlockPage
<1>20. ASSUME NEW t \in Threads, Relock(t) PROVE Reuse
  BY <1>20 DEF Relock
<1>21. ASSUME NEW t \in Threads, Recheck(t) PROVE Reuse
  BY <1>21 DEF Recheck
<1>22. ASSUME NEW t \in Threads, GiveUp(t) PROVE Reuse
  BY <1>22 DEF GiveUp
<1>23. ASSUME NEW t \in Threads, Evict(t) PROVE Reuse
  <2>1. frame[t] \in Frames /\ pins[frame[t]] = 1 /\ Uses(t, frame[t]) /\ pc[t] = "recheckDirty"
    BY <1>23 DEF Evict, BufferInv, LocalsOK, FrameOK, VictimOK, Uses, PinSteps
  <2>2. id' = [id EXCEPT ![frame[t]] = want[t]]
    BY <1>23 DEF Evict
  <2>3. \A u \in Users(frame[t]) : u = t
    BY <2>1, SoleUser DEF Users
  <2> QED BY <1>0, <2>1, <2>2, <2>3
<1>24. ASSUME NEW t \in Threads, ChooseMode(t) PROVE Reuse
  BY <1>24 DEF ChooseMode
<1>25. ASSUME NEW t \in Threads, EnterPage(t) PROVE Reuse
  BY <1>25 DEF EnterPage, LockPage
<1>26. ASSUME NEW t \in Threads, ReleasePage(t) PROVE Reuse
  BY <1>26 DEF ReleasePage, UnlockPage
<1>27. ASSUME NEW t \in Threads, DecPins(t) PROVE Reuse
  BY <1>27 DEF DecPins
<1>28. ASSUME NEW t \in Threads, NEW p \in Pages, NEW k \in Kinds, PinPage(t,
    p, k) PROVE Reuse
  BY <1>28 DEF PinPage, Call
<1>29. ASSUME NEW t \in Threads, NEW p \in Pages, CreatePage(t, p) PROVE Reuse
  BY <1>29 DEF CreatePage, Call
<1>30. ASSUME NEW t \in Threads, NEW f \in Frames, Write(t, f) PROVE Reuse
  BY <1>30 DEF Write
<1>31. ASSUME NEW t \in Threads, NEW f \in Frames, NEW d \in BOOLEAN,
    UnpinPage(t, f, d) PROVE Reuse
  BY <1>31 DEF UnpinPage
<1>32. ASSUME Flush PROVE Reuse
  BY <1>32 DEF Flush
<1>33. ASSUME FlushCutShort \/ Restart PROVE Reuse
  <2>1. PICK pages \in SUBSET Pages : StartAgain(pages)
    BY <1>33, EndFacts DEF BufferInv
  <2> QED BY <2>1, <1>0 DEF StartAgain
<1>34. ASSUME UNCHANGED vars PROVE Reuse
  BY <1>34 DEF vars
<1>35. Reuse
  BY <1>1, <1>2, <1>3, <1>4, <1>5, <1>6, <1>7, <1>8, <1>9, <1>10, <1>11,
      <1>12, <1>13, <1>14, <1>15, <1>16, <1>17, <1>18, <1>19, <1>20, <1>21,
      <1>22, <1>23, <1>24, <1>25, <1>26, <1>27, <1>28, <1>29, <1>30, <1>31,
      <1>32, <1>33, <1>34 DEF Next, Pin, Lookup, Eviction, Unpin, Caller
<1> QED BY <1>35

(* No thread that uses a frame, other than the one that evicts its page,    *)
(* ever sees the frame given to another page.                               *)
THEOREM EvictionSafe == Spec => EvictsOnlyUnused
<1>1. BufferInv /\ [Next]_vars =>
        [restarts' = restarts =>
           \A f \in Frames : id'[f] # id[f] =>
             \A t \in Users(f) : At(t, "recheckDirty") /\ want[t] = id'[f]]_vars
  BY ReuseStep
<1> QED BY <1>1, Invariant, PTL DEF Spec, EvictsOnlyUnused
=============================================================================
