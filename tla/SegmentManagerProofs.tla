------------------------ MODULE SegmentManagerProofs ------------------------
(***************************************************************************)
(* Theorems about the segment manager, for any number of threads and       *)
(* segments: the set of free segments is exact, nobody finds a full        *)
(* segment, and whenever the process ends the file can be opened again.    *)
(***************************************************************************)
EXTENDS SegmentManagerInv, FiniteSetTheorems, WellFoundedInduction, TLAPS

(***************************************************************************)
(* One segment.                                                            *)
(***************************************************************************)
LEMMA AfterCreateOK ==
  ASSUME NEW s \in SegmentType, CountsOK(s), FreeBlocks(s) >= 1, NEW f,
         s.deleted > 1 => LET n == StoredID(f[Position(s, s.head)]) IN
                          n \in Nat /\ n < s.allocated
  PROVE  LET r == AfterCreate(s, f) IN
         /\ r \in SegmentType /\ CountsOK(r) /\ FreeBlocks(r) = FreeBlocks(s) - 1
         /\ r.ready = s.ready /\ r.offset = s.offset /\ r.allocated = s.allocated
         /\ CanCreate(s) /\ CreatedBlock(s) \in Nat /\ CreatedBlock(s) < s.allocated
<1> DEFINE n == StoredID(f[Position(s, s.head)])
           r == AfterCreate(s, f)
<1>0. /\ s.ready \in BOOLEAN /\ s.offset \in Nat /\ s.allocated \in Nat
      /\ s.occupied \in Nat /\ s.deleted \in Nat
      /\ s.occupied <= s.allocated /\ (s.deleted > 0 => MayDelete /\ s.head \in Nat /\ s.head < s.allocated)
      /\ s.allocated - s.occupied + s.deleted >= 1
  BY DEF SegmentType, CountsOK, FreeBlocks
<1>1. CASE s.deleted > 0
  <2>1. /\ r = [s EXCEPT !.deleted = s.deleted - 1, !.head = IF s.deleted > 1 THEN n ELSE None]
    BY <1>1 DEF AfterCreate
  <2>2. /\ r \in SegmentType /\ r.ready = s.ready /\ r.offset = s.offset
        /\ r.allocated = s.allocated /\ r.occupied = s.occupied
        /\ r.deleted = s.deleted - 1 /\ (s.deleted > 1 => r.head = n)
    <3> HIDE DEF n, r
    <3> DEFINE h == IF s.deleted > 1 THEN n ELSE None
    <3>1. h \in Nat \cup {None} /\ s.deleted - 1 \in Nat
      BY <1>0, <1>1 DEF n
    <3>2. r = [s EXCEPT !.deleted = s.deleted - 1, !.head = h]
      BY <2>1
    <3>3. s.deleted > 1 => h = n
      OBVIOUS
    <3> HIDE DEF h
    <3> QED BY <3>1, <3>2, <3>3 DEF SegmentType
  <2> HIDE DEF r
  <2>3. CountsOK(r) /\ FreeBlocks(r) = FreeBlocks(s) - 1
    BY <1>0, <1>1, <2>2 DEF CountsOK, FreeBlocks
  <2> QED BY <1>0, <1>1, <2>2, <2>3 DEF CanCreate, CreatedBlock, r
<1>2. CASE ~(s.deleted > 0)
  <2>1. r = [s EXCEPT !.occupied = s.occupied + 1]
    BY <1>2 DEF AfterCreate
  <2>2. /\ r \in SegmentType /\ r.ready = s.ready /\ r.offset = s.offset
        /\ r.allocated = s.allocated /\ r.occupied = s.occupied + 1
        /\ r.deleted = s.deleted
    BY <1>0, <2>1 DEF SegmentType
  <2> HIDE DEF r
  <2>3. CountsOK(r) /\ FreeBlocks(r) = FreeBlocks(s) - 1 /\ s.occupied < s.allocated
    BY <1>0, <1>2, <2>2 DEF CountsOK, FreeBlocks
  <2> QED BY <1>0, <1>2, <2>2, <2>3 DEF CanCreate, CreatedBlock, r
<1> QED BY <1>1, <1>2

LEMMA AfterDeleteOK ==
  ASSUME NEW s \in SegmentType, CountsOK(s), MayDelete, NEW b \in Nat, b < s.allocated
  PROVE  LET r == AfterDelete(s, b) IN
         /\ r \in SegmentType /\ CountsOK(r) /\ FreeBlocks(r) > 0
         /\ r.ready = s.ready /\ r.offset = s.offset /\ r.allocated = s.allocated
<1> DEFINE r == AfterDelete(s, b)
<1>0. /\ s.allocated \in Nat /\ s.occupied \in Nat /\ s.deleted \in Nat
      /\ s.occupied <= s.allocated
  BY DEF SegmentType, CountsOK
<1>1. r = [s EXCEPT !.deleted = s.deleted + 1, !.head = b]
  BY DEF AfterDelete
<1>2. /\ r \in SegmentType /\ r.ready = s.ready /\ r.offset = s.offset
      /\ r.allocated = s.allocated /\ r.occupied = s.occupied
      /\ r.deleted = s.deleted + 1 /\ r.head = b
  <2>1. b \in Nat \cup {None} /\ s.deleted + 1 \in Nat
    BY <1>0
  <2> HIDE DEF r
  <2>2. r = [s EXCEPT !.deleted = s.deleted + 1, !.head = b]
    BY <1>1
  <2> QED BY <2>1, <2>2 DEF SegmentType
<1> HIDE DEF r
<1>3. CountsOK(r) /\ FreeBlocks(r) > 0
  BY <1>0, <1>2 DEF CountsOK, FreeBlocks
<1> QED BY <1>2, <1>3 DEF r

LEMMA NextSizeOK == ASSUME TypeOK PROVE NextSize \in Nat /\ NextSize >= 2
<1>1. /\ lastAllocatedBlocks \in Nat /\ GrowthNum \in Nat /\ GrowthDen \in Nat \ {0}
      /\ MinBlocks \in Nat /\ MinBlocks >= 2
  BY SizesAssumption DEF TypeOK
<1>2. lastAllocatedBlocks * GrowthNum \in Nat
  BY <1>1
<1>3. \A x \in Nat : x \div GrowthDen \in Nat
  BY <1>1
<1>4. (lastAllocatedBlocks * GrowthNum) \div GrowthDen \in Nat
  BY <1>2, <1>3
<1> QED BY <1>1, <1>4 DEF NextSize, MaxOf

(***************************************************************************)
(* Where things are in the file.                                           *)
(***************************************************************************)
LEMMA Places ==
  ASSUME SegmentsInv
  PROVE  /\ numberOfSegments \in Nat /\ FileSize \in Nat
         /\ Indices = 0 .. numberOfSegments - 1 /\ DOMAIN file = 0 .. FileSize - 1
         /\ \A i \in Indices : segment[i] \in SegmentType /\ i \in Nat
         /\ \A i \in Indices : segment[i].ready =>
              /\ segment[i].offset \in DOMAIN file \ {0}
              /\ \A b \in Nat : b < segment[i].allocated =>
                   Position(segment[i], b) \in DOMAIN file \ {0}
<1>1. /\ numberOfSegments \in Nat /\ FileSize \in Nat
      /\ Indices = 0 .. numberOfSegments - 1 /\ DOMAIN file = 0 .. FileSize - 1
      /\ \A i \in Indices : segment[i] \in SegmentType
  BY DEF SegmentsInv, TypeOK, LayoutOK, FileSize
<1>2. \A i \in Indices : i \in Nat
  BY <1>1
<1>3. ASSUME NEW i \in Indices, segment[i].ready
      PROVE  /\ segment[i].offset \in DOMAIN file \ {0}
             /\ \A b \in Nat : b < segment[i].allocated =>
                   Position(segment[i], b) \in DOMAIN file \ {0}
  <2>1. /\ segment[i].offset \in Nat /\ segment[i].allocated \in Nat
        /\ segment[i].offset >= 1
        /\ segment[i].offset + 1 + segment[i].allocated <= FileSize
    BY <1>1, <1>3 DEF SegmentsInv, LayoutOK, OffsetOf, SizeOf, End, SegmentType
  <2> DEFINE o == segment[i].offset
             a == segment[i].allocated
  <2>2. o \in DOMAIN file \ {0} /\ \A b \in Nat : b < a => o + 1 + b \in DOMAIN file \ {0}
    <3> HIDE DEF o, a
    <3>1. o \in Nat /\ a \in Nat /\ o >= 1 /\ o + 1 + a <= FileSize
      BY <2>1 DEF o, a
    <3> QED BY <1>1, <3>1
  <2> QED BY <2>2 DEF Position
<1> QED BY <1>1, <1>2, <1>3

(* No block is where a header is, or where a block of another segment is. *)
LEMMA Disjoint ==
  ASSUME SegmentsInv, NEW i \in Indices, NEW j \in Indices,
         segment[i].ready, segment[j].ready, NEW b \in Nat, b < segment[i].allocated
  PROVE  /\ Position(segment[i], b) # segment[j].offset
         /\ \A c \in Nat : c < segment[j].allocated /\ i # j =>
              Position(segment[i], b) # Position(segment[j], c)
         /\ i # j => segment[i].offset # segment[j].offset
<1>1. /\ segment[i].offset \in Nat /\ segment[i].allocated \in Nat
      /\ segment[j].offset \in Nat /\ segment[j].allocated \in Nat
      /\ i \in Nat /\ j \in Nat
  BY Places DEF SegmentType
<1>2. /\ i < j => segment[i].offset + 1 + segment[i].allocated <= segment[j].offset
      /\ j < i => segment[j].offset + 1 + segment[j].allocated <= segment[i].offset
  BY DEF SegmentsInv, LayoutOK, OffsetOf, SizeOf, End
<1> QED BY <1>1, <1>2 DEF Position

(***************************************************************************)
(* What the invariant says of a thread that has a mutex.                   *)
(***************************************************************************)

(* A thread that works on a segment has its mutex, and something runs. *)
LEMMA Working ==
  ASSUME SegmentsInv, NEW t \in Threads, pc[t] # "client"
  PROVE  /\ index[t] \in Indices /\ flushing = None /\ ~clean
         /\ pc[t] \in {"initialize", "create", "delete"} => segmentMutex[index[t]] = t
         /\ pc[t] \in {"lockToCreate", "lockToDelete"} => mutex = t
         /\ pc[t] \in {"initialize", "lockToCreate", "create", "lockToDelete", "delete"}
BY DEF SegmentsInv, TypeOK, MutexesOK, FlushOK, Idle

(* Whoever creates or deletes a block finds the segment initialised. *)
LEMMA WorksOnReady ==
  ASSUME SegmentsInv, NEW t \in Threads, pc[t] \in {"create", "delete"}
  PROVE  segment[index[t]].ready
BY Working DEF SegmentsInv, ReadyOK

(* A segment that nobody has locked is initialised, and free if and only if *)
(* it says so.                                                              *)
LEMMA UnlockedSegment ==
  ASSUME SegmentsInv, NEW i \in Indices, segmentMutex[i] = None
  PROVE  segment[i].ready /\ (i \in freeSegments <=> FreeBlocks(segment[i]) > 0)
<1>1. None \notin Threads
  BY ThreadsAssumption
<1> QED BY <1>1 DEF SegmentsInv, ReadyOK, FreeOK, IsFree, OwnerAt

(***************************************************************************)
(* Initially.                                                              *)
(***************************************************************************)
LEMMA SegmentsInit == ASSUME Init PROVE SegmentsInv
<1>1. numberOfSegments = 0 /\ Indices = {}
  BY FS_EmptySet DEF Init, numberOfSegments, Indices
<1>2. DOMAIN file = {0} /\ FileSize = 1
  BY FS_Singleton DEF Init, FileSize
<1>3. TypeOK
  <2>1. 0 .. 0 - 1 = {} /\ 0 .. 1 - 1 = {0}
    OBVIOUS
  <2>2. Indices = 0 .. numberOfSegments - 1
    BY <1>1, <2>1
  <2>3. DOMAIN file = 0 .. Cardinality(DOMAIN file) - 1
    BY <1>2, <2>1 DEF FileSize
  <2> QED BY <1>1, <2>2, <2>3 DEF Init, TypeOK, Indices
<1>4. MutexesOK /\ ReadyOK /\ ChoicesOK /\ FreeOK
  BY <1>1, ThreadsAssumption DEF Init, MutexesOK, ReadyOK, ChoicesOK, FreeOK
<1>5. LayoutOK /\ SegmentsOK
  BY <1>1, <1>2 DEF LayoutOK, SegmentsOK
<1>6. FileOK
  BY <1>1, <1>2 DEF Init, FileOK, ManagerHeader
<1>7. FlushOK /\ BlocksOK
  BY <1>1 DEF Init, FlushOK, BlocksOK, Idle, Flushed, ManagerHeader
<1> QED BY <1>3, <1>4, <1>5, <1>6, <1>7 DEF SegmentsInv

(***************************************************************************)
(* Steps that leave the segments where they are.                           *)
(***************************************************************************)
SamePlaces ==
  /\ Indices' = Indices
  /\ \A i \in Indices : /\ segment'[i].ready = segment[i].ready
                        /\ segment'[i].offset = segment[i].offset
                        /\ segment'[i].allocated = segment[i].allocated
                        /\ ~segment[i].ready => segmentMutex'[i] = segmentMutex[i]

LEMMA SameLayout ==
  ASSUME SegmentsInv, SamePlaces, extent' = extent, DOMAIN file' = DOMAIN file
  PROVE  LayoutOK'
<1>1. numberOfSegments' = numberOfSegments /\ FileSize' = FileSize
  BY DEF SamePlaces, numberOfSegments, FileSize
<1>2. \A i \in Indices : OffsetOf(i)' = OffsetOf(i) /\ SizeOf(i)' = SizeOf(i) /\ End(i)' = End(i)
  BY DEF SamePlaces, OffsetOf, SizeOf, End
<1>3. Indices' = Indices /\ \A i \in Indices : i # 0 => i - 1 \in Indices
  BY Places DEF SamePlaces
<1> QED BY <1>1, <1>2, <1>3 DEF SegmentsInv, LayoutOK

LEMMA SameHeaders ==
  ASSUME SegmentsInv, SamePlaces, UNCHANGED file
  PROVE  FileOK'
<1>1. numberOfSegments' = numberOfSegments /\ Indices' = Indices
  BY DEF SamePlaces, numberOfSegments
<1>2. \A p \in DOMAIN file' : file'[p].kind = "link" =>
        MayDelete /\ \E i \in Indices' : \E b \in 0 .. segment'[i].allocated - 1 :
          /\ segment'[i].ready /\ p = Position(segment'[i], b)
          /\ file'[p].next \in Nat /\ file'[p].next < segment'[i].allocated
  BY DEF SegmentsInv, SamePlaces, FileOK, Position
<1>3. \A i \in Indices' : i < file'[0].number =>
        LET h == file'[segment'[i].offset] IN
        /\ segment'[i].ready /\ h \in HeaderType /\ CountsOK(h)
        /\ h.allocated = segment'[i].allocated
  BY DEF SegmentsInv, SamePlaces, FileOK
<1> QED BY <1>1, <1>2, <1>3 DEF SegmentsInv, FileOK

(* An owned block stays in a segment that is initialised. *)
LEMMA SameBlocks ==
  ASSUME SegmentsInv, SamePlaces, live' \subseteq live, durable' \subseteq durable,
         file'[0] = file[0]
  PROVE  BlocksOK'
BY DEF SegmentsInv, TypeOK, SamePlaces, BlocksOK

(***************************************************************************)
(* createBlock.                                                            *)
(***************************************************************************)

(* A segment is appended where the file's segments end: all of them are     *)
(* initialised, so that the last one can be asked.                          *)
LEMMA NextOffsetOK ==
  ASSUME SegmentsInv, freeSegments = {}
  PROVE  /\ NextOffset \in Nat /\ NextOffset >= 1
         /\ NextOffset = IF numberOfSegments = 0 THEN 1 ELSE End(numberOfSegments - 1)
         /\ \A i \in Indices : segment[i].ready /\ End(i) <= NextOffset
<1> DEFINE n == numberOfSegments
<1>1. /\ n \in Nat /\ Indices = 0 .. n - 1
      /\ \A i \in Indices : segment[i] \in SegmentType /\ i \in Nat
  BY Places
<1>2. \A i \in Indices : segment[i].ready
  BY DEF SegmentsInv, FreeOK, IsFree
<1>3. /\ NextOffset \in Nat /\ NextOffset >= 1
      /\ NextOffset = IF n = 0 THEN 1 ELSE End(n - 1)
      /\ \A i \in Indices : End(i) <= NextOffset
  <2>1. CASE n = 0
    BY <1>1, <2>1 DEF NextOffset
  <2>2. CASE n # 0
    <3>1. n - 1 \in Indices /\ n - 1 \in Nat
      BY <1>1, <2>2
    <3>2. segment[n - 1] \in SegmentType /\ segment[n - 1].ready
      BY <1>1, <1>2, <3>1
    <3>3. NextOffset = segment[n - 1].offset + (1 + segment[n - 1].allocated)
      BY <2>2 DEF NextOffset, LastSegment, TotalSize
    <3>4. NextOffset = End(n - 1) /\ NextOffset \in Nat /\ NextOffset >= 1
      BY <3>2, <3>3 DEF End, OffsetOf, SizeOf, SegmentType
    <3>5. ASSUME NEW i \in Indices PROVE End(i) <= NextOffset
      <4>1. CASE i = n - 1
        BY <3>4, <4>1
      <4>2. CASE i # n - 1
        <5>1. i < n - 1
          BY <1>1, <4>2
        <5>2. End(i) <= OffsetOf(n - 1)
          BY <3>1, <5>1 DEF SegmentsInv, LayoutOK
        <5>3. segment[i].ready /\ segment[i] \in SegmentType
          BY <1>1, <1>2
        <5> QED BY <3>2, <3>3, <5>2, <5>3 DEF End, OffsetOf, SizeOf, SegmentType
      <4> QED BY <4>1, <4>2
    <3> QED BY <2>2, <3>4, <3>5
  <2> QED BY <2>1, <2>2
<1> QED BY <1>2, <1>3

LEMMA AppendSegmentInv ==
  ASSUME SegmentsInv, NEW t \in Threads, AppendSegment(t)
  PROVE  SegmentsInv'
<1> DEFINE n == numberOfSegments
           size == NextOffset + 1 + NextSize
<1>0. /\ pc[t] = "client" /\ flushing = None /\ mutex = None /\ freeSegments = {}
      /\ lastAllocatedBlocks' = NextSize
      /\ segment' = [i \in Indices \cup {n} |->
                       IF i \in Indices THEN segment[i] ELSE Uninitialized]
      /\ segmentMutex' = [i \in Indices \cup {n} |->
                            IF i \in Indices THEN segmentMutex[i] ELSE t]
      /\ freeSegments' = {n}
      /\ file' = Truncated(size)
      /\ pc' = [pc EXCEPT ![t] = "initialize"]
      /\ index' = [index EXCEPT ![t] = n]
      /\ block' = [block EXCEPT ![t] = None]
      /\ extent' = [extent EXCEPT ![t] = <<NextOffset, NextSize>>]
      /\ clean' = FALSE
      /\ UNCHANGED <<mutex, flushing, live, durable>>
  BY DEF AppendSegment, Enter, Appended, At, MarkedFree
<1>1. /\ n \in Nat /\ FileSize \in Nat /\ Indices = 0 .. n - 1
      /\ DOMAIN file = 0 .. FileSize - 1
      /\ \A i \in Indices : segment[i] \in SegmentType /\ i \in Nat
  BY Places
<1>2. n \notin Indices /\ Indices' = Indices \cup {n} /\ n' = n + 1
  <2>1. Indices' = Indices \cup {n} /\ n \notin Indices
    BY <1>0, <1>1 DEF Indices
  <2>2. Indices' = 0 .. n
    BY <1>1, <2>1
  <2>3. n' = n + 1
    BY <1>1, <2>2, FS_Interval DEF numberOfSegments
  <2> QED BY <2>1, <2>3
<1>3. /\ \A i \in Indices : segment'[i] = segment[i] /\ segmentMutex'[i] = segmentMutex[i]
      /\ segment'[n] = Uninitialized /\ segmentMutex'[n] = t
  BY <1>0, <1>2
<1>4. \A i \in Indices : segment[i].ready /\ ~OwnerAt(i, "delete")
  BY <1>0 DEF SegmentsInv, FreeOK, IsFree
<1>5. NextSize \in Nat /\ NextSize >= 2
  BY NextSizeOK DEF SegmentsInv
<1>6. /\ NextOffset \in Nat /\ NextOffset >= 1
      /\ NextOffset = IF n = 0 THEN 1 ELSE End(n - 1)
      /\ \A i \in Indices : End(i) <= NextOffset
  BY <1>0, NextOffsetOK
<1>7. size \in Nat /\ size > NextOffset /\ size = NextOffset + 1 + NextSize
  BY <1>5, <1>6
<1> HIDE DEF n, size
<1>8. /\ DOMAIN file' = 0 .. size - 1 /\ FileSize' = size
      /\ \A p \in DOMAIN file' : file'[p] = IF p \in DOMAIN file THEN file[p] ELSE Zeros
  <2>1. /\ DOMAIN file' = 0 .. size - 1
        /\ \A p \in DOMAIN file' : file'[p] = IF p \in DOMAIN file THEN file[p] ELSE Zeros
    BY <1>0 DEF Truncated
  <2>2. Cardinality(0 .. size - 1) = size
    BY <1>7, FS_Interval
  <2> QED BY <2>1, <2>2 DEF FileSize
<1>9. \A p \in Nat : p < NextOffset /\ p \in DOMAIN file => p \in DOMAIN file' /\ file'[p] = file[p]
  BY <1>6, <1>7, <1>8
<1>10. /\ \A u \in Threads : u # t => /\ pc'[u] = pc[u] /\ index'[u] = index[u]
                                      /\ block'[u] = block[u] /\ extent'[u] = extent[u]
       /\ pc'[t] = "initialize" /\ index'[t] = n /\ block'[t] = None
       /\ extent'[t] = <<NextOffset, NextSize>>
  BY <1>0 DEF SegmentsInv, TypeOK
<1>11. \A u \in Threads : pc[u] # "client" => index[u] \in Indices /\ u # t
  BY <1>0, Working
<1>12. TypeOK'
  <2>1. Indices' = 0 .. n' - 1
    BY <1>1, <1>2 DEF n
  <2>2. segment' \in [Indices' -> SegmentType]
    BY <1>0, <1>1, <1>2 DEF Uninitialized, SegmentType
  <2>3. segmentMutex' \in [Indices' -> Threads \cup {None}]
    BY <1>0, <1>2 DEF SegmentsInv, TypeOK
  <2>4. /\ pc' \in [Threads -> {"client", "initialize", "lockToCreate", "create",
                                "lockToDelete", "delete", "raised"}]
        /\ index' \in [Threads -> Indices' \cup {None}]
        /\ block' \in [Threads -> Nat \cup {None}]
    BY <1>0, <1>2 DEF SegmentsInv, TypeOK
  <2>5. extent' \in [Threads -> Nat \X Nat]
    BY <1>0, <1>5, <1>6 DEF SegmentsInv, TypeOK
  <2>6. DOMAIN file' = 0 .. Cardinality(DOMAIN file') - 1
    BY <1>8 DEF FileSize
  <2>7. /\ lastAllocatedBlocks' \in Nat /\ freeSegments' \subseteq Indices'
        /\ mutex' \in Threads \cup {None} /\ flushing' \in Nat \cup {None}
        /\ durable' \subseteq live' /\ live' \subseteq Indices' \X Nat /\ clean' \in BOOLEAN
    BY <1>0, <1>2, <1>5 DEF SegmentsInv, TypeOK
  <2> QED BY <2>1, <2>2, <2>3, <2>4, <2>5, <2>6, <2>7 DEF TypeOK, n
<1>13. MutexesOK'
  <2>1. \A u \in Threads :
          /\ mutex' = u <=> pc'[u] \in {"lockToCreate", "lockToDelete"}
          /\ pc'[u] # "client" => index'[u] \in Indices'
          /\ pc'[u] # "raised"
    BY <1>0, <1>2, <1>10, <1>11 DEF SegmentsInv, MutexesOK
  <2>2. \A u \in Threads, i \in Indices' :
          segmentMutex'[i] = u <=> pc'[u] \in {"initialize", "create", "delete"} /\ index'[u] = i
    BY <1>0, <1>2, <1>3, <1>10, <1>11 DEF SegmentsInv, MutexesOK
  <2> QED BY <2>1, <2>2 DEF MutexesOK
<1>14. ReadyOK'
  BY <1>2, <1>3, <1>4, <1>10, <1>11 DEF SegmentsInv, ReadyOK, Uninitialized
<1>15. ChoicesOK'
  BY <1>0, <1>2, <1>3, <1>10, <1>11 DEF SegmentsInv, ChoicesOK
<1>16. FreeOK'
  <2>1. \A i : i = n => IsFree(i)'
    BY <1>3 DEF IsFree, Uninitialized
  <2>2. ASSUME NEW i \in Indices PROVE ~IsFree(i)'
    <3>1. ~IsFree(i)
      BY <1>0 DEF SegmentsInv, FreeOK
    <3>2. \A label \in {"create", "delete"} : OwnerAt(i, label)' <=> OwnerAt(i, label)
      BY <1>0, <1>3, <1>10, <1>11 DEF OwnerAt, SegmentsInv, MutexesOK
    <3> QED BY <1>3, <3>1, <3>2 DEF IsFree
  <2> QED BY <1>0, <1>2, <2>1, <2>2 DEF FreeOK
<1>17. /\ \A i \in Indices : OffsetOf(i)' = OffsetOf(i) /\ SizeOf(i)' = SizeOf(i) /\ End(i)' = End(i)
       /\ \A i : i = n => OffsetOf(i)' = NextOffset /\ SizeOf(i)' = NextSize /\ End(i)' = size
  <2>1. \A i \in Indices : OffsetOf(i)' = OffsetOf(i) /\ SizeOf(i)' = SizeOf(i)
    BY <1>3, <1>4 DEF OffsetOf, SizeOf
  <2>2. \A i : i = n => OffsetOf(i)' = NextOffset /\ SizeOf(i)' = NextSize
    BY <1>3, <1>10 DEF OffsetOf, SizeOf, Uninitialized
  <2> QED BY <1>7, <2>1, <2>2 DEF End
<1>18. LayoutOK'
  <2>1. numberOfSegments' \in Nat /\ FileSize' \in Nat
    BY <1>1, <1>2, <1>7, <1>8 DEF n
  <2>2. ASSUME NEW i \in Indices'
        PROVE  /\ OffsetOf(i)' >= 1 /\ SizeOf(i)' >= 2 /\ End(i)' <= FileSize'
               /\ OffsetOf(i)' = IF i = 0 THEN 1 ELSE End(i - 1)'
               /\ \A j \in Indices' : i < j => End(i)' <= OffsetOf(j)'
    <3>1. CASE i = n
      <4>1. \A j \in Indices' : ~(n < j)
        BY <1>1, <1>2 DEF n
      <4>2. n # 0 => n - 1 \in Indices
        BY <1>1 DEF n
      <4> QED BY <1>5, <1>6, <1>7, <1>8, <1>17, <3>1, <4>1, <4>2 DEF n
    <3>2. CASE i # n
      <4>1. i \in Indices /\ i \in Nat
        BY <1>1, <1>2, <3>2
      <4>2. i # 0 => i - 1 \in Indices
        BY <1>1, <4>1 DEF n
      <4>3. End(i) <= NextOffset /\ End(i) <= size
        <5>1. End(i) <= NextOffset
          BY <1>6, <4>1
        <5>2. segment[i].ready /\ segment[i] \in SegmentType
          BY <1>1, <1>4, <4>1
        <5>3. End(i) \in Nat
          BY <5>2 DEF End, OffsetOf, SizeOf, SegmentType
        <5> QED BY <1>6, <1>7, <5>1, <5>3
      <4>4. \A j \in Indices : i < j => End(i) <= OffsetOf(j)
        BY <4>1 DEF SegmentsInv, LayoutOK
      <4>5. /\ OffsetOf(i) >= 1 /\ SizeOf(i) >= 2
            /\ OffsetOf(i) = IF i = 0 THEN 1 ELSE End(i - 1)
        BY <4>1 DEF SegmentsInv, LayoutOK
      <4> QED BY <1>2, <1>8, <1>17, <4>1, <4>2, <4>3, <4>4, <4>5
    <3> QED BY <3>1, <3>2
  <2> QED BY <2>1, <2>2 DEF LayoutOK
<1>19. SegmentsOK'
  <2>1. CountsOK(Uninitialized)
    BY DEF CountsOK, Uninitialized
  <2> QED BY <1>2, <1>3, <2>1 DEF SegmentsInv, SegmentsOK
<1>20. FileOK'
  <2>1. 0 \in DOMAIN file' /\ file'[0] = file[0]
    BY <1>6, <1>9 DEF SegmentsInv, FileOK
  <2>2. \A i \in Indices : segment[i].offset \in DOMAIN file' /\ file'[segment[i].offset] = file[segment[i].offset]
    <3> TAKE i \in Indices
    <3>1. segment[i].offset \in Nat /\ segment[i].offset < NextOffset
      BY <1>1, <1>4, <1>6, SMTT(30) DEF End, OffsetOf, SizeOf, SegmentType
    <3>2. segment[i].offset \in DOMAIN file
      BY <1>4, Places
    <3> QED BY <1>9, <3>1, <3>2
  <2>3. ASSUME NEW p \in DOMAIN file', file'[p].kind = "link"
        PROVE  MayDelete /\ \E i \in Indices' : \E b \in 0 .. segment'[i].allocated - 1 :
                 /\ segment'[i].ready /\ p = Position(segment'[i], b)
                 /\ file'[p].next \in Nat /\ file'[p].next < segment'[i].allocated
    <3>1. p \in DOMAIN file /\ file'[p] = file[p]
      BY <1>8, <2>3 DEF Zeros
    <3>2. MayDelete /\ \E i \in Indices : \E b \in 0 .. segment[i].allocated - 1 :
                 /\ segment[i].ready /\ p = Position(segment[i], b)
                 /\ file[p].next \in Nat /\ file[p].next < segment[i].allocated
      BY <2>3, <3>1 DEF SegmentsInv, FileOK
    <3> QED BY <1>2, <1>3, <3>1, <3>2
  <2>4. file'[0].number <= numberOfSegments'
    BY <1>1, <1>2, <2>1 DEF SegmentsInv, FileOK, n
  <2>5. ASSUME NEW i \in Indices', i < file'[0].number
        PROVE  LET h == file'[segment'[i].offset] IN
               /\ segment'[i].ready /\ h \in HeaderType /\ CountsOK(h)
               /\ h.allocated = segment'[i].allocated
    <3>1. i \in Indices
      BY <1>1, <1>2, <2>1, <2>5 DEF SegmentsInv, FileOK, n
    <3> QED BY <1>3, <2>1, <2>2, <2>5, <3>1 DEF SegmentsInv, FileOK
  <2> QED BY <2>1, <2>3, <2>4, <2>5 DEF SegmentsInv, FileOK
<1>21. FlushOK' /\ BlocksOK'
  <2>1. FlushOK'
    BY <1>0 DEF FlushOK
  <2>2. file'[0] = file[0]
    BY <1>6, <1>9 DEF SegmentsInv, FileOK
  <2> QED BY <1>0, <1>3, <2>1, <2>2 DEF SegmentsInv, TypeOK, BlocksOK
<1> QED BY <1>12, <1>13, <1>14, <1>15, <1>16, <1>18, <1>19, <1>20, <1>21 DEF SegmentsInv

LEMMA InitializeInv ==
  ASSUME SegmentsInv, NEW t \in Threads, Initialize(t)
  PROVE  SegmentsInv'
<1> DEFINE i == index[t]
           s == NewSegmentAt(extent[t][1], extent[t][2])
<1>0. /\ pc[t] = "initialize" /\ pc' = [pc EXCEPT ![t] = "create"]
      /\ segment' = [segment EXCEPT ![i] = s]
      /\ index' = [index EXCEPT ![t] = index[t]]
      /\ block' = [block EXCEPT ![t] = block[t]]
      /\ extent' = [extent EXCEPT ![t] = <<0, 0>>]
      /\ UNCHANGED <<lastAllocatedBlocks, freeSegments, mutex, segmentMutex, flushing,
                     file, live, durable, clean>>
  BY DEF Initialize, Enter, Go, Appended, At, locks, callers
<1>1. /\ i \in Indices /\ segmentMutex[i] = t /\ flushing = None /\ ~clean
      /\ ~segment[i].ready
  BY <1>0, Working DEF SegmentsInv, ReadyOK
<1>2. /\ extent[t][1] \in Nat /\ extent[t][2] \in Nat /\ extent[t][2] >= 2
      /\ extent[t][1] = OffsetOf(i) /\ extent[t][2] = SizeOf(i)
  <2>1. extent[t][1] = OffsetOf(i) /\ extent[t][2] = SizeOf(i)
    BY <1>1 DEF OffsetOf, SizeOf
  <2>2. SizeOf(i) >= 2
    BY <1>1 DEF SegmentsInv, LayoutOK
  <2>3. extent[t] \in Nat \X Nat
    BY DEF SegmentsInv, TypeOK
  <2> QED BY <2>1, <2>2, <2>3
<1>3. /\ s \in SegmentType /\ s.ready /\ s.offset = OffsetOf(i) /\ s.allocated = SizeOf(i)
      /\ CountsOK(s) /\ FreeBlocks(s) >= 2
  BY <1>2 DEF NewSegmentAt, SegmentType, CountsOK, FreeBlocks
<1> HIDE DEF i, s
<1>4. /\ Indices' = Indices /\ segment'[i] = s
      /\ \A j \in Indices : j # i => segment'[j] = segment[j]
  BY <1>0, <1>1 DEF Indices
<1>5. /\ index' = index /\ block' = block /\ pc'[t] = "create" /\ extent'[t] = <<0, 0>>
      /\ \A u \in Threads : u # t => pc'[u] = pc[u] /\ extent'[u] = extent[u]
  BY <1>0 DEF SegmentsInv, TypeOK
<1>6. TypeOK'
  <2>1. numberOfSegments' = numberOfSegments
    BY <1>4 DEF numberOfSegments
  <2>2. segment' \in [Indices' -> SegmentType]
    BY <1>0, <1>3, <1>4 DEF SegmentsInv, TypeOK
  <2>3. pc' \in [Threads -> {"client", "initialize", "lockToCreate", "create",
                             "lockToDelete", "delete", "raised"}]
    BY <1>0 DEF SegmentsInv, TypeOK
  <2>4. extent' \in [Threads -> Nat \X Nat]
    BY <1>0 DEF SegmentsInv, TypeOK
  <2> QED BY <1>0, <1>4, <1>5, <2>1, <2>2, <2>3, <2>4 DEF SegmentsInv, TypeOK
<1>7. MutexesOK'
  BY <1>0, <1>1, <1>4, <1>5 DEF SegmentsInv, MutexesOK, i
<1>8. \A j \in Indices : segmentMutex[j] = t => j = i
  BY DEF SegmentsInv, MutexesOK, i
<1>9. ReadyOK'
  <2>1. ASSUME NEW j \in Indices, ~segment'[j].ready
        PROVE  segmentMutex'[j] \in Threads /\ pc'[segmentMutex'[j]] = "initialize"
    BY <1>0, <1>3, <1>4, <1>5, <1>8, <2>1 DEF SegmentsInv, ReadyOK
  <2>2. ASSUME NEW u \in Threads, pc'[u] = "initialize" PROVE ~segment'[index'[u]].ready
    <3>1. u # t /\ pc[u] = "initialize"
      BY <1>5, <2>2
    <3>2. index[u] \in Indices /\ segmentMutex[index[u]] = u
      BY <3>1, Working
    <3>3. index[u] # i
      BY <1>1, <3>1, <3>2 DEF i
    <3> QED BY <1>4, <1>5, <3>1, <3>2, <3>3 DEF SegmentsInv, ReadyOK
  <2> QED BY <1>4, <2>1, <2>2 DEF ReadyOK
<1>10. ChoicesOK'
  <2>1. ASSUME NEW u \in Threads, u # t, pc[u] # "client"
        PROVE  index[u] \in Indices /\ (pc[u] \in {"create", "delete"} => index[u] # i)
    BY <1>1, <2>1, Working DEF i
  <2>2. \A u \in Threads : u # t /\ pc[u] = "lockToDelete" => index[u] # i
    BY <1>1 DEF SegmentsInv, ChoicesOK
  <2>3. FreeBlocks(s) >= 1
    <3>1. FreeBlocks(s) \in Int
      BY <1>3 DEF FreeBlocks, SegmentType
    <3> QED BY <1>3, <3>1
  <2> QED BY <1>0, <1>4, <1>5, <2>1, <2>2, <2>3 DEF SegmentsInv, ChoicesOK, i
<1>11. FreeOK'
  <2>1. i \in freeSegments
    BY <1>1 DEF SegmentsInv, FreeOK, IsFree
  <2>2. \A j \in Indices : j = i => IsFree(j)'
    <3>1. FreeBlocks(s) \in Int
      BY <1>3 DEF FreeBlocks, SegmentType
    <3>2. FreeBlocks(s) > 1 /\ FreeBlocks(s) > 0
      BY <1>3, <3>1
    <3> QED BY <1>4, <3>2 DEF IsFree
  <2>3. ASSUME NEW j \in Indices, j # i PROVE IsFree(j)' <=> IsFree(j)
    <3>1. \A label \in {"create", "delete"} : OwnerAt(j, label)' <=> OwnerAt(j, label)
      BY <1>0, <1>5, <1>8, <2>3 DEF OwnerAt
    <3> QED BY <1>4, <2>3, <3>1 DEF IsFree
  <2> QED BY <1>0, <1>4, <2>1, <2>2, <2>3 DEF SegmentsInv, FreeOK
<1>12. LayoutOK'
  <2>1. ASSUME NEW j \in Indices PROVE OffsetOf(j)' = OffsetOf(j) /\ SizeOf(j)' = SizeOf(j)
    <3>1. CASE j = i
      BY <1>3, <1>4, <3>1 DEF OffsetOf, SizeOf
    <3>2. CASE j # i
      <4>1. ~segment[j].ready => segmentMutex[j] \in Threads /\ segmentMutex[j] # t
        BY <1>8, <3>2 DEF SegmentsInv, ReadyOK
      <4> QED BY <1>0, <1>4, <1>5, <3>2, <4>1 DEF OffsetOf, SizeOf
    <3> QED BY <3>1, <3>2
  <2>2. \A j \in Indices : End(j)' = End(j)
    BY <2>1 DEF End
  <2>3. numberOfSegments' = numberOfSegments /\ FileSize' = FileSize
    BY <1>0, <1>4 DEF numberOfSegments, FileSize
  <2>4. \A j \in Indices : j # 0 => j - 1 \in Indices
    BY Places
  <2> QED BY <1>4, <2>1, <2>2, <2>3, <2>4 DEF SegmentsInv, LayoutOK
<1>13. SegmentsOK'
  BY <1>3, <1>4 DEF SegmentsInv, SegmentsOK
<1>14. FileOK'
  <2>1. numberOfSegments' = numberOfSegments
    BY <1>4 DEF numberOfSegments
  <2>2. \A j \in Indices : segment[j].ready => segment'[j] = segment[j]
    BY <1>1, <1>4
  <2>3. \A p \in DOMAIN file : file[p].kind = "link" =>
          MayDelete /\ \E j \in Indices : \E b \in 0 .. segment'[j].allocated - 1 :
            /\ segment'[j].ready /\ p = Position(segment'[j], b)
            /\ file[p].next \in Nat /\ file[p].next < segment'[j].allocated
    BY <2>2 DEF SegmentsInv, FileOK
  <2> QED BY <1>0, <1>4, <2>1, <2>2, <2>3 DEF SegmentsInv, FileOK
<1>15. FlushOK'
  BY <1>0, <1>1 DEF FlushOK
<1>16. BlocksOK'
  BY <1>0, <1>1, <1>4 DEF SegmentsInv, BlocksOK, TypeOK
<1> QED BY <1>6, <1>7, <1>9, <1>10, <1>11, <1>12, <1>13, <1>14, <1>15, <1>16 DEF SegmentsInv

LEMMA ChooseSegmentInv ==
  ASSUME SegmentsInv, NEW t \in Threads, ChooseSegment(t)
  PROVE  SegmentsInv'
<1> PICK i \in freeSegments : Enter(t, "lockToCreate", i, None)
  BY DEF ChooseSegment
<1>0. /\ pc[t] = "client" /\ flushing = None /\ mutex = None /\ mutex' = t /\ clean' = FALSE
      /\ pc' = [pc EXCEPT ![t] = "lockToCreate"]
      /\ index' = [index EXCEPT ![t] = i]
      /\ block' = [block EXCEPT ![t] = None]
      /\ UNCHANGED <<extent, segment, lastAllocatedBlocks, freeSegments, segmentMutex,
                     flushing, file, live, durable>>
  BY DEF ChooseSegment, Enter, At, manager
<1>1. i \in Indices
  BY DEF SegmentsInv, TypeOK
<1>2. /\ pc'[t] = "lockToCreate" /\ index'[t] = i
      /\ \A u \in Threads : u # t => pc'[u] = pc[u] /\ index'[u] = index[u] /\ block'[u] = block[u]
  BY <1>0 DEF SegmentsInv, TypeOK
<1>3. Indices' = Indices /\ numberOfSegments' = numberOfSegments /\ SamePlaces
  BY <1>0 DEF Indices, numberOfSegments, SamePlaces
<1>4. \A j \in Indices : segmentMutex[j] # t
  BY <1>0 DEF SegmentsInv, MutexesOK
<1>5. TypeOK'
  BY <1>0, <1>1, <1>3 DEF SegmentsInv, TypeOK
<1>6. MutexesOK'
  <2>1. \A u \in Threads : pc[u] \notin {"lockToCreate", "lockToDelete"}
    BY <1>0, ThreadsAssumption DEF SegmentsInv, MutexesOK
  <2> QED BY <1>0, <1>1, <1>2, <1>3, <2>1 DEF SegmentsInv, MutexesOK
<1>7. ReadyOK'
  <2>1. \A u \in Threads : pc'[u] = "initialize" => pc[u] = "initialize" /\ index'[u] = index[u]
    BY <1>2
  <2> QED BY <1>0, <1>2, <1>3, <1>4, <2>1 DEF SegmentsInv, ReadyOK
<1>8. ChoicesOK'
  BY <1>0, <1>2 DEF SegmentsInv, ChoicesOK
<1>9. FreeOK'
  <2>1. \A j \in Indices, label \in {"create", "delete"} : OwnerAt(j, label)' <=> OwnerAt(j, label)
    BY <1>0, <1>2, <1>4 DEF OwnerAt
  <2>2. \A j \in Indices : IsFree(j)' <=> IsFree(j)
    BY <1>0, <2>1 DEF IsFree
  <2> QED BY <1>0, <1>3, <2>2 DEF SegmentsInv, FreeOK
<1>10. LayoutOK'
  BY <1>0, <1>3, SameLayout
<1>11. SegmentsOK' /\ FileOK' /\ BlocksOK'
  BY <1>0, <1>3, SameHeaders, SameBlocks DEF SegmentsInv, SegmentsOK
<1>12. FlushOK'
  BY <1>0 DEF FlushOK
<1> QED BY <1>5, <1>6, <1>7, <1>8, <1>9, <1>10, <1>11, <1>12 DEF SegmentsInv

LEMMA LockToCreateInv ==
  ASSUME SegmentsInv, NEW t \in Threads, LockToCreate(t)
  PROVE  SegmentsInv'
<1> DEFINE i == index[t]
<1>0. /\ pc[t] = "lockToCreate" /\ segmentMutex[i] = None /\ mutex' = None
      /\ segmentMutex' = [segmentMutex EXCEPT ![i] = t]
      /\ freeSegments' = IF FreeBlocks(segment[i]) = 1
                         THEN freeSegments \ {i} ELSE freeSegments
      /\ pc' = [pc EXCEPT ![t] = "create"]
      /\ index' = [index EXCEPT ![t] = index[t]]
      /\ block' = [block EXCEPT ![t] = block[t]]
      /\ UNCHANGED <<extent, segment, lastAllocatedBlocks, flushing, file, live, durable, clean>>
  BY DEF LockToCreate, Enter, Go, At, LastFree, callers
<1>1. i \in Indices /\ mutex = t /\ flushing = None /\ ~clean /\ i \in freeSegments
  BY <1>0, Working DEF SegmentsInv, ChoicesOK
<1>2. /\ segment[i].ready /\ FreeBlocks(segment[i]) > 0 /\ FreeBlocks(segment[i]) \in Int
      /\ FreeBlocks(segment[i]) >= 1
  <2>1. segment[i].ready /\ FreeBlocks(segment[i]) > 0
    BY <1>0, <1>1, UnlockedSegment
  <2>2. FreeBlocks(segment[i]) \in Int
    BY <1>1, Places DEF FreeBlocks, SegmentType
  <2> QED BY <2>1, <2>2
<1> HIDE DEF i
<1>3. /\ index' = index /\ block' = block /\ pc'[t] = "create"
      /\ \A u \in Threads : u # t => pc'[u] = pc[u]
      /\ segmentMutex'[i] = t
      /\ \A j \in Indices : j # i => segmentMutex'[j] = segmentMutex[j]
  BY <1>0, <1>1 DEF SegmentsInv, TypeOK
<1>4. Indices' = Indices /\ numberOfSegments' = numberOfSegments /\ SamePlaces
  BY <1>0, <1>2, <1>3 DEF Indices, numberOfSegments, SamePlaces
<1>5. \A u \in Threads : u # t => pc[u] \notin {"lockToCreate", "lockToDelete"}
  BY <1>1 DEF SegmentsInv, MutexesOK
<1>6. TypeOK'
  BY <1>0, <1>1, <1>3, <1>4 DEF SegmentsInv, TypeOK
<1>7. MutexesOK'
  <2>1. \A u \in Threads :
          /\ mutex' = u <=> pc'[u] \in {"lockToCreate", "lockToDelete"}
          /\ pc'[u] # "client" => index'[u] \in Indices
          /\ pc'[u] # "raised"
    BY <1>0, <1>1, <1>3, <1>5, ThreadsAssumption DEF SegmentsInv, MutexesOK, i
  <2>2. ASSUME NEW u \in Threads, NEW j \in Indices
        PROVE  segmentMutex'[j] = u <=>
                 pc'[u] \in {"initialize", "create", "delete"} /\ index'[u] = j
    <3>1. CASE u = t
      BY <1>0, <1>3, <3>1 DEF SegmentsInv, MutexesOK, i
    <3>2. CASE u # t
      BY <1>0, <1>3, <3>2, ThreadsAssumption DEF SegmentsInv, MutexesOK, i
    <3> QED BY <3>1, <3>2
  <2> QED BY <1>4, <2>1, <2>2 DEF MutexesOK
<1>8. \A j \in Indices : segmentMutex[j] # t
  BY <1>0 DEF SegmentsInv, MutexesOK
<1>9. ReadyOK'
  BY <1>0, <1>2, <1>3, <1>4, <1>8 DEF SegmentsInv, ReadyOK
<1>10. ChoicesOK'
  BY <1>0, <1>2, <1>3, <1>5 DEF SegmentsInv, ChoicesOK, i
<1>11. FreeOK'
  <2>1. \A j \in Indices, label \in {"create", "delete"} :
          j # i => (OwnerAt(j, label)' <=> OwnerAt(j, label))
    BY <1>0, <1>3, <1>8 DEF OwnerAt
  <2>2. \A j \in Indices : j # i => (IsFree(j)' <=> IsFree(j))
    BY <1>0, <2>1 DEF IsFree
  <2>3. \A j \in Indices : j = i => (IsFree(j)' <=> FreeBlocks(segment[i]) > 1)
    BY <1>0, <1>2, <1>3 DEF IsFree, OwnerAt
  <2>4. i \in freeSegments' <=> FreeBlocks(segment[i]) > 1
    BY <1>0, <1>1, <1>2
  <2> QED BY <1>0, <1>4, <2>2, <2>3, <2>4 DEF SegmentsInv, FreeOK
<1>12. LayoutOK'
  BY <1>0, <1>4, SameLayout
<1>13. SegmentsOK' /\ FileOK' /\ BlocksOK'
  BY <1>0, <1>4, SameHeaders, SameBlocks DEF SegmentsInv, SegmentsOK
<1>14. FlushOK'
  BY <1>0, <1>1 DEF FlushOK
<1> QED BY <1>6, <1>7, <1>9, <1>10, <1>11, <1>12, <1>13, <1>14 DEF SegmentsInv

(* The next free block, when a block of the list is handed out. *)
LEMMA NextFreeOK ==
  ASSUME SegmentsInv, NEW i \in Indices, segment[i].ready, NEW b \in Nat,
         b < segment[i].allocated
  PROVE  LET n == StoredID(file[Position(segment[i], b)]) IN
         n \in Nat /\ n < segment[i].allocated
<1> DEFINE p == Position(segment[i], b)
<1>1. segment[i].allocated \in Nat /\ segment[i].allocated >= 2 /\ p \in DOMAIN file
  BY Places DEF SegmentsInv, LayoutOK, SizeOf, SegmentType
<1>2. CASE file[p].kind = "link"
  <2>1. PICK j \in Indices : \E c \in 0 .. segment[j].allocated - 1 :
           /\ segment[j].ready /\ p = Position(segment[j], c)
           /\ file[p].next \in Nat /\ file[p].next < segment[j].allocated
    BY <1>1, <1>2 DEF SegmentsInv, FileOK
  <2>2. j = i
    <3>1. PICK c \in 0 .. segment[j].allocated - 1 : p = Position(segment[j], c)
      BY <2>1
    <3>2. c \in Nat /\ c < segment[j].allocated
      BY <3>1, Places, SMTT(30) DEF SegmentType
    <3> QED BY <2>1, <3>1, <3>2, Disjoint
  <2> QED BY <1>2, <2>1, <2>2 DEF StoredID
<1>3. CASE file[p].kind # "link"
  BY <1>1, <1>3 DEF StoredID
<1> QED BY <1>2, <1>3

LEMMA CreateBlockInv ==
  ASSUME SegmentsInv, NEW t \in Threads, CreateBlock(t)
  PROVE  SegmentsInv' /\ CanCreate(segment[index[t]])
<1> DEFINE i == index[t]
           s == segment[i]
           r == AfterCreate(s, file)
           id == <<i, CreatedBlock(s)>>
<1>1. /\ pc[t] = "create" /\ i \in Indices /\ segmentMutex[i] = t /\ flushing = None
      /\ ~clean /\ s.ready
  <2>1. pc[t] = "create"
    BY DEF CreateBlock, At
  <2> QED BY <2>1, Working, WorksOnReady
<1>2. s \in SegmentType /\ CountsOK(s) /\ FreeBlocks(s) >= 1
  BY <1>1, Places DEF SegmentsInv, SegmentsOK, ChoicesOK
<1>3. s.deleted > 1 => LET n == StoredID(file[Position(s, s.head)]) IN
                       n \in Nat /\ n < s.allocated
  BY <1>1, <1>2, NextFreeOK DEF CountsOK, SegmentType
<1>4. /\ r \in SegmentType /\ CountsOK(r) /\ FreeBlocks(r) = FreeBlocks(s) - 1
      /\ r.ready = s.ready /\ r.offset = s.offset /\ r.allocated = s.allocated
      /\ CanCreate(s) /\ CreatedBlock(s) \in Nat /\ CreatedBlock(s) < s.allocated
  BY <1>2, <1>3, AfterCreateOK
<1>5. /\ segmentMutex' = [segmentMutex EXCEPT ![i] = None]
      /\ segment' = [segment EXCEPT ![i] = r]
      /\ live' = live \cup {id}
      /\ pc' = [pc EXCEPT ![t] = "client"]
      /\ index' = [index EXCEPT ![t] = None]
      /\ block' = [block EXCEPT ![t] = None]
      /\ UNCHANGED <<extent, lastAllocatedBlocks, freeSegments, mutex, flushing, file,
                     durable, clean>>
  BY <1>4 DEF CreateBlock, Leave, Enter
<1>6. id \in Indices \X Nat /\ id[1] = i /\ id[2] = CreatedBlock(s)
  BY <1>1, <1>4
<1>7. FreeBlocks(s) \in Int
  BY <1>2 DEF FreeBlocks, SegmentType
<1> DEFINE old == segment[i]
<1> HIDE DEF r, id, i
<1>8. /\ Indices' = Indices /\ segment'[i] = r
      /\ \A j \in Indices : j # i => segment'[j] = segment[j] /\ segmentMutex'[j] = segmentMutex[j]
      /\ segmentMutex'[i] = None /\ pc'[t] = "client"
      /\ \A u \in Threads : u # t => /\ pc'[u] = pc[u] /\ index'[u] = index[u]
                                     /\ block'[u] = block[u]
  BY <1>1, <1>5 DEF SegmentsInv, TypeOK, Indices
<1>9. SamePlaces /\ numberOfSegments' = numberOfSegments
  BY <1>1, <1>4, <1>8 DEF SamePlaces, numberOfSegments
<1>10. \A j \in Indices : segmentMutex[j] = t => j = i
  BY DEF SegmentsInv, MutexesOK, i
<1>11. \A u \in Threads : u # t /\ pc[u] \in {"initialize", "create", "delete"} => index[u] # i
  BY <1>1, Working
<1>12. TypeOK'
  <2>1. segment' \in [Indices' -> SegmentType] /\ segmentMutex' \in [Indices' -> Threads \cup {None}]
    BY <1>4, <1>5, <1>8 DEF SegmentsInv, TypeOK
  <2>2. /\ pc' \in [Threads -> {"client", "initialize", "lockToCreate", "create",
                                "lockToDelete", "delete", "raised"}]
        /\ index' \in [Threads -> Indices' \cup {None}]
        /\ block' \in [Threads -> Nat \cup {None}]
    BY <1>5, <1>8 DEF SegmentsInv, TypeOK
  <2>3. live' \subseteq Indices' \X Nat /\ durable' \subseteq live'
    BY <1>5, <1>6, <1>8 DEF SegmentsInv, TypeOK
  <2> QED BY <1>5, <1>8, <1>9, <2>1, <2>2, <2>3 DEF SegmentsInv, TypeOK
<1>13. MutexesOK'
  <2>1. \A u \in Threads :
          /\ mutex' = u <=> pc'[u] \in {"lockToCreate", "lockToDelete"}
          /\ pc'[u] # "client" => index'[u] \in Indices'
          /\ pc'[u] # "raised"
    BY <1>1, <1>5, <1>8 DEF SegmentsInv, MutexesOK
  <2>2. ASSUME NEW u \in Threads, NEW j \in Indices'
        PROVE  segmentMutex'[j] = u <=>
                 pc'[u] \in {"initialize", "create", "delete"} /\ index'[u] = j
    <3>1. CASE j = i
      BY <1>8, <1>11, <3>1, ThreadsAssumption
    <3>2. CASE j # i
      BY <1>8, <1>10, <3>2 DEF SegmentsInv, MutexesOK
    <3> QED BY <3>1, <3>2
  <2> QED BY <2>1, <2>2 DEF MutexesOK
<1>14. ReadyOK'
  <2>1. \A u \in Threads : pc'[u] = "initialize" =>
          u # t /\ pc[u] = "initialize" /\ index'[u] = index[u] /\ index[u] \in Indices
    BY <1>8, Working
  <2>2. \A j \in Indices : segment'[j].ready = segment[j].ready
    BY <1>9 DEF SamePlaces
  <2>3. \A j \in Indices : ~segment[j].ready => j # i
    BY <1>1
  <2> QED BY <1>8, <1>10, <2>1, <2>2, <2>3 DEF SegmentsInv, ReadyOK
<1>15. ChoicesOK'
  <2>1. \A u \in Threads : u # t /\ pc[u] # "client" => index[u] \in Indices
    BY Working
  <2> QED BY <1>4, <1>5, <1>8, <1>11, <2>1 DEF SegmentsInv, ChoicesOK
<1>16. FreeOK'
  <2>1. \A j \in Indices, label \in {"create", "delete"} :
          j # i => (OwnerAt(j, label)' <=> OwnerAt(j, label))
    BY <1>8, <1>10 DEF OwnerAt
  <2>2. \A j \in Indices : j # i => (IsFree(j)' <=> IsFree(j))
    BY <1>8, <2>1 DEF IsFree
  <2>3. \A j \in Indices : j = i => (IsFree(j)' <=> FreeBlocks(r) > 0)
    BY <1>1, <1>4, <1>8, ThreadsAssumption DEF IsFree, OwnerAt
  <2>4. IsFree(i) <=> FreeBlocks(s) > 1
    BY <1>1 DEF IsFree, OwnerAt
  <2>5. FreeBlocks(r) > 0 <=> FreeBlocks(s) > 1
    BY <1>4, <1>7
  <2> QED BY <1>1, <1>5, <1>8, <2>2, <2>3, <2>4, <2>5 DEF SegmentsInv, FreeOK
<1>17. LayoutOK'
  BY <1>5, <1>9, SameLayout
<1>18. FileOK'
  BY <1>5, <1>9, SameHeaders
<1>19. SegmentsOK'
  BY <1>4, <1>8 DEF SegmentsInv, SegmentsOK
<1>20. FlushOK'
  BY <1>1, <1>5 DEF FlushOK
<1>21. BlocksOK'
  <2>1. \A x \in live : x[1] \in Indices
    BY DEF SegmentsInv, TypeOK
  <2>2. segment'[i].ready /\ CreatedBlock(s) < segment'[i].allocated
    BY <1>1, <1>4, <1>8
  <2> QED BY <1>5, <1>6, <1>9, <2>1, <2>2 DEF SegmentsInv, BlocksOK, SamePlaces
<1> QED BY <1>4, <1>12, <1>13, <1>14, <1>15, <1>16, <1>17, <1>18, <1>19, <1>20, <1>21 DEF SegmentsInv, i

(***************************************************************************)
(* deleteBlock and writeBlock.                                             *)
(***************************************************************************)

(* Writing a block changes no header. *)
LEMMA BlockWritten ==
  ASSUME SegmentsInv, SamePlaces, NEW i \in Indices, segment[i].ready,
         NEW b \in Nat, b < segment[i].allocated, NEW c,
         file' = [file EXCEPT ![Position(segment[i], b)] = c],
         c.kind = "link" => MayDelete /\ c.next \in Nat /\ c.next < segment[i].allocated
  PROVE  /\ FileOK' /\ DOMAIN file' = DOMAIN file /\ file'[0] = file[0]
         /\ \A j \in Indices : segment[j].ready =>
              file'[segment[j].offset] = file[segment[j].offset]
<1> DEFINE p == Position(segment[i], b)
<1>1. p \in DOMAIN file \ {0}
  BY Places
<1>2. \A j \in Indices : segment[j].ready => p # segment[j].offset
  BY Disjoint
<1>3. b \in 0 .. segment[i].allocated - 1
  BY Places DEF SegmentType
<1>4. 0 \in DOMAIN file
  BY DEF SegmentsInv, FileOK
<1>5. \A j \in Indices : segment[j].ready => segment[j].offset \in DOMAIN file
  BY Places
<1> HIDE DEF p
<1>6. /\ DOMAIN file' = DOMAIN file /\ file'[0] = file[0] /\ file'[p] = c
      /\ \A q \in DOMAIN file : q # p => file'[q] = file[q]
      /\ \A j \in Indices : segment[j].ready =>
           file'[segment[j].offset] = file[segment[j].offset]
  BY <1>1, <1>2, <1>4, <1>5 DEF p
<1>7. numberOfSegments' = numberOfSegments /\ Indices' = Indices
  BY DEF SamePlaces, numberOfSegments
<1>8. ASSUME NEW q \in DOMAIN file', file'[q].kind = "link"
      PROVE  MayDelete /\ \E j \in Indices' : \E d \in 0 .. segment'[j].allocated - 1 :
               /\ segment'[j].ready /\ q = Position(segment'[j], d)
               /\ file'[q].next \in Nat /\ file'[q].next < segment'[j].allocated
  <2>1. CASE q = p
    BY <1>3, <1>6, <1>7, <1>8, <2>1 DEF SamePlaces, Position, p
  <2>2. CASE q # p
    BY <1>6, <1>7, <1>8, <2>2 DEF SegmentsInv, FileOK, SamePlaces, Position
  <2> QED BY <2>1, <2>2
<1>9. \A j \in Indices' : j < file'[0].number =>
        LET h == file'[segment'[j].offset] IN
        /\ segment'[j].ready /\ h \in HeaderType /\ CountsOK(h)
        /\ h.allocated = segment'[j].allocated
  BY <1>6, <1>7 DEF SegmentsInv, SamePlaces, FileOK
<1> QED BY <1>6, <1>7, <1>8, <1>9 DEF SegmentsInv, FileOK

LEMMA StartDeleteInv ==
  ASSUME SegmentsInv, NEW t \in Threads, NEW id \in live, StartDelete(t, id)
  PROVE  SegmentsInv'
<1> DEFINE i == id[1]
<1>0. /\ MayDelete /\ pc[t] = "client" /\ flushing = None /\ mutex = None /\ mutex' = t
      /\ pc' = [pc EXCEPT ![t] = "lockToDelete"]
      /\ index' = [index EXCEPT ![t] = i]
      /\ block' = [block EXCEPT ![t] = id[2]]
      /\ live' = live \ {id} /\ durable' = durable \ {id} /\ clean' = FALSE
      /\ UNCHANGED <<extent, segment, lastAllocatedBlocks, freeSegments, segmentMutex,
                     flushing, file>>
  BY DEF StartDelete, Enter, At, manager
<1>1. /\ i \in Indices /\ id[2] \in Nat /\ segment[i].ready /\ id[2] < segment[i].allocated
  <2>1. id \in Indices \X Nat
    BY DEF SegmentsInv, TypeOK
  <2> QED BY <2>1 DEF SegmentsInv, BlocksOK
<1> HIDE DEF i
<1>2. /\ pc'[t] = "lockToDelete" /\ index'[t] = i /\ block'[t] = id[2]
      /\ \A u \in Threads : u # t => pc'[u] = pc[u] /\ index'[u] = index[u] /\ block'[u] = block[u]
  BY <1>0 DEF SegmentsInv, TypeOK
<1>3. Indices' = Indices /\ numberOfSegments' = numberOfSegments /\ SamePlaces
  BY <1>0 DEF Indices, numberOfSegments, SamePlaces
<1>4. \A j \in Indices : segmentMutex[j] # t
  BY <1>0 DEF SegmentsInv, MutexesOK
<1>5. TypeOK'
  BY <1>0, <1>1, <1>3 DEF SegmentsInv, TypeOK
<1>6. MutexesOK'
  <2>1. \A u \in Threads : pc[u] \notin {"lockToCreate", "lockToDelete"}
    BY <1>0, ThreadsAssumption DEF SegmentsInv, MutexesOK
  <2> QED BY <1>0, <1>1, <1>2, <1>3, <2>1 DEF SegmentsInv, MutexesOK
<1>7. ReadyOK'
  <2>1. \A u \in Threads : pc'[u] = "initialize" => pc[u] = "initialize" /\ index'[u] = index[u]
    BY <1>2
  <2> QED BY <1>0, <1>2, <1>3, <1>4, <2>1 DEF SegmentsInv, ReadyOK
<1>8. ChoicesOK'
  BY <1>0, <1>1, <1>2 DEF SegmentsInv, ChoicesOK
<1>9. FreeOK'
  <2>1. \A j \in Indices, label \in {"create", "delete"} : OwnerAt(j, label)' <=> OwnerAt(j, label)
    BY <1>0, <1>2, <1>4 DEF OwnerAt
  <2>2. \A j \in Indices : IsFree(j)' <=> IsFree(j)
    BY <1>0, <2>1 DEF IsFree
  <2> QED BY <1>0, <1>3, <2>2 DEF SegmentsInv, FreeOK
<1>10. LayoutOK'
  BY <1>0, <1>3, SameLayout
<1>11. SegmentsOK' /\ FileOK' /\ BlocksOK'
  BY <1>0, <1>3, SameHeaders, SameBlocks DEF SegmentsInv, SegmentsOK
<1>12. FlushOK'
  BY <1>0 DEF FlushOK
<1> QED BY <1>5, <1>6, <1>7, <1>8, <1>9, <1>10, <1>11, <1>12 DEF SegmentsInv

LEMMA LockToDeleteInv ==
  ASSUME SegmentsInv, NEW t \in Threads, LockToDelete(t)
  PROVE  SegmentsInv'
<1> DEFINE i == index[t]
<1>0. /\ pc[t] = "lockToDelete" /\ segmentMutex[i] = None /\ mutex' = None
      /\ segmentMutex' = [segmentMutex EXCEPT ![i] = t]
      /\ freeSegments' = freeSegments \cup {i}
      /\ pc' = [pc EXCEPT ![t] = "delete"]
      /\ index' = [index EXCEPT ![t] = index[t]]
      /\ block' = [block EXCEPT ![t] = block[t]]
      /\ UNCHANGED <<extent, segment, lastAllocatedBlocks, flushing, file, live, durable, clean>>
  BY DEF LockToDelete, Enter, Go, At, MarkedFree, callers
<1>1. i \in Indices /\ mutex = t /\ flushing = None /\ ~clean /\ segment[i].ready
  BY <1>0, Working DEF SegmentsInv, ChoicesOK
<1> HIDE DEF i
<1>3. /\ index' = index /\ block' = block /\ pc'[t] = "delete"
      /\ \A u \in Threads : u # t => pc'[u] = pc[u]
      /\ segmentMutex'[i] = t
      /\ \A j \in Indices : j # i => segmentMutex'[j] = segmentMutex[j]
  BY <1>0, <1>1 DEF SegmentsInv, TypeOK
<1>4. Indices' = Indices /\ numberOfSegments' = numberOfSegments /\ SamePlaces
  BY <1>0, <1>1, <1>3 DEF Indices, numberOfSegments, SamePlaces
<1>5. \A u \in Threads : u # t => pc[u] \notin {"lockToCreate", "lockToDelete"}
  BY <1>1 DEF SegmentsInv, MutexesOK
<1>6. TypeOK'
  BY <1>0, <1>1, <1>3, <1>4 DEF SegmentsInv, TypeOK
<1>7. MutexesOK'
  <2>1. \A u \in Threads :
          /\ mutex' = u <=> pc'[u] \in {"lockToCreate", "lockToDelete"}
          /\ pc'[u] # "client" => index'[u] \in Indices
          /\ pc'[u] # "raised"
    BY <1>0, <1>1, <1>3, <1>5, ThreadsAssumption DEF SegmentsInv, MutexesOK, i
  <2>2. ASSUME NEW u \in Threads, NEW j \in Indices
        PROVE  segmentMutex'[j] = u <=>
                 pc'[u] \in {"initialize", "create", "delete"} /\ index'[u] = j
    <3>1. CASE u = t
      BY <1>0, <1>3, <3>1 DEF SegmentsInv, MutexesOK, i
    <3>2. CASE u # t
      BY <1>0, <1>3, <3>2, ThreadsAssumption DEF SegmentsInv, MutexesOK, i
    <3> QED BY <3>1, <3>2
  <2> QED BY <1>4, <2>1, <2>2 DEF MutexesOK
<1>8. \A j \in Indices : segmentMutex[j] # t
  BY <1>0 DEF SegmentsInv, MutexesOK
<1>9. ReadyOK'
  BY <1>0, <1>1, <1>3, <1>4, <1>8 DEF SegmentsInv, ReadyOK
<1>10. ChoicesOK'
  BY <1>0, <1>3, <1>5 DEF SegmentsInv, ChoicesOK, i
<1>11. FreeOK'
  <2>1. \A j \in Indices, label \in {"create", "delete"} :
          j # i => (OwnerAt(j, label)' <=> OwnerAt(j, label))
    BY <1>0, <1>3, <1>8 DEF OwnerAt
  <2>2. \A j \in Indices : j # i => (IsFree(j)' <=> IsFree(j))
    BY <1>0, <2>1 DEF IsFree
  <2>3. \A j \in Indices : j = i => IsFree(j)'
    BY <1>3 DEF IsFree, OwnerAt
  <2> QED BY <1>0, <1>4, <2>2, <2>3 DEF SegmentsInv, FreeOK
<1>12. LayoutOK'
  BY <1>0, <1>4, SameLayout
<1>13. SegmentsOK' /\ FileOK' /\ BlocksOK'
  BY <1>0, <1>4, SameHeaders, SameBlocks DEF SegmentsInv, SegmentsOK
<1>14. FlushOK'
  BY <1>0, <1>1 DEF FlushOK
<1> QED BY <1>6, <1>7, <1>9, <1>10, <1>11, <1>12, <1>13, <1>14 DEF SegmentsInv

LEMMA DeleteBlockInv ==
  ASSUME SegmentsInv, NEW t \in Threads, DeleteBlock(t)
  PROVE  SegmentsInv'
<1> DEFINE i == index[t]
           b == block[t]
           s == segment[i]
           r == AfterDelete(s, b)
<1>0. /\ pc[t] = "delete" /\ file' = FileAfterDelete(s, b, file)
      /\ segmentMutex' = [segmentMutex EXCEPT ![i] = None]
      /\ segment' = [segment EXCEPT ![i] = r]
      /\ pc' = [pc EXCEPT ![t] = "client"]
      /\ index' = [index EXCEPT ![t] = None]
      /\ block' = [block EXCEPT ![t] = None]
      /\ UNCHANGED <<extent, lastAllocatedBlocks, freeSegments, mutex, flushing, live,
                     durable, clean>>
  BY DEF DeleteBlock, Leave, Enter, At, callers
<1>1. /\ i \in Indices /\ segmentMutex[i] = t /\ flushing = None /\ ~clean /\ s.ready
      /\ MayDelete /\ b \in Nat /\ b < s.allocated
  BY <1>0, Working DEF SegmentsInv, ChoicesOK
<1>2. s \in SegmentType /\ CountsOK(s)
  BY <1>1, Places DEF SegmentsInv, SegmentsOK
<1>4. /\ r \in SegmentType /\ CountsOK(r) /\ FreeBlocks(r) > 0
      /\ r.ready = s.ready /\ r.offset = s.offset /\ r.allocated = s.allocated
  BY <1>1, <1>2, AfterDeleteOK
<1> HIDE DEF r, i, b
<1>8. /\ Indices' = Indices /\ segment'[i] = r
      /\ \A j \in Indices : j # i => segment'[j] = segment[j] /\ segmentMutex'[j] = segmentMutex[j]
      /\ segmentMutex'[i] = None /\ pc'[t] = "client"
      /\ \A u \in Threads : u # t => /\ pc'[u] = pc[u] /\ index'[u] = index[u]
                                     /\ block'[u] = block[u]
  BY <1>0, <1>1 DEF SegmentsInv, TypeOK, Indices
<1>9. SamePlaces /\ numberOfSegments' = numberOfSegments
  BY <1>1, <1>4, <1>8 DEF SamePlaces, numberOfSegments
<1>10. \A j \in Indices : segmentMutex[j] = t => j = i
  BY DEF SegmentsInv, MutexesOK, i
<1>11. \A u \in Threads : u # t /\ pc[u] \in {"initialize", "create", "delete"} => index[u] # i
  BY <1>1, Working
<1>12. FileOK' /\ DOMAIN file' = DOMAIN file /\ file'[0] = file[0]
  <2>1. CASE s.deleted > 0
    <3> DEFINE c == Link(s.head)
    <3>1. file' = [file EXCEPT ![Position(s, b)] = c]
      BY <1>0, <2>1 DEF FileAfterDelete
    <3>2. MayDelete /\ c.next \in Nat /\ c.next < s.allocated
      BY <1>2, <2>1 DEF Link, CountsOK
    <3> HIDE DEF c
    <3> QED BY <1>1, <1>9, <3>1, <3>2, BlockWritten
  <2>2. CASE ~(s.deleted > 0)
    <3>1. UNCHANGED file
      BY <1>0, <2>2 DEF FileAfterDelete
    <3> QED BY <1>9, <3>1, SameHeaders
  <2> QED BY <2>1, <2>2
<1>13. TypeOK'
  <2>1. segment' \in [Indices' -> SegmentType] /\ segmentMutex' \in [Indices' -> Threads \cup {None}]
    BY <1>0, <1>4, <1>8 DEF SegmentsInv, TypeOK
  <2>2. /\ pc' \in [Threads -> {"client", "initialize", "lockToCreate", "create",
                                "lockToDelete", "delete", "raised"}]
        /\ index' \in [Threads -> Indices' \cup {None}]
        /\ block' \in [Threads -> Nat \cup {None}]
    BY <1>0, <1>8 DEF SegmentsInv, TypeOK
  <2> QED BY <1>0, <1>8, <1>9, <1>12, <2>1, <2>2 DEF SegmentsInv, TypeOK
<1>14. MutexesOK'
  <2>1. \A u \in Threads :
          /\ mutex' = u <=> pc'[u] \in {"lockToCreate", "lockToDelete"}
          /\ pc'[u] # "client" => index'[u] \in Indices'
          /\ pc'[u] # "raised"
    BY <1>0, <1>8 DEF SegmentsInv, MutexesOK
  <2>2. ASSUME NEW u \in Threads, NEW j \in Indices'
        PROVE  segmentMutex'[j] = u <=>
                 pc'[u] \in {"initialize", "create", "delete"} /\ index'[u] = j
    <3>1. CASE j = i
      BY <1>8, <1>11, <3>1, ThreadsAssumption
    <3>2. CASE j # i
      BY <1>8, <1>10, <3>2 DEF SegmentsInv, MutexesOK
    <3> QED BY <3>1, <3>2
  <2> QED BY <2>1, <2>2 DEF MutexesOK
<1>15. ReadyOK'
  <2>1. \A u \in Threads : pc'[u] = "initialize" =>
          u # t /\ pc[u] = "initialize" /\ index'[u] = index[u] /\ index[u] \in Indices
    BY <1>8, Working
  <2>2. \A j \in Indices : segment'[j].ready = segment[j].ready
    BY <1>9 DEF SamePlaces
  <2>3. \A j \in Indices : ~segment[j].ready => j # i
    BY <1>1
  <2> QED BY <1>8, <1>10, <2>1, <2>2, <2>3 DEF SegmentsInv, ReadyOK
<1>16. ChoicesOK'
  <2>1. \A u \in Threads : u # t /\ pc[u] # "client" => index[u] \in Indices
    BY Working
  <2>2. \A j \in Indices : /\ segment'[j].ready = segment[j].ready
                           /\ segment'[j].allocated = segment[j].allocated
    BY <1>9 DEF SamePlaces
  <2> QED BY <1>0, <1>8, <1>11, <2>1, <2>2 DEF SegmentsInv, ChoicesOK
<1>17. FreeOK'
  <2>1. \A j \in Indices, label \in {"create", "delete"} :
          j # i => (OwnerAt(j, label)' <=> OwnerAt(j, label))
    BY <1>8, <1>10 DEF OwnerAt
  <2>2. \A j \in Indices : j # i => (IsFree(j)' <=> IsFree(j))
    BY <1>8, <2>1 DEF IsFree
  <2>3. \A j \in Indices : j = i => IsFree(j)'
    BY <1>4, <1>8, ThreadsAssumption DEF IsFree, OwnerAt
  <2>4. IsFree(i)
    BY <1>0, <1>1 DEF IsFree, OwnerAt
  <2> QED BY <1>0, <1>1, <1>8, <2>2, <2>3, <2>4 DEF SegmentsInv, FreeOK
<1>18. LayoutOK' /\ BlocksOK'
  BY <1>0, <1>9, <1>12, SameLayout, SameBlocks
<1>19. SegmentsOK'
  BY <1>4, <1>8 DEF SegmentsInv, SegmentsOK
<1>20. FlushOK'
  BY <1>0, <1>1 DEF FlushOK
<1> QED BY <1>12, <1>13, <1>14, <1>15, <1>16, <1>17, <1>18, <1>19, <1>20 DEF SegmentsInv

LEMMA WriteBlockInv ==
  ASSUME SegmentsInv, NEW id \in live, WriteBlock(id)
  PROVE  SegmentsInv'
<1> DEFINE i == id[1]
           c == Data(id)
<1>0. /\ flushing = None /\ file' = [file EXCEPT ![Position(segment[i], id[2])] = c]
      /\ UNCHANGED <<segment, lastAllocatedBlocks, freeSegments, mutex, segmentMutex, pc,
                     index, block, extent, flushing, live, durable, clean>>
  BY DEF WriteBlock, PositionOf, manager, locks, locals
<1>1. /\ i \in Indices /\ id[2] \in Nat /\ segment[i].ready /\ id[2] < segment[i].allocated
  <2>1. id \in Indices \X Nat
    BY DEF SegmentsInv, TypeOK
  <2> QED BY <2>1 DEF SegmentsInv, BlocksOK
<1>2. c.kind # "link"
  BY DEF Data
<1> HIDE DEF c
<1>3. Indices' = Indices /\ numberOfSegments' = numberOfSegments /\ SamePlaces
  BY <1>0 DEF Indices, numberOfSegments, SamePlaces
<1>4. /\ FileOK' /\ DOMAIN file' = DOMAIN file /\ file'[0] = file[0]
      /\ \A j \in Indices : segment[j].ready =>
           file'[segment[j].offset] = file[segment[j].offset]
  BY <1>0, <1>1, <1>2, <1>3, BlockWritten
<1>5. TypeOK'
  BY <1>0, <1>3, <1>4 DEF SegmentsInv, TypeOK
<1>6. MutexesOK' /\ ReadyOK' /\ ChoicesOK' /\ SegmentsOK'
  BY <1>0, <1>3 DEF SegmentsInv, MutexesOK, ReadyOK, ChoicesOK, SegmentsOK
<1>7. FreeOK'
  <2>1. \A j \in Indices : IsFree(j)' <=> IsFree(j)
    BY <1>0 DEF IsFree, OwnerAt
  <2> QED BY <1>0, <1>3, <2>1 DEF SegmentsInv, FreeOK
<1>8. LayoutOK' /\ BlocksOK'
  BY <1>0, <1>3, <1>4, SameLayout, SameBlocks
<1>9. FlushOK'
  <2>1. Idle => \A j \in Indices : segment[j].ready
    BY DEF Idle, SegmentsInv, ReadyOK
  <2>2. \A n : Idle /\ Flushed(n) => Flushed(n)'
    BY <1>0, <1>3, <1>4, <2>1 DEF Flushed
  <2> QED BY <1>0, <1>3, <1>4, <2>2 DEF SegmentsInv, FlushOK, Idle
<1> QED BY <1>4, <1>5, <1>6, <1>7, <1>8, <1>9 DEF SegmentsInv

(***************************************************************************)
(* flush.                                                                  *)
(***************************************************************************)
LEMMA StartFlushInv == ASSUME SegmentsInv, StartFlush PROVE SegmentsInv'
<1>0. /\ flushing = None /\ flushing' = 0 /\ Idle
      /\ UNCHANGED <<segment, lastAllocatedBlocks, freeSegments, mutex, segmentMutex, pc,
                     index, block, extent, file, live, durable, clean>>
  BY DEF StartFlush, manager, locks, locals, callers, Idle
<1>1. Indices' = Indices /\ numberOfSegments' = numberOfSegments /\ SamePlaces
  BY <1>0 DEF Indices, numberOfSegments, SamePlaces
<1>2. TypeOK'
  BY <1>0, <1>1 DEF SegmentsInv, TypeOK
<1>3. MutexesOK' /\ ReadyOK' /\ ChoicesOK' /\ SegmentsOK'
  BY <1>0, <1>1 DEF SegmentsInv, MutexesOK, ReadyOK, ChoicesOK, SegmentsOK
<1>4. FreeOK'
  <2>1. \A j \in Indices : IsFree(j)' <=> IsFree(j)
    BY <1>0 DEF IsFree, OwnerAt
  <2> QED BY <1>0, <1>1, <2>1 DEF SegmentsInv, FreeOK
<1>5. LayoutOK' /\ FileOK' /\ BlocksOK'
  BY <1>0, <1>1, SameLayout, SameHeaders, SameBlocks
<1>6. FlushOK'
  <2>1. Idle' /\ \A n : Flushed(n)' <=> Flushed(n)
    BY <1>0, <1>1 DEF Idle, Flushed
  <2>2. Flushed(0)
    BY Places DEF Flushed
  <2>3. numberOfSegments \in Nat
    BY Places
  <2>4. clean' => Idle' /\ file'[0].number = numberOfSegments' /\ Flushed(numberOfSegments)'
    BY <1>0, <1>1, <2>1 DEF SegmentsInv, FlushOK
  <2>5. Flushed(flushing)'
    BY <1>0, <1>1, <2>1, <2>2 DEF Flushed
  <2> QED BY <1>0, <1>1, <2>1, <2>3, <2>4, <2>5 DEF FlushOK
<1> QED BY <1>2, <1>3, <1>4, <1>5, <1>6 DEF SegmentsInv

(* The header of a segment as it is written. *)
LEMMA HeaderOfSegment ==
  ASSUME SegmentsInv, NEW i \in Indices
  PROVE  LET h == SegmentHeader(segment[i]) IN
         /\ h \in HeaderType /\ CountsOK(h) /\ h.allocated = segment[i].allocated
         /\ h.kind = "segment"
<1>1. segment[i] \in SegmentType /\ CountsOK(segment[i])
  BY Places DEF SegmentsInv, SegmentsOK
<1> QED BY <1>1 DEF SegmentHeader, HeaderType, CountsOK, SegmentType

LEMMA FlushSegmentInv == ASSUME SegmentsInv, FlushSegment PROVE SegmentsInv'
<1> DEFINE k == flushing
           h == SegmentHeader(segment[k])
           o == segment[k].offset
<1>0. /\ k \in Indices /\ k # None /\ flushing' = k + 1
      /\ file' = [file EXCEPT ![o] = h]
      /\ UNCHANGED <<segment, lastAllocatedBlocks, freeSegments, mutex, segmentMutex, pc,
                     index, block, extent, live, durable, clean>>
  BY DEF FlushSegment, manager, locks, locals, callers
<1>1. Idle /\ Flushed(k) /\ k \in Nat /\ k <= numberOfSegments
  BY <1>0, Places DEF SegmentsInv, FlushOK
<1>2. \A j \in Indices : segment[j].ready
  BY <1>1 DEF SegmentsInv, ReadyOK, Idle
<1>3. h \in HeaderType /\ CountsOK(h) /\ h.allocated = segment[k].allocated /\ h.kind = "segment"
  BY <1>0, HeaderOfSegment
<1>4. Indices' = Indices /\ numberOfSegments' = numberOfSegments /\ SamePlaces
  BY <1>0 DEF Indices, numberOfSegments, SamePlaces
<1>5. o \in DOMAIN file \ {0}
  BY <1>0, <1>2, Places
<1>6. \A j \in Indices : /\ segment[j].offset \in DOMAIN file
                         /\ j # k => segment[j].offset # o
  <2>1. \A j \in Indices : 0 \in Nat /\ 0 < segment[j].allocated
    <3> TAKE j \in Indices
    <3>1. segment[j].allocated \in Nat /\ segment[j].allocated >= 2
      BY <1>2, Places DEF SegmentsInv, LayoutOK, SizeOf, SegmentType
    <3> QED BY <3>1
  <2> QED BY <1>0, <1>2, <2>1, Places, Disjoint
<1> HIDE DEF h, o, k
<1>7. /\ DOMAIN file' = DOMAIN file /\ file'[0] = file[0] /\ file'[o] = h
      /\ \A p \in DOMAIN file : p # o => file'[p] = file[p]
  BY <1>0, <1>5 DEF SegmentsInv, FileOK
<1>8. \A j \in Indices : file'[segment[j].offset] =
                           IF j = k THEN h ELSE file[segment[j].offset]
  BY <1>6, <1>7 DEF o
<1>9. TypeOK'
  BY <1>0, <1>1, <1>4, <1>7 DEF SegmentsInv, TypeOK
<1>10. MutexesOK' /\ ReadyOK' /\ ChoicesOK' /\ SegmentsOK'
  BY <1>0, <1>4 DEF SegmentsInv, MutexesOK, ReadyOK, ChoicesOK, SegmentsOK
<1>11. FreeOK'
  <2>1. \A j \in Indices : IsFree(j)' <=> IsFree(j)
    BY <1>0 DEF IsFree, OwnerAt
  <2> QED BY <1>0, <1>4, <2>1 DEF SegmentsInv, FreeOK
<1>12. LayoutOK' /\ BlocksOK'
  BY <1>0, <1>4, <1>7, SameLayout, SameBlocks
<1>13. FileOK'
  <2>1. \A p \in DOMAIN file' : file'[p].kind = "link" => p \in DOMAIN file /\ file'[p] = file[p]
    BY <1>3, <1>7
  <2>2. \A p \in DOMAIN file' : file'[p].kind = "link" =>
          MayDelete /\ \E i \in Indices' : \E b \in 0 .. segment'[i].allocated - 1 :
            /\ segment'[i].ready /\ p = Position(segment'[i], b)
            /\ file'[p].next \in Nat /\ file'[p].next < segment'[i].allocated
    BY <1>0, <1>4, <2>1 DEF SegmentsInv, FileOK
  <2>3. ASSUME NEW j \in Indices, j < file[0].number
        PROVE  LET g == file'[segment[j].offset] IN
               g \in HeaderType /\ CountsOK(g) /\ g.allocated = segment[j].allocated
    BY <1>3, <1>8, <2>3 DEF SegmentsInv, FileOK
  <2> QED BY <1>0, <1>2, <1>4, <1>7, <2>2, <2>3 DEF SegmentsInv, FileOK
<1>14. FlushOK'
  <2>1. \A n : Flushed(n) => Flushed(n)'
    BY <1>0, <1>4, <1>8 DEF Flushed, h
  <2>2. \A j \in Indices : j < k + 1 => file'[segment[j].offset] = SegmentHeader(segment[j])
    <3>1. \A j \in Indices : j < k + 1 => j = k \/ j < k
      BY <1>1, Places
    <3> QED BY <1>1, <1>8, <3>1 DEF Flushed, h
  <2>3. k + 1 <= numberOfSegments
    <3>1. k \in 0 .. numberOfSegments - 1 /\ numberOfSegments \in Nat
      BY <1>0, Places
    <3> QED BY <3>1
  <2>4. Idle'
    BY <1>0, <1>1 DEF Idle
  <2>5. Flushed(flushing)'
    BY <1>0, <1>4, <2>2 DEF Flushed
  <2>6. clean' => file'[0].number = numberOfSegments' /\ Flushed(numberOfSegments)'
    BY <1>0, <1>4, <1>7, <2>1 DEF SegmentsInv, FlushOK
  <2> QED BY <1>0, <1>4, <2>3, <2>4, <2>5, <2>6 DEF FlushOK
<1> QED BY <1>9, <1>10, <1>11, <1>12, <1>13, <1>14 DEF SegmentsInv

LEMMA FlushManagerInv == ASSUME SegmentsInv, FlushManager PROVE SegmentsInv'
<1> DEFINE n == numberOfSegments
           m == ManagerHeader(n, lastAllocatedBlocks)
<1>0. /\ flushing = n /\ flushing' = None /\ file' = [file EXCEPT ![0] = m]
      /\ durable' = live /\ clean' = TRUE
      /\ UNCHANGED <<segment, lastAllocatedBlocks, freeSegments, mutex, segmentMutex, pc,
                     index, block, extent, live>>
  BY DEF FlushManager, AllFlushed, manager, locks, locals
<1>1. Idle /\ Flushed(n) /\ n \in Nat
  BY <1>0, Places, NoneAssumption DEF SegmentsInv, FlushOK
<1>2. \A j \in Indices : segment[j].ready
  BY <1>1 DEF SegmentsInv, ReadyOK, Idle
<1>3. m.kind = "manager" /\ m.number = n /\ m.last \in Nat
  BY DEF ManagerHeader, SegmentsInv, TypeOK
<1>4. Indices' = Indices /\ numberOfSegments' = n /\ SamePlaces
  BY <1>0 DEF Indices, numberOfSegments, SamePlaces
<1>5. \A j \in Indices : segment[j].offset \in DOMAIN file \ {0}
  BY <1>2, Places
<1> HIDE DEF m, n
<1>6. /\ DOMAIN file' = DOMAIN file /\ file'[0] = m
      /\ \A p \in DOMAIN file : p # 0 => file'[p] = file[p]
  BY <1>0 DEF SegmentsInv, FileOK
<1>7. \A j \in Indices : j \in Nat /\ j < n
  <2>1. Indices = 0 .. n - 1
    BY Places DEF n
  <2> QED BY <1>1, <2>1
<1>8. TypeOK'
  BY <1>0, <1>4, <1>6 DEF SegmentsInv, TypeOK, n
<1>9. MutexesOK' /\ ReadyOK' /\ ChoicesOK' /\ SegmentsOK'
  BY <1>0, <1>4 DEF SegmentsInv, MutexesOK, ReadyOK, ChoicesOK, SegmentsOK
<1>10. FreeOK'
  <2>1. \A j \in Indices : IsFree(j)' <=> IsFree(j)
    BY <1>0 DEF IsFree, OwnerAt
  <2> QED BY <1>0, <1>4, <2>1 DEF SegmentsInv, FreeOK
<1>11. LayoutOK'
  BY <1>0, <1>4, <1>6, SameLayout
<1>12. FileOK'
  <2>1. \A p \in DOMAIN file' : file'[p].kind = "link" => p \in DOMAIN file /\ file'[p] = file[p]
    BY <1>3, <1>6
  <2>2. \A p \in DOMAIN file' : file'[p].kind = "link" =>
          MayDelete /\ \E i \in Indices' : \E b \in 0 .. segment'[i].allocated - 1 :
            /\ segment'[i].ready /\ p = Position(segment'[i], b)
            /\ file'[p].next \in Nat /\ file'[p].next < segment'[i].allocated
    BY <1>0, <1>4, <2>1 DEF SegmentsInv, FileOK
  <2>3. \A j \in Indices : LET g == file'[segment[j].offset] IN
          g \in HeaderType /\ CountsOK(g) /\ g.allocated = segment[j].allocated
    BY <1>1, <1>5, <1>6, <1>7, HeaderOfSegment DEF Flushed
  <2>4. 0 \in DOMAIN file
    BY DEF SegmentsInv, FileOK
  <2> QED BY <1>0, <1>1, <1>2, <1>3, <1>4, <1>6, <2>2, <2>3, <2>4 DEF FileOK
<1>13. FlushOK'
  <2>1. Flushed(n)'
    <3>1. \A j \in Indices : file'[segment[j].offset] = SegmentHeader(segment[j])
      BY <1>1, <1>5, <1>6, <1>7 DEF Flushed
    <3> QED BY <1>0, <1>4, <3>1 DEF Flushed
  <2>2. Idle'
    BY <1>0, <1>1 DEF Idle
  <2>3. Flushed(numberOfSegments)'
    BY <1>4, <2>1 DEF n
  <2> QED BY <1>0, <1>3, <1>4, <1>6, <2>2, <2>3 DEF FlushOK
<1>14. BlocksOK'
  <2>1. \A id \in live : id[1] \in Indices
    BY DEF SegmentsInv, TypeOK
  <2> QED BY <1>0, <1>3, <1>4, <1>6, <1>7, <2>1 DEF SegmentsInv, BlocksOK
<1> QED BY <1>8, <1>9, <1>10, <1>11, <1>12, <1>13, <1>14 DEF SegmentsInv

(***************************************************************************)
(* Restart.  The least number principle stands in for induction: finite    *)
(* sets of numbers are well-founded under strict inclusion.                *)
(***************************************************************************)
LEMMA LeastNat ==
  ASSUME NEW S, S \subseteq Nat, S # {}
  PROVE  \E x \in S : \A y \in S : x <= y
<1> DEFINE T == {0 .. x : x \in S}
<1>1. \A x \in Nat : 0 .. x \in FiniteSubsetsOf(Nat) /\ 0 .. x \in SUBSET Nat
  BY FS_Interval DEF FiniteSubsetsOf
<1>2. T \subseteq FiniteSubsetsOf(Nat) /\ T # {}
  BY <1>1
<1>3. PICK a \in T : \A b \in T : ~(<<b, a>> \in StrictSubsetOrdering(Nat))
  <2> HIDE DEF T
  <2> QED BY <1>2, FS_StrictSubsetOrderingWellFounded, WFMin
<1>4. PICK x \in S : a = 0 .. x
  OBVIOUS
<1>5. ASSUME NEW y \in S, y < x PROVE FALSE
  <2>1. 0 .. y \in T
    OBVIOUS
  <2>2. 0 .. y \subseteq 0 .. x /\ x \notin 0 .. y /\ x \in 0 .. x
    BY <1>5
  <2>3. <<0 .. y, a>> \in (SUBSET Nat) \X (SUBSET Nat)
    BY <1>1, <1>4
  <2>4. <<0 .. y, a>> \in StrictSubsetOrdering(Nat)
    BY <1>4, <2>2, <2>3 DEF StrictSubsetOrdering
  <2> QED BY <1>3, <2>1, <2>4
<1> QED BY <1>5

(* The walk of the constructor comes by the segments, and nowhere else. *)
LEMMA WalkFindsSegments ==
  ASSUME SegmentsInv, NEW o \in Walks
  PROVE  \A i \in SegmentsInFile : i \in Indices /\ o[i] = segment[i].offset
<1> DEFINE Wrong == {i \in SegmentsInFile : o[i] # segment[i].offset}
<1>1. SegmentsInFile \subseteq Indices /\ SegmentsInFile \subseteq Nat
  BY Places DEF SegmentsInv, FileOK, SegmentsInFile
<1>2. ASSUME Wrong # {} PROVE FALSE
  <2>1. PICK i \in Wrong : \A j \in Wrong : i <= j
    <3>1. Wrong \subseteq Nat
      BY <1>1
    <3> HIDE DEF Wrong
    <3> QED BY <1>2, <3>1, LeastNat
  <2>2. i \in SegmentsInFile /\ i \in Indices /\ i \in Nat /\ i < file[0].number
    BY <1>1 DEF SegmentsInFile, SegmentsInv, FileOK
  <2>3. o[i] = IF i = 0 THEN 1 ELSE o[i - 1] + TotalSize(file[o[i - 1]])
    BY <2>2 DEF Walks
  <2>4. segment[i].ready
    BY <2>2 DEF SegmentsInv, FileOK
  <2>5. segment[i].offset = IF i = 0 THEN 1 ELSE End(i - 1)
    BY <2>2, <2>4 DEF SegmentsInv, LayoutOK, OffsetOf
  <2>6. CASE i = 0
    BY <2>3, <2>5, <2>6
  <2>7. CASE i # 0
    <3>1. i - 1 \in SegmentsInFile /\ i - 1 < i /\ i - 1 < file[0].number /\ i - 1 \in Nat
      BY <2>2, <2>7 DEF SegmentsInFile, SegmentsInv, FileOK
    <3>2. o[i - 1] = segment[i - 1].offset
      BY <2>1, <2>2, <3>1
    <3>3. i - 1 \in Indices /\ segment[i - 1].ready
          /\ file[segment[i - 1].offset].allocated = segment[i - 1].allocated
      BY <1>1, <3>1 DEF SegmentsInv, FileOK
    <3>4. segment[i - 1].offset \in Nat /\ segment[i - 1].allocated \in Nat
      BY <3>3, Places DEF SegmentType
    <3> QED BY <2>3, <2>5, <2>7, <3>2, <3>3, <3>4 DEF End, OffsetOf, SizeOf, TotalSize
  <2> QED BY <2>6, <2>7
<1> QED BY <1>1, <1>2

(* What the constructor loads: every segment it comes by is where it was,   *)
(* and as large.                                                            *)
LEMMA LoadedSegments ==
  ASSUME SegmentsInv, Restart
  PROVE  /\ Indices' = 0 .. file[0].number - 1 /\ numberOfSegments' = file[0].number
         /\ SegmentsInFile = Indices' /\ freeSegments' \subseteq Indices'
         /\ DOMAIN segment' = Indices' /\ segment' = [i \in Indices' |-> segment'[i]]
         /\ \A i \in Indices' :
              /\ i \in Indices /\ i \in Nat /\ i < file[0].number
              /\ segment'[i] \in SegmentType /\ CountsOK(segment'[i])
              /\ segment[i].ready /\ segment'[i].ready
              /\ segment'[i].offset = segment[i].offset
              /\ segment'[i].allocated = segment[i].allocated
              /\ file[segment[i].offset] = SegmentHeader(segment'[i])
              /\ i \in freeSegments' <=> FreeBlocks(segment'[i]) > 0
              /\ segmentMutex'[i] = None
<1> DEFINE m == file[0].number
<1>1. PICK o \in Walks :
        /\ segment' = [i \in SegmentsInFile |-> LoadSegment(o[i], file[o[i]])]
        /\ freeSegments' = {i \in SegmentsInFile : FreeBlocks(LoadSegment(o[i], file[o[i]])) > 0}
  BY DEF Restart
<1>2. segmentMutex' = [i \in SegmentsInFile |-> None]
  BY DEF Restart
<1>3. /\ m \in Nat /\ m <= numberOfSegments /\ numberOfSegments \in Nat
      /\ SegmentsInFile = 0 .. m - 1 /\ SegmentsInFile \subseteq Indices
  BY Places DEF SegmentsInv, FileOK, SegmentsInFile
<1>4. /\ Indices' = 0 .. m - 1 /\ numberOfSegments' = m /\ SegmentsInFile = Indices'
  <2>1. Indices' = 0 .. m - 1
    BY <1>1, <1>3 DEF Indices
  <2>2. Cardinality(0 .. m - 1) = m
    <3> HIDE DEF m
    <3>1. m \in Nat
      BY <1>3
    <3>2. IF 0 > m - 1 THEN m = 0 ELSE (m - 1) - 0 + 1 = m
      BY <3>1
    <3> QED BY <3>1, <3>2, FS_Interval
  <2> QED BY <1>3, <2>1, <2>2 DEF numberOfSegments
<1> HIDE DEF m
<1>5. ASSUME NEW i \in Indices'
      PROVE  /\ i \in Indices /\ i \in Nat /\ i < m
             /\ segment'[i] = LoadSegment(segment[i].offset, file[segment[i].offset])
             /\ segment'[i] \in SegmentType /\ CountsOK(segment'[i])
             /\ segment[i].ready /\ segment'[i].ready
             /\ segment'[i].offset = segment[i].offset
             /\ segment'[i].allocated = segment[i].allocated
             /\ file[segment[i].offset] = SegmentHeader(segment'[i])
             /\ i \in freeSegments' <=> FreeBlocks(segment'[i]) > 0
             /\ segmentMutex'[i] = None
  <2> DEFINE h == file[segment[i].offset]
  <2>1. i \in SegmentsInFile /\ i \in Indices /\ o[i] = segment[i].offset
    BY <1>4, WalkFindsSegments
  <2>2. i \in Nat /\ i < m
    BY <1>3, <1>4
  <2>3. segment[i].ready /\ h \in HeaderType /\ CountsOK(h) /\ h.allocated = segment[i].allocated
    BY <2>1, <2>2 DEF SegmentsInv, FileOK, m
  <2>4. segment'[i] = LoadSegment(segment[i].offset, h)
    BY <1>1, <2>1
  <2>5. segment[i].offset \in Nat
    BY <2>1, Places DEF SegmentType
  <2> HIDE DEF h
  <2>6. segment'[i] \in SegmentType /\ CountsOK(segment'[i]) /\ h = SegmentHeader(segment'[i])
    BY <2>3, <2>4, <2>5 DEF LoadSegment, SegmentType, HeaderType, CountsOK, SegmentHeader
  <2>7. /\ segment'[i].ready /\ segment'[i].offset = segment[i].offset
        /\ segment'[i].allocated = segment[i].allocated
    BY <2>3, <2>4 DEF LoadSegment
  <2>8. i \in freeSegments' <=> FreeBlocks(segment'[i]) > 0
    BY <1>1, <2>1
  <2> QED BY <1>2, <2>1, <2>2, <2>3, <2>4, <2>6, <2>7, <2>8 DEF h
<1>6. segment' = [i \in Indices' |-> segment'[i]] /\ freeSegments' \subseteq Indices'
  BY <1>1, <1>4
<1> QED BY <1>4, <1>5, <1>6 DEF Indices, m

LEMMA RestartInv == ASSUME SegmentsInv, Restart PROVE SegmentsInv'
<1> DEFINE m == file[0].number
<1>2. /\ MayCrash \/ clean
      /\ lastAllocatedBlocks' = file[0].last /\ mutex' = None
      /\ segmentMutex' = [i \in SegmentsInFile |-> None]
      /\ pc' = [t \in Threads |-> "client"]
      /\ index' = [t \in Threads |-> None]
      /\ block' = [t \in Threads |-> None]
      /\ extent' = [t \in Threads |-> <<0, 0>>]
      /\ flushing' = None /\ live' = durable /\ clean' = TRUE
      /\ UNCHANGED <<file, durable>>
  BY DEF Restart
<1>3. /\ m \in Nat /\ m <= numberOfSegments /\ numberOfSegments \in Nat
      /\ SegmentsInFile = 0 .. m - 1 /\ SegmentsInFile \subseteq Indices
  BY Places DEF SegmentsInv, FileOK, SegmentsInFile
<1>4. /\ Indices' = 0 .. m - 1 /\ numberOfSegments' = m /\ SegmentsInFile = Indices'
      /\ segment' = [i \in Indices' |-> segment'[i]] /\ freeSegments' \subseteq Indices'
  BY LoadedSegments
<1> HIDE DEF m
<1>5. ASSUME NEW i \in Indices'
      PROVE  /\ i \in Indices /\ i \in Nat /\ i < m
             /\ segment'[i] \in SegmentType /\ CountsOK(segment'[i])
             /\ segment[i].ready /\ segment'[i].ready
             /\ segment'[i].offset = segment[i].offset
             /\ segment'[i].allocated = segment[i].allocated
             /\ file[segment[i].offset] = SegmentHeader(segment'[i])
             /\ i \in freeSegments' <=> FreeBlocks(segment'[i]) > 0
             /\ segmentMutex'[i] = None
  BY LoadedSegments DEF m
<1>6. TypeOK'
  <2>1. segment' \in [Indices' -> SegmentType]
    BY <1>4, <1>5
  <2>2. live' \subseteq Indices' \X Nat
    <3>1. ASSUME NEW id \in durable PROVE id \in Indices' \X Nat
      <4>1. id \in Indices \X Nat /\ id[1] < m
        BY DEF SegmentsInv, TypeOK, BlocksOK, m
      <4>2. id[1] \in Nat
        BY <4>1, Places
      <4>3. id[1] \in Indices'
        BY <1>3, <1>4, <4>1, <4>2
      <4> QED BY <4>1, <4>3
    <3> QED BY <1>2, <3>1
  <2>3. lastAllocatedBlocks' \in Nat
    BY <1>2 DEF SegmentsInv, FileOK
  <2>4. freeSegments' \subseteq Indices' /\ segmentMutex' \in [Indices' -> Threads \cup {None}]
    BY <1>2, <1>4
  <2>5. DOMAIN file' = 0 .. Cardinality(DOMAIN file') - 1
    BY <1>2 DEF SegmentsInv, TypeOK
  <2> QED BY <1>2, <1>4, <2>1, <2>2, <2>3, <2>4, <2>5 DEF TypeOK
<1>7. MutexesOK' /\ ReadyOK' /\ ChoicesOK'
  BY <1>2, <1>4, <1>5, ThreadsAssumption DEF MutexesOK, ReadyOK, ChoicesOK
<1>8. FreeOK'
  <2>1. \A i \in Indices' : IsFree(i)' <=> FreeBlocks(segment'[i]) > 0
    BY <1>5, ThreadsAssumption DEF IsFree, OwnerAt
  <2> QED BY <1>5, <2>1 DEF FreeOK
<1>9. LayoutOK'
  <2>1. ASSUME NEW i \in Indices'
        PROVE OffsetOf(i)' = OffsetOf(i) /\ SizeOf(i)' = SizeOf(i) /\ End(i)' = End(i)
    BY <1>5 DEF OffsetOf, SizeOf, End
  <2>2. numberOfSegments' \in Nat /\ FileSize' = FileSize
    BY <1>2, <1>3, <1>4 DEF FileSize
  <2>3. \A i \in Indices' : i # 0 => i - 1 \in Indices'
    BY <1>3, <1>4
  <2>4. \A i \in Indices' : i \in Indices
    BY <1>5
  <2> QED BY <2>1, <2>2, <2>3, <2>4 DEF SegmentsInv, LayoutOK
<1>10. SegmentsOK'
  BY <1>5 DEF SegmentsOK
<1>11. FileOK'
  <2>1. ASSUME NEW p \in DOMAIN file, file[p].kind = "link"
        PROVE  MayDelete /\ \E i \in Indices' : \E b \in 0 .. segment'[i].allocated - 1 :
                 /\ segment'[i].ready /\ p = Position(segment'[i], b)
                 /\ file[p].next \in Nat /\ file[p].next < segment'[i].allocated
    <3>1. MayDelete /\ \E i \in Indices : \E b \in 0 .. segment[i].allocated - 1 :
            /\ segment[i].ready /\ p = Position(segment[i], b)
            /\ file[p].next \in Nat /\ file[p].next < segment[i].allocated
      BY <2>1 DEF SegmentsInv, FileOK
    <3>2. m = numberOfSegments
      BY <1>2, <3>1, ModesAssumption DEF SegmentsInv, FlushOK, m
    <3>3. Indices' = Indices
      BY <1>4, <3>2, Places
    <3> QED BY <1>5, <3>1, <3>3 DEF Position
  <2>2. \A i \in Indices' :
          LET h == file[segment'[i].offset] IN
          /\ segment'[i].ready /\ h \in HeaderType /\ CountsOK(h)
          /\ h.allocated = segment'[i].allocated
    BY <1>5 DEF SegmentsInv, FileOK, m
  <2>3. m <= m
    BY <1>3
  <2> QED BY <1>2, <1>4, <2>1, <2>2, <2>3 DEF SegmentsInv, FileOK, m
<1>12. FlushOK'
  <2>1. Idle'
    BY <1>2 DEF Idle
  <2>2. \A i \in Indices' : file'[segment'[i].offset] = SegmentHeader(segment'[i])
    BY <1>2, <1>5
  <2>3. \A n : Flushed(n)'
    BY <2>2 DEF Flushed
  <2>4. file'[0].number = numberOfSegments'
    BY <1>2, <1>4 DEF m
  <2>5. Flushed(numberOfSegments)'
    BY <2>2 DEF Flushed
  <2> QED BY <1>2, <2>1, <2>4, <2>5 DEF FlushOK
<1>13. BlocksOK'
  <2>1. \A id \in durable : id \in live /\ id[1] \in Indices'
    BY <1>2, <1>6 DEF SegmentsInv, TypeOK
  <2> QED BY <1>2, <1>5, <2>1 DEF SegmentsInv, BlocksOK
<1> QED BY <1>6, <1>7, <1>8, <1>9, <1>10, <1>11, <1>12, <1>13 DEF SegmentsInv

(***************************************************************************)
(* The invariant, and what follows from it.                                *)
(***************************************************************************)
LEMMA SegmentsStutter == ASSUME SegmentsInv, UNCHANGED vars PROVE SegmentsInv'
<1>0. UNCHANGED <<segment, lastAllocatedBlocks, freeSegments, mutex, segmentMutex, pc, index,
                  block, extent, flushing, file, live, durable, clean>>
  BY DEF vars, manager, locks, locals, callers
<1>1. Indices' = Indices /\ numberOfSegments' = numberOfSegments /\ SamePlaces
  BY <1>0 DEF Indices, numberOfSegments, SamePlaces
<1>2. TypeOK'
  BY <1>0, <1>1 DEF SegmentsInv, TypeOK
<1>3. MutexesOK' /\ ReadyOK' /\ ChoicesOK' /\ SegmentsOK'
  BY <1>0, <1>1 DEF SegmentsInv, MutexesOK, ReadyOK, ChoicesOK, SegmentsOK
<1>4. FreeOK'
  <2>1. \A j \in Indices : IsFree(j)' <=> IsFree(j)
    BY <1>0 DEF IsFree, OwnerAt
  <2> QED BY <1>0, <1>1, <2>1 DEF SegmentsInv, FreeOK
<1>5. LayoutOK' /\ FileOK' /\ BlocksOK'
  BY <1>0, <1>1, SameLayout, SameHeaders, SameBlocks
<1>6. FlushOK'
  BY <1>0, <1>1 DEF SegmentsInv, FlushOK, Idle, Flushed
<1> QED BY <1>2, <1>3, <1>4, <1>5, <1>6 DEF SegmentsInv

(* Every reachable state satisfies the inductive invariant; in particular    *)
(* no thread finds a segment without a free block after it chose it, which   *)
(* the code asserts (SegmentManager.h:162) and Segment::createBlock raises.  *)
THEOREM SegmentsInvariant == Spec => []SegmentsInv
<1>1. Init => SegmentsInv
  BY SegmentsInit
<1>2. SegmentsInv /\ [Next]_vars => SegmentsInv'
  <2> SUFFICES ASSUME SegmentsInv, [Next]_vars PROVE SegmentsInv'
    OBVIOUS
  <2>1. ASSUME NEW t \in Threads, Calls(t) PROVE SegmentsInv'
    BY <2>1, AppendSegmentInv, ChooseSegmentInv, StartDeleteInv DEF Calls
  <2>2. ASSUME NEW t \in Threads, Steps(t) PROVE SegmentsInv'
    BY <2>2, InitializeInv, LockToCreateInv, CreateBlockInv, LockToDeleteInv,
       DeleteBlockInv DEF Steps
  <2>3. ASSUME NEW id \in live, WriteBlock(id) PROVE SegmentsInv'
    BY <2>3, WriteBlockInv
  <2>4. CASE StartFlush \/ FlushSegment \/ FlushManager \/ Restart
    BY <2>4, StartFlushInv, FlushSegmentInv, FlushManagerInv, RestartInv
  <2>5. CASE UNCHANGED vars
    BY <2>5, SegmentsStutter
  <2> QED BY <2>1, <2>2, <2>3, <2>4, <2>5 DEF Next
<1> QED BY <1>1, <1>2, PTL DEF Spec

(* The variables keep their types: indices, block numbers and file          *)
(* positions stay in range.                                                 *)
THEOREM SegmentsTypeCorrect == Spec => []TypeOK
<1>1. SegmentsInv => TypeOK
  BY DEF SegmentsInv
<1> QED BY <1>1, SegmentsInvariant, PTL

(* The set of free segments names exactly the segments with a free block    *)
(* (SegmentManager.h:156-164, 191-193), also while segments are locked.     *)
THEOREM FreeSegmentsCorrect == Spec => []FreeSegmentsExact
<1>1. SegmentsInv => FreeSegmentsExact
  <2> SUFFICES ASSUME SegmentsInv, NEW i \in Indices
               PROVE  i \in freeSegments <=>
                        \/ ~segment[i].ready
                        \/ Deleting(i)
                        \/ FreeBlocks(segment[i]) > (IF Creating(i) THEN 1 ELSE 0)
    BY DEF FreeSegmentsExact
  <2>1. Deleting(i) <=> OwnerAt(i, "delete")
    BY DEF SegmentsInv, MutexesOK, Deleting, OwnerAt, At
  <2>2. Creating(i) <=> OwnerAt(i, "create")
    BY DEF SegmentsInv, MutexesOK, Creating, OwnerAt, At
  <2> QED BY <2>1, <2>2 DEF SegmentsInv, FreeOK, IsFree
<1> QED BY <1>1, SegmentsInvariant, PTL

(* What is read of a segment without its mutex (SegmentManager.h:128, 209,  *)
(* 232) was initialised before.                                             *)
THEOREM ReadsCorrect == Spec => []ReadsInitialized
<1>1. SegmentsInv => ReadsInitialized
  BY DEF SegmentsInv, FreeOK, IsFree, BlocksOK, ReadsInitialized
<1> QED BY <1>1, SegmentsInvariant, PTL

(* Whenever the process ends, the walk of the constructor over the file     *)
(* (SegmentManager.h:79-90) finds a header for every segment.               *)
THEOREM AlwaysReopens == Spec => []Reopens
<1>1. SegmentsInv => Reopens
  <2> SUFFICES ASSUME SegmentsInv PROVE Walks # {}
    BY DEF Reopens, HeadersFound
  <2> DEFINE o == [i \in SegmentsInFile |-> segment[i].offset]
  <2>1. ASSUME NEW i \in SegmentsInFile
        PROVE  /\ i \in Indices /\ i \in Nat /\ segment[i].ready
               /\ segment[i].offset \in HeadersInFile
               /\ file[segment[i].offset].allocated = segment[i].allocated
               /\ segment[i].offset \in Nat /\ segment[i].allocated \in Nat
               /\ i # 0 => i - 1 \in SegmentsInFile
    <3>1. i \in Indices /\ i \in Nat /\ i < file[0].number /\ (i # 0 => i - 1 \in SegmentsInFile)
      BY Places DEF SegmentsInv, FileOK, SegmentsInFile
    <3>2. /\ segment[i].ready /\ file[segment[i].offset] \in HeaderType
          /\ file[segment[i].offset].allocated = segment[i].allocated
      BY <3>1 DEF SegmentsInv, FileOK
    <3>3. segment[i].offset \in DOMAIN file /\ segment[i] \in SegmentType
      BY <3>1, <3>2, Places
    <3>4. file[segment[i].offset].kind = "segment"
      BY <3>2 DEF HeaderType
    <3> QED BY <3>1, <3>2, <3>3, <3>4 DEF HeadersInFile, SegmentType
  <2>2. o \in [SegmentsInFile -> HeadersInFile]
    BY <2>1
  <2>3. ASSUME NEW i \in SegmentsInFile
        PROVE  segment[i].offset = IF i = 0 THEN 1
                 ELSE segment[i - 1].offset + TotalSize(file[segment[i - 1].offset])
    <3>1. segment[i].offset = IF i = 0 THEN 1 ELSE End(i - 1)
      BY <2>1 DEF SegmentsInv, LayoutOK, OffsetOf
    <3>2. i # 0 => /\ segment[i - 1].ready /\ segment[i - 1].offset \in Nat
                   /\ segment[i - 1].allocated \in Nat
                   /\ file[segment[i - 1].offset].allocated = segment[i - 1].allocated
      BY <2>1
    <3> QED BY <3>1, <3>2 DEF End, OffsetOf, SizeOf, TotalSize
  <2>4. \A i \in SegmentsInFile :
          o[i] = IF i = 0 THEN 1 ELSE o[i - 1] + TotalSize(file[o[i - 1]])
    BY <2>1, <2>3
  <2> QED BY <2>2, <2>4 DEF Walks
<1> QED BY <1>1, SegmentsInvariant, PTL

(***************************************************************************)
(* The segment manager implements BlockStore, for any number of threads    *)
(* and segments: no block is handed out twice, none is lost, and what was  *)
(* written to a block stays in it until it is deleted.                     *)
(***************************************************************************)

(* The substitution of Store in SegmentManager. *)
Intact == {id \in live : ReadBlock(id) = Data(id)}
StoreMove == [Store!StoreNext]_(Store!storeVars)

(***************************************************************************)
(* What a step may leave alone.                                            *)
(***************************************************************************)
SameUsers ==
  /\ live' = live /\ durable' = durable
  /\ \A t \in Threads : /\ Deletes(t)' <=> Deletes(t)
                        /\ Deletes(t) => index'[t] = index[t] /\ block'[t] = block[t]

(* The blocks of a segment have the contents they had. *)
KeepsBlocks(i) ==
  segment[i].ready => \A b \in Nat :
    b < segment[i].allocated =>
      file'[Position(segment[i], b)] = file[Position(segment[i], b)]

LEMMA UsedSame ==
  ASSUME SameUsers
  PROVE  \A i, b : Used(i, b)' <=> Used(i, b)
BY DEF SameUsers, Used

(* Used blocks have been given out. *)
LEMMA UsedBlock ==
  ASSUME SegmentsInv, UsersOK, NEW i \in Indices, NEW b, Used(i, b)
  PROVE  b \in Nat /\ b < segment[i].occupied /\ segment[i].ready /\ b < segment[i].allocated
<1>1. CASE <<i, b>> \in live
  <2>1. <<i, b>> \in Indices \X Nat
    BY <1>1 DEF SegmentsInv, TypeOK
  <2>2. <<i, b>>[1] = i /\ <<i, b>>[2] = b
    OBVIOUS
  <2> QED BY <1>1, <2>1, <2>2 DEF SegmentsInv, BlocksOK, UsersOK
<1>2. CASE \E t \in Threads : Deletes(t) /\ index[t] = i /\ block[t] = b
  BY <1>2 DEF SegmentsInv, ChoicesOK, UsersOK, Deletes
<1> QED BY <1>1, <1>2 DEF Used

(* A free list stays as it is when its segment does, nothing is written to  *)
(* a block that is not used, and the used blocks are the same.              *)
LEMMA SameList ==
  ASSUME BlocksInv, NEW i \in Indices, segment'[i] = segment[i],
         \A b : Used(i, b)' <=> Used(i, b),
         \A b \in Nat : b < segment[i].occupied /\ ~Used(i, b) =>
           file'[Position(segment[i], b)] = file[Position(segment[i], b)]
  PROVE  \E l \in FreeLists(i)' : ListOK(i, l)'
<1>1. PICK l \in FreeLists(i) : ListOK(i, l)
  BY DEF BlocksInv, ListsOK
<1>2. segment[i].occupied \in Nat /\ segment[i].deleted \in Nat
  BY Places DEF BlocksInv, SegmentType
<1>3. /\ l \in [1 .. segment[i].deleted -> 0 .. segment[i].occupied - 1]
      /\ segment[i].deleted > 0 => l[1] = segment[i].head
      /\ \A n \in 1 .. segment[i].deleted - 1 : l[n + 1] = NextFree(i, l[n])
  BY DEF FreeLists
<1>4. \A n \in 1 .. segment[i].deleted : /\ l[n] \in Nat /\ l[n] < segment[i].occupied
                                         /\ ~Used(i, l[n])
  BY <1>1, <1>2, <1>3, SMTT(30) DEF ListOK
<1>5. \A n \in 1 .. segment[i].deleted - 1 : n \in 1 .. segment[i].deleted
  BY <1>2
<1>6. \A n \in 1 .. segment[i].deleted - 1 : NextFree(i, l[n])' = NextFree(i, l[n])
  BY <1>4, <1>5 DEF NextFree
<1>7. l \in FreeLists(i)'
  BY <1>3, <1>6 DEF FreeLists
<1>8. ListOK(i, l)'
  BY <1>1, <1>7 DEF ListOK
<1> QED BY <1>7, <1>8

(* A segment none of whose blocks was ever given out. *)
LEMMA EmptyList ==
  ASSUME NEW i, segment'[i].occupied = 0, segment'[i].deleted = 0
  PROVE  \E l \in FreeLists(i)' : ListOK(i, l)'
<1> DEFINE l == [n \in 1 .. 0 |-> 0]
<1>1. 1 .. 0 = {} /\ 0 .. 0 - 1 = {} /\ 1 .. 0 - 1 = {} /\ ~(0 > 0)
  OBVIOUS
<1>2. l \in [1 .. 0 -> 0 .. 0 - 1] /\ DOMAIN l = {}
  BY <1>1
<1> HIDE DEF l
<1>3. l \in FreeLists(i)'
  BY <1>1, <1>2 DEF FreeLists
<1>4. ListOK(i, l)'
  BY <1>1, <1>2, <1>3 DEF ListOK, NoRepetition
<1> QED BY <1>3, <1>4

LEMMA UninitializedIsEmpty ==
  Uninitialized.occupied = 0 /\ Uninitialized.deleted = 0 /\ Uninitialized.ready = FALSE
BY DEF Uninitialized

(* What the callers see is the same when their blocks have the contents they *)
(* had.                                                                      *)
LEMMA IntactSame ==
  ASSUME SegmentsInv, NEW B, B \subseteq live,
         \A id \in B : /\ Position(segment'[id[1]], id[2]) = PositionOf(id)
                       /\ file'[PositionOf(id)] = file[PositionOf(id)]
  PROVE  {id \in B : ReadBlock(id)' = Data(id)} = Intact \cap B
BY DEF Intact, ReadBlock, PositionOf

LEMMA Unseen ==
  ASSUME SegmentsInv, SameUsers,
         \A i \in Indices : segment[i].ready =>
           segment'[i].offset = segment[i].offset /\ KeepsBlocks(i)
  PROVE  StoreMove
<1>1. ASSUME NEW id \in live
      PROVE  /\ Position(segment'[id[1]], id[2]) = PositionOf(id)
             /\ file'[PositionOf(id)] = file[PositionOf(id)]
  <2>1. id \in Indices \X Nat /\ segment[id[1]].ready /\ id[2] < segment[id[1]].allocated
    BY DEF SegmentsInv, TypeOK, BlocksOK
  <2> QED BY <2>1 DEF KeepsBlocks, Position, PositionOf
<1>2. {id \in live : ReadBlock(id)' = Data(id)} = Intact
  BY <1>1, IntactSame DEF Intact
<1>3. Intact' = Intact
  BY <1>2 DEF Intact, SameUsers
<1> QED BY <1>3 DEF StoreMove, Store!storeVars, Intact, SameUsers

(***************************************************************************)
(* Steps nobody outside sees.                                              *)
(***************************************************************************)

(* A segment stays as it is, or it has no block that was ever given out. *)
SegmentStays(i) ==
  /\ i \in Indices /\ segment[i].ready /\ segment'[i] = segment[i]
  /\ file'[segment[i].offset].occupied \in
       {file[segment[i].offset].occupied, segment[i].occupied}
SegmentIsNew(i) ==
  /\ segment'[i].occupied = 0 /\ segment'[i].deleted = 0
  /\ ~segment'[i].ready => segment'[i] = Uninitialized

LEMMA QuietStep ==
  ASSUME BlocksInv, SegmentsInv', SameUsers, clean' => clean, Indices \subseteq Indices',
         \A i \in Indices : KeepsBlocks(i) /\ (segment[i].ready => SegmentStays(i)),
         \A i \in Indices' : SegmentStays(i) \/ SegmentIsNew(i)
  PROVE  ListsOK' /\ UsersOK' /\ StoreMove
<1>1. \A i, b : Used(i, b)' <=> Used(i, b)
  BY UsedSame
<1>2. ListsOK'
  <2>1. ASSUME NEW i \in Indices' PROVE \E l \in FreeLists(i)' : ListOK(i, l)'
    <3>1. CASE SegmentStays(i)
      <4>1. i \in Indices /\ segment[i].ready /\ segment'[i] = segment[i]
        BY <3>1 DEF SegmentStays
      <4>2. segment[i].occupied <= segment[i].allocated /\ segment[i].occupied \in Nat
            /\ segment[i].allocated \in Nat
        BY <4>1, Places DEF BlocksInv, SegmentsInv, SegmentsOK, CountsOK, SegmentType
      <4>3. \A b \in Nat : b < segment[i].occupied => b < segment[i].allocated
        BY <4>2
      <4>4. \A b \in Nat : b < segment[i].occupied =>
              file'[Position(segment[i], b)] = file[Position(segment[i], b)]
        BY <4>1, <4>3 DEF KeepsBlocks
      <4> QED BY <1>1, <4>1, <4>4, SameList
    <3>2. CASE SegmentIsNew(i)
      <4>1. segment'[i].occupied = 0 /\ segment'[i].deleted = 0
        BY <3>2 DEF SegmentIsNew
      <4> QED BY <4>1, EmptyList
    <3> QED BY <2>1, <3>1, <3>2
  <2> QED BY <2>1 DEF ListsOK
<1>3. UsersOK'
  <2>1. ASSUME NEW i \in Indices, segment[i].ready
        PROVE  /\ segment'[i].occupied = segment[i].occupied
               /\ segment'[i].offset = segment[i].offset
               /\ file'[segment[i].offset].occupied \in
                    {file[segment[i].offset].occupied, segment[i].occupied}
    BY <2>1 DEF SegmentStays
  <2>2. \A id \in live : id[1] \in Indices /\ segment[id[1]].ready
    BY DEF BlocksInv, SegmentsInv, TypeOK, BlocksOK
  <2>3. \A t \in Threads : Deletes(t) => index[t] \in Indices /\ segment[index[t]].ready
    BY Working DEF BlocksInv, SegmentsInv, ChoicesOK, Deletes
  <2>4. \A id \in live' : id[2] < segment'[id[1]].occupied
    BY <2>1, <2>2 DEF BlocksInv, UsersOK, SameUsers
  <2>5. \A t \in Threads : Deletes(t)' =>
          /\ block'[t] < segment'[index'[t]].occupied
          /\ <<index'[t], block'[t]>> \notin live'
          /\ \A u \in Threads : Deletes(u)' /\ index'[u] = index'[t] /\ block'[u] = block'[t] => u = t
    BY <2>1, <2>3 DEF BlocksInv, UsersOK, SameUsers
  <2>6. \A id \in durable' : id[2] < file'[segment'[id[1]].offset].occupied
    <3>1. durable \subseteq live /\ durable' = durable
      BY DEF BlocksInv, SegmentsInv, TypeOK, SameUsers
    <3> QED BY <2>1, <2>2, <3>1 DEF BlocksInv, UsersOK
  <2>7. clean' => durable' = live'
    BY DEF BlocksInv, UsersOK, SameUsers
  <2>8. \A i \in Indices' : ~segment'[i].ready => segment'[i] = Uninitialized
    BY DEF SegmentStays, SegmentIsNew
  <2> QED BY <2>4, <2>5, <2>6, <2>7, <2>8 DEF UsersOK
<1>4. StoreMove
  <2>1. \A i \in Indices : segment[i].ready =>
          segment'[i].offset = segment[i].offset /\ KeepsBlocks(i)
    BY DEF SegmentStays
  <2> QED BY <2>1, Unseen DEF BlocksInv
<1> QED BY <1>2, <1>3, <1>4

(* Steps that change neither a segment nor the file. *)
LEMMA QuietUnchanged ==
  ASSUME BlocksInv, SegmentsInv', SameUsers, clean' => clean, UNCHANGED <<segment, file>>
  PROVE  ListsOK' /\ UsersOK' /\ StoreMove
<1>1. Indices' = Indices
  BY DEF Indices
<1>2. \A i \in Indices : KeepsBlocks(i) /\ (segment[i].ready => SegmentStays(i))
  BY DEF KeepsBlocks, SegmentStays
<1>3. \A i \in Indices' : SegmentStays(i) \/ SegmentIsNew(i)
  BY <1>1, UninitializedIsEmpty DEF SegmentStays, SegmentIsNew, BlocksInv, UsersOK
<1> QED BY <1>1, <1>2, <1>3, QuietStep

LEMMA AppendSegmentQuiet ==
  ASSUME BlocksInv, SegmentsInv', NEW t \in Threads, AppendSegment(t)
  PROVE  ListsOK' /\ UsersOK' /\ StoreMove
<1> DEFINE n == numberOfSegments
           size == NextOffset + 1 + NextSize
<1>0. /\ pc[t] = "client" /\ freeSegments = {}
      /\ segment' = [i \in Indices \cup {n} |->
                       IF i \in Indices THEN segment[i] ELSE Uninitialized]
      /\ file' = Truncated(size)
      /\ pc' = [pc EXCEPT ![t] = "initialize"]
      /\ index' = [index EXCEPT ![t] = n]
      /\ block' = [block EXCEPT ![t] = None]
      /\ clean' = FALSE
      /\ UNCHANGED <<live, durable>>
  BY DEF AppendSegment, Enter, At
<1>1. SegmentsInv
  BY DEF BlocksInv
<1>2. /\ Indices' = Indices \cup {n}
      /\ \A i \in Indices : segment'[i] = segment[i]
      /\ \A i \in Indices' : i \notin Indices => segment'[i] = Uninitialized
  BY <1>0 DEF Indices
<1>3. /\ NextOffset \in Nat /\ NextSize \in Nat
      /\ \A i \in Indices : segment[i].ready /\ End(i) <= NextOffset
  BY <1>0, <1>1, NextOffsetOK, NextSizeOK DEF SegmentsInv
<1>4. \A p \in DOMAIN file : p \in Nat /\ p < NextOffset => file'[p] = file[p]
  <2>1. \A p \in Nat : p < NextOffset => p \in 0 .. size - 1
    BY <1>3
  <2> QED BY <1>0, <2>1 DEF Truncated
<1>5. SameUsers
  BY <1>0, <1>1 DEF SegmentsInv, TypeOK, SameUsers, Deletes
<1>6. ASSUME NEW i \in Indices PROVE KeepsBlocks(i) /\ SegmentStays(i)
  <2>1. /\ segment[i].ready /\ segment[i].offset \in Nat /\ segment[i].allocated \in Nat
        /\ segment[i].offset + 1 + segment[i].allocated <= NextOffset
    BY <1>1, <1>3, Places DEF End, OffsetOf, SizeOf, SegmentType
  <2>2. /\ segment[i].offset < NextOffset
        /\ \A b \in Nat : b < segment[i].allocated =>
             Position(segment[i], b) \in Nat /\ Position(segment[i], b) < NextOffset
    BY <1>3, <2>1 DEF Position
  <2>3. /\ segment[i].offset \in DOMAIN file
        /\ \A b \in Nat : b < segment[i].allocated => Position(segment[i], b) \in DOMAIN file
    BY <1>1, <2>1, Places
  <2> QED BY <1>2, <1>4, <2>1, <2>2, <2>3 DEF KeepsBlocks, SegmentStays
<1>7. \A i \in Indices' : SegmentStays(i) \/ SegmentIsNew(i)
  BY <1>2, <1>6, UninitializedIsEmpty DEF SegmentIsNew
<1> QED BY <1>0, <1>2, <1>5, <1>6, <1>7, QuietStep

LEMMA InitializeQuiet ==
  ASSUME BlocksInv, SegmentsInv', NEW t \in Threads, Initialize(t)
  PROVE  ListsOK' /\ UsersOK' /\ StoreMove
<1> DEFINE i == index[t]
           s == NewSegmentAt(extent[t][1], extent[t][2])
<1>0. /\ pc[t] = "initialize" /\ pc' = [pc EXCEPT ![t] = "create"]
      /\ segment' = [segment EXCEPT ![i] = s]
      /\ index' = [index EXCEPT ![t] = index[t]]
      /\ block' = [block EXCEPT ![t] = block[t]]
      /\ UNCHANGED <<file, live, durable, clean>>
  BY DEF Initialize, Enter, Go, At, callers
<1>1. SegmentsInv
  BY DEF BlocksInv
<1>2. i \in Indices /\ ~segment[i].ready
  BY <1>0, <1>1, Working DEF SegmentsInv, ReadyOK
<1>3. s.ready /\ s.occupied = 0 /\ s.deleted = 0
  BY DEF NewSegmentAt
<1> HIDE DEF i, s
<1>4. /\ Indices' = Indices /\ segment'[i] = s
      /\ \A j \in Indices : j # i => segment'[j] = segment[j]
  BY <1>0, <1>2 DEF Indices
<1>5. SameUsers
  BY <1>0, <1>1 DEF SegmentsInv, TypeOK, SameUsers, Deletes
<1>6. \A j \in Indices : KeepsBlocks(j) /\ (segment[j].ready => SegmentStays(j))
  BY <1>0, <1>2, <1>4 DEF KeepsBlocks, SegmentStays
<1>7. \A j \in Indices' : SegmentStays(j) \/ SegmentIsNew(j)
  BY <1>3, <1>4, <1>6, UninitializedIsEmpty DEF SegmentIsNew, BlocksInv, UsersOK
<1> QED BY <1>0, <1>4, <1>5, <1>6, <1>7, QuietStep

LEMMA LocksQuiet ==
  ASSUME BlocksInv, SegmentsInv', NEW t \in Threads,
         ChooseSegment(t) \/ LockToCreate(t) \/ LockToDelete(t)
  PROVE  ListsOK' /\ UsersOK' /\ StoreMove
<1>1. TypeOK
  BY DEF BlocksInv, SegmentsInv
<1>2. UNCHANGED <<segment, file>> /\ (clean' => clean)
  BY DEF ChooseSegment, LockToCreate, LockToDelete, manager, callers
<1>3. SameUsers
  BY <1>1 DEF TypeOK, ChooseSegment, LockToCreate, LockToDelete, Enter, Go, At, callers,
              SameUsers, Deletes
<1> QED BY <1>2, <1>3, QuietUnchanged

(***************************************************************************)
(* Steps the callers see.                                                  *)
(***************************************************************************)

(* No segment changes, and nothing is written to a block that is not used.  *)
LEMMA SameLists ==
  ASSUME BlocksInv, segment' = segment,
         \A i, b : Used(i, b)' <=> Used(i, b),
         \A i \in Indices : segment[i].ready => \A b \in Nat :
           b < segment[i].allocated /\ ~Used(i, b) =>
             file'[Position(segment[i], b)] = file[Position(segment[i], b)]
  PROVE  ListsOK'
<1>1. Indices' = Indices
  BY DEF Indices
<1>2. ASSUME NEW i \in Indices PROVE \E l \in FreeLists(i)' : ListOK(i, l)'
  <2>1. CASE segment[i].ready
    <3>1. segment[i].occupied <= segment[i].allocated /\ segment[i].occupied \in Nat
          /\ segment[i].allocated \in Nat
      BY Places DEF BlocksInv, SegmentsInv, SegmentsOK, CountsOK, SegmentType
    <3>2. \A b \in Nat : b < segment[i].occupied => b < segment[i].allocated
      BY <3>1
    <3> QED BY <2>1, <3>2, SameList
  <2>2. CASE ~segment[i].ready
    <3>1. segment'[i].occupied = 0 /\ segment'[i].deleted = 0
      BY <2>2, UninitializedIsEmpty DEF BlocksInv, UsersOK
    <3> QED BY <3>1, EmptyList
  <2> QED BY <2>1, <2>2
<1> QED BY <1>1, <1>2 DEF ListsOK

(* The block that createBlock takes belongs to nobody. *)
LEMMA CreatedBlockOK ==
  ASSUME BlocksInv, NEW i \in Indices, segment[i].ready, FreeBlocks(segment[i]) >= 1
  PROVE  LET b == CreatedBlock(segment[i])
             r == AfterCreate(segment[i], file)
         IN
         /\ b \in Nat /\ ~Used(i, b) /\ b < r.occupied /\ r.occupied \in Nat
         /\ segment[i].occupied <= r.occupied
         /\ r.offset = segment[i].offset /\ r.ready
<1> DEFINE s == segment[i]
           b == CreatedBlock(s)
           r == AfterCreate(s, file)
<1>1. /\ s \in SegmentType /\ s.deleted \in Nat /\ s.occupied \in Nat
  BY Places DEF BlocksInv, SegmentType
<1>2. PICK l \in FreeLists(i) : ListOK(i, l)
  BY DEF BlocksInv, ListsOK
<1>3. CASE s.deleted > 0
  <2>1. l[1] = s.head /\ 1 \in 1 .. s.deleted /\ l \in [1 .. s.deleted -> 0 .. s.occupied - 1]
    BY <1>1, <1>2, <1>3 DEF FreeLists
  <2>2. b = l[1] /\ b \in Nat /\ b < s.occupied /\ ~Used(i, b)
    BY <1>1, <1>2, <1>3, <2>1 DEF CreatedBlock, ListOK
  <2>3. r.occupied = s.occupied /\ r.offset = s.offset /\ r.ready = s.ready
    BY <1>1, <1>3 DEF AfterCreate, SegmentType
  <2> QED BY <1>1, <2>2, <2>3
<1>4. CASE ~(s.deleted > 0)
  <2>1. b = s.occupied
    BY <1>4 DEF CreatedBlock
  <2>2. ~Used(i, b)
    <3>1. Used(i, b) => b < s.occupied
      BY UsedBlock DEF BlocksInv
    <3> QED BY <1>1, <2>1, <3>1
  <2>3. r.occupied = s.occupied + 1 /\ r.offset = s.offset /\ r.ready = s.ready
    BY <1>1, <1>4 DEF AfterCreate, SegmentType
  <2> QED BY <1>1, <2>1, <2>2, <2>3
<1> QED BY <1>3, <1>4

(* The free list after it. *)
LEMMA CreatedList ==
  ASSUME BlocksInv, NEW i \in Indices, segment[i].ready, FreeBlocks(segment[i]) >= 1,
         UNCHANGED file, segment'[i] = AfterCreate(segment[i], file),
         \A b : Used(i, b)' <=> Used(i, b) \/ b = CreatedBlock(segment[i])
  PROVE  \E l \in FreeLists(i)' : ListOK(i, l)'
<1> DEFINE s == segment[i]
           d == s.deleted
           N == s.occupied
           r == segment'[i]
<1>1. /\ s \in SegmentType /\ d \in Nat /\ N \in Nat
  BY Places DEF BlocksInv, SegmentType
<1>2. PICK l \in FreeLists(i) : ListOK(i, l)
  BY DEF BlocksInv, ListsOK
<1>3. /\ l \in [1 .. d -> 0 .. N - 1]
      /\ d > 0 => l[1] = s.head
      /\ \A n \in 1 .. d - 1 : l[n + 1] = NextFree(i, l[n])
      /\ \A m, n \in 1 .. d : l[m] = l[n] => m = n
      /\ \A n \in 1 .. d : ~Used(i, l[n])
      /\ ~MayCrash => \A b \in 0 .. N - 1 : Used(i, b) \/ \E n \in 1 .. d : l[n] = b
  BY <1>2 DEF FreeLists, ListOK, NoRepetition
<1>4. CASE d > 0
  <2>1. /\ r.deleted = d - 1 /\ r.occupied = N /\ r.offset = s.offset
        /\ d > 1 => r.head = StoredID(file[Position(s, s.head)])
        /\ CreatedBlock(s) = s.head
    BY <1>1, <1>4 DEF AfterCreate, CreatedBlock, SegmentType
  <2> PICK k : k = [n \in 1 .. d - 1 |-> l[n + 1]]
    OBVIOUS
  <2>2. \A n \in 1 .. d - 1 : n + 1 \in 1 .. d /\ n \in 1 .. d /\ n \in Nat
    BY <1>1
  <2>3. k \in [1 .. d - 1 -> 0 .. N - 1] /\ \A n \in 1 .. d - 1 : k[n] = l[n + 1]
    BY <1>3, <2>2
  <2>4. \A b : NextFree(i, b)' = NextFree(i, b)
    BY <2>1 DEF NextFree, Position
  <2>5. d - 1 > 0 => k[1] = r.head
    <3>1. d > 1 => l[1 + 1] = NextFree(i, l[1])
      BY <1>1, <1>3
    <3>2. d > 1 => k[1] = l[1 + 1]
      BY <1>1, <2>3
    <3> QED BY <1>1, <1>3, <1>4, <2>1, <3>1, <3>2 DEF NextFree
  <2>6. \A n \in 1 .. (d - 1) - 1 : k[n + 1] = NextFree(i, k[n])
    <3> TAKE n \in 1 .. (d - 1) - 1
    <3>1. n \in 1 .. d - 1 /\ n + 1 \in 1 .. d - 1
      BY <1>1
    <3> QED BY <1>3, <2>3, <3>1
  <2>7. k \in FreeLists(i)'
    BY <2>1, <2>3, <2>4, <2>5, <2>6 DEF FreeLists
  <2>8. NoRepetition(k)
    <3> SUFFICES ASSUME NEW m \in 1 .. d - 1, NEW n \in 1 .. d - 1, k[m] = k[n]
                 PROVE  m = n
      BY <2>3 DEF NoRepetition
    <3>1. m + 1 = n + 1
      BY <1>3, <2>2, <2>3
    <3> QED BY <2>2, <3>1
  <2>9. \A n \in DOMAIN k : ~Used(i, k[n])'
    <3> SUFFICES ASSUME NEW n \in 1 .. d - 1 PROVE ~Used(i, k[n])'
      BY <2>3
    <3>1. k[n] = l[n + 1] /\ n + 1 # 1 /\ n + 1 \in 1 .. d /\ 1 \in 1 .. d
      BY <1>1, <2>2, <2>3
    <3>2. k[n] # s.head /\ ~Used(i, k[n])
      BY <1>3, <1>4, <3>1
    <3> QED BY <2>1, <3>2
  <2>10. ~MayCrash => \A b \in 0 .. N - 1 : Used(i, b)' \/ \E n \in DOMAIN k : k[n] = b
    <3> SUFFICES ASSUME ~MayCrash, NEW b \in 0 .. N - 1, NEW n \in 1 .. d, l[n] = b,
                        b # s.head
                 PROVE  \E m \in DOMAIN k : k[m] = b
      BY <1>3, <2>1
    <3>1. n # 1 /\ n - 1 \in 1 .. d - 1 /\ (n - 1) + 1 = n
      BY <1>1, <1>3, <1>4
    <3>2. k[n - 1] = b
      BY <2>3, <3>1
    <3> QED BY <2>3, <3>1, <3>2
  <2> QED BY <2>1, <2>7, <2>8, <2>9, <2>10 DEF ListOK
<1>5. CASE ~(d > 0)
  <2>1. /\ d = 0 /\ r.deleted = d /\ r.occupied = N + 1 /\ r.head = s.head
        /\ CreatedBlock(s) = N
    BY <1>1, <1>5 DEF AfterCreate, CreatedBlock, SegmentType
  <2>2. 1 .. d = {} /\ 1 .. d - 1 = {}
    BY <2>1
  <2>3. l \in [1 .. d -> 0 .. (N + 1) - 1] /\ DOMAIN l = {}
    BY <1>3, <2>2
  <2>4. l \in FreeLists(i)'
    BY <2>1, <2>2, <2>3, <1>5 DEF FreeLists
  <2>5. ~MayCrash => \A b \in 0 .. (N + 1) - 1 : Used(i, b)'
    <3> SUFFICES ASSUME ~MayCrash, NEW b \in 0 .. N, b # N PROVE Used(i, b)
      BY <1>1, <2>1
    <3>1. b \in 0 .. N - 1
      BY <1>1
    <3> QED BY <1>3, <2>2, <3>1
  <2>6. ListOK(i, l)'
    BY <2>1, <2>3, <2>4, <2>5 DEF ListOK, NoRepetition
  <2> QED BY <2>4, <2>6
<1> QED BY <1>4, <1>5

LEMMA CreateBlockSeen ==
  ASSUME BlocksInv, SegmentsInv', NEW t \in Threads, CreateBlock(t)
  PROVE  ListsOK' /\ UsersOK' /\ StoreMove
<1> DEFINE i == index[t]
           r == AfterCreate(segment[i], file)
           b == CreatedBlock(segment[i])
           id == <<i, b>>
<1>1. /\ SegmentsInv /\ pc[t] = "create" /\ i \in Indices /\ segment[i].ready /\ ~clean
      /\ FreeBlocks(segment[i]) >= 1 /\ CanCreate(segment[i])
  <2>1. SegmentsInv /\ pc[t] = "create"
    BY DEF BlocksInv, CreateBlock, At
  <2> QED BY <2>1, Working, WorksOnReady, CreateBlockInv DEF SegmentsInv, ChoicesOK
<1>2. /\ segment' = [segment EXCEPT ![i] = r]
      /\ live' = live \cup {id}
      /\ pc' = [pc EXCEPT ![t] = "client"]
      /\ index' = [index EXCEPT ![t] = None]
      /\ block' = [block EXCEPT ![t] = None]
      /\ UNCHANGED <<file, durable, clean>>
  BY <1>1 DEF CreateBlock, Leave, Enter
<1>3. /\ b \in Nat /\ ~Used(i, b) /\ b < r.occupied /\ r.occupied \in Nat
      /\ segment[i].occupied <= r.occupied
      /\ r.offset = segment[i].offset /\ r.ready
  BY <1>1, CreatedBlockOK
<1>4. id[1] = i /\ id[2] = b /\ id \notin live
  BY <1>3 DEF Used
<1>5. segment'[i] = r /\ Indices' = Indices /\ \A j \in Indices : j # i => segment'[j] = segment[j]
  BY <1>1, <1>2 DEF Indices
<1> PICK j0 : j0 = i
  OBVIOUS
<1> HIDE DEF i, r, b, id
<1>6. \A u \in Threads : /\ Deletes(u)' <=> Deletes(u)
                         /\ Deletes(u) => u # t /\ index'[u] = index[u] /\ block'[u] = block[u]
  BY <1>1, <1>2 DEF SegmentsInv, TypeOK, Deletes
<1>7. \A j, c : Used(j, c)' <=> Used(j, c) \/ (j = i /\ c = b)
  <2>1. \A j, c : <<j, c>> \in live' <=> <<j, c>> \in live \/ (j = i /\ c = b)
    BY <1>2 DEF id
  <2> QED BY <1>6, <2>1 DEF Used
<1>8. ListsOK'
  <2>1. \E l \in FreeLists(j0)' : ListOK(j0, l)'
    <3>1. segment'[j0] = AfterCreate(segment[j0], file) /\ FreeBlocks(segment[j0]) >= 1
          /\ j0 \in Indices /\ segment[j0].ready
      BY <1>1, <1>5 DEF r, i
    <3>2. \A c : Used(j0, c)' <=> Used(j0, c) \/ c = CreatedBlock(segment[j0])
      BY <1>7 DEF b, i
    <3> QED BY <1>2, <3>1, <3>2, CreatedList
  <2>2. ASSUME NEW j \in Indices, j # i PROVE \E l \in FreeLists(j)' : ListOK(j, l)'
    BY <1>2, <1>5, <1>7, <2>2, SameList
  <2> QED BY <1>5, <2>1, <2>2 DEF ListsOK
<1>9. UsersOK'
  <2>1. \A x \in live : x[1] \in Indices /\ x[1] \in Nat /\ x[2] \in Nat /\ x = <<x[1], x[2]>>
    <3> TAKE x \in live
    <3>1. x \in Indices \X Nat
      BY <1>1 DEF SegmentsInv, TypeOK
    <3>2. x[1] \in Indices /\ x[2] \in Nat /\ x = <<x[1], x[2]>>
      BY <3>1
    <3> QED BY <1>1, <3>2, Places
  <2>2. \A j \in Indices : segment[j].occupied \in Nat
    BY Places, <1>1 DEF SegmentType
  <2>3. ASSUME NEW x \in live' PROVE x[2] < segment'[x[1]].occupied
    <3>1. CASE x \in live
      <4>1. x[2] < segment[x[1]].occupied
        BY <3>1 DEF BlocksInv, UsersOK
      <4>2. CASE x[1] = i
        <5>1. x[2] < segment[i].occupied /\ segment[i].occupied \in Nat /\ x[2] \in Nat
          BY <2>1, <2>2, <3>1, <4>1, <4>2, <1>1
        <5>2. x[2] < r.occupied
          BY <5>1, <1>3
        <5> QED BY <5>2, <4>2, <1>5
      <4>3. CASE x[1] # i
        BY <1>5, <2>1, <3>1, <4>1, <4>3
      <4> QED BY <4>2, <4>3
    <3>2. CASE x = id
      BY <1>3, <1>4, <1>5, <3>2
    <3> QED BY <1>2, <2>3, <3>1, <3>2
  <2>4. ASSUME NEW u \in Threads, Deletes(u)'
        PROVE  /\ block'[u] < segment'[index'[u]].occupied
               /\ <<index'[u], block'[u]>> \notin live'
               /\ \A v \in Threads : Deletes(v)' /\ index'[v] = index'[u] /\ block'[v] = block'[u]
                                       => v = u
    <3>1. Deletes(u) /\ index'[u] = index[u] /\ block'[u] = block[u]
      BY <1>6, <2>4
    <3>2. /\ block[u] < segment[index[u]].occupied /\ <<index[u], block[u]>> \notin live
          /\ index[u] \in Indices /\ block[u] \in Nat
      BY <1>1, <3>1, Working DEF BlocksInv, UsersOK, SegmentsInv, ChoicesOK, Deletes
    <3>3. <<index[u], block[u]>> # id
      <4>1. Used(index[u], block[u])
        BY <3>1 DEF Used
      <4> QED BY <1>3, <4>1 DEF id
    <3>4. block[u] < segment'[index[u]].occupied
      <4>1. CASE index[u] = i
        <5>1. block[u] < segment[i].occupied /\ segment[i].occupied \in Nat
          BY <2>2, <3>2, <4>1
        <5>2. block[u] < r.occupied
          BY <5>1, <1>3, <3>2
        <5> QED BY <5>2, <4>1, <1>5
      <4>2. CASE index[u] # i
        BY <1>5, <3>2, <4>2
      <4> QED BY <4>1, <4>2
    <3>5. \A v \in Threads : Deletes(v)' /\ index'[v] = index'[u] /\ block'[v] = block'[u] => v = u
      BY <1>6, <3>1 DEF BlocksInv, UsersOK
    <3> QED BY <1>2, <3>1, <3>2, <3>3, <3>4, <3>5
  <2>5. \A x \in durable' : x[2] < file'[segment'[x[1]].offset].occupied
    <3>1. \A x \in durable : x[1] \in Indices
      BY <1>1, SMTT(30) DEF SegmentsInv, TypeOK
    <3>2. \A j \in Indices : segment'[j].offset = segment[j].offset
      BY <1>3, <1>5
    <3> QED BY <1>2, <3>1, <3>2 DEF BlocksInv, UsersOK
  <2>6. \A j \in Indices' : ~segment'[j].ready => segment'[j] = Uninitialized
    BY <1>3, <1>5 DEF BlocksInv, UsersOK
  <2> QED BY <1>1, <1>2, <2>3, <2>4, <2>5, <2>6 DEF UsersOK
<1>10. StoreMove
  <2>1. \A x \in live : x[1] \in Indices
    BY <1>1 DEF SegmentsInv, TypeOK
  <2>2. \A j \in Indices : segment'[j].offset = segment[j].offset
    BY <1>3, <1>5
  <2>3. {x \in live : ReadBlock(x)' = Data(x)} = Intact
    <3>1. \A x \in live : /\ Position(segment'[x[1]], x[2]) = PositionOf(x)
                          /\ file'[PositionOf(x)] = file[PositionOf(x)]
      BY <1>2, <2>1, <2>2 DEF Position, PositionOf
    <3>2. {x \in live : ReadBlock(x)' = Data(x)} = Intact \cap live
      BY <1>1, <3>1, IntactSame
    <3> QED BY <3>2 DEF Intact
  <2>4. Intact' \in {Intact, Intact \cup {id}}
    BY <1>2, <2>3 DEF Intact
  <2>5. Store!Create(id)
    BY <1>2, <1>4, <2>4 DEF Store!Create, Intact
  <2> QED BY <1>2, <2>5 DEF StoreMove, Store!StoreNext
<1> QED BY <1>8, <1>9, <1>10

LEMMA StartDeleteSeen ==
  ASSUME BlocksInv, SegmentsInv', NEW t \in Threads, NEW id \in live, StartDelete(t, id)
  PROVE  ListsOK' /\ UsersOK' /\ StoreMove
<1>0. SegmentsInv
  BY DEF BlocksInv
<1>1. /\ pc[t] = "client" /\ pc' = [pc EXCEPT ![t] = "lockToDelete"]
      /\ index' = [index EXCEPT ![t] = id[1]]
      /\ block' = [block EXCEPT ![t] = id[2]]
      /\ live' = live \ {id} /\ durable' = durable \ {id} /\ clean' = FALSE
      /\ UNCHANGED <<segment, file>>
  BY DEF StartDelete, Enter, At, manager
<1>2. id = <<id[1], id[2]>> /\ id[1] \in Indices /\ id[2] \in Nat
  BY <1>0, SMTT(30) DEF SegmentsInv, TypeOK
<1>3. /\ Deletes(t)' /\ ~Deletes(t) /\ index'[t] = id[1] /\ block'[t] = id[2]
      /\ \A u \in Threads : u # t => /\ Deletes(u)' <=> Deletes(u)
                                     /\ index'[u] = index[u] /\ block'[u] = block[u]
  BY <1>0, <1>1 DEF SegmentsInv, TypeOK, Deletes
<1>4. ASSUME NEW i, NEW b PROVE Used(i, b)' <=> Used(i, b)
  <2>1. CASE <<i, b>> = id
    BY <1>2, <1>3, <2>1 DEF Used
  <2>2. CASE <<i, b>> # id
    <3>1. <<i, b>> \in live' <=> <<i, b>> \in live
      BY <1>1, <2>2
    <3>2. ~(id[1] = i /\ id[2] = b)
      BY <1>2, <2>2
    <3> QED BY <1>3, <3>1, <3>2 DEF Used
  <2> QED BY <2>1, <2>2
<1>5. ListsOK'
  BY <1>1, <1>4, SameLists
<1>6. UsersOK'
  <2>1. Indices' = Indices
    BY <1>1 DEF Indices
  <2>2. id[2] < segment[id[1]].occupied
    BY DEF BlocksInv, UsersOK
  <2>3. \A u \in Threads : Deletes(u) => <<index[u], block[u]>> # id
    BY DEF BlocksInv, UsersOK
  <2>4. \A u \in Threads : Deletes(u)' =>
          /\ block'[u] < segment'[index'[u]].occupied
          /\ <<index'[u], block'[u]>> \notin live'
          /\ \A v \in Threads : Deletes(v)' /\ index'[v] = index'[u] /\ block'[v] = block'[u]
                                  => v = u
    BY <1>1, <1>2, <1>3, <2>2, <2>3 DEF BlocksInv, UsersOK
  <2> QED BY <1>1, <2>1, <2>4 DEF BlocksInv, UsersOK
<1>7. Store!Delete(id)
  <2>1. Intact' = Intact \ {id}
    BY <1>1 DEF Intact, ReadBlock, PositionOf
  <2> QED BY <1>1, <2>1 DEF Store!Delete, Intact
<1>8. StoreMove
  BY <1>7 DEF StoreMove, Store!StoreNext
<1> QED BY <1>5, <1>6, <1>8

(* The free list after a block was put in front of it. *)
LEMMA DeletedList ==
  ASSUME BlocksInv, NEW i \in Indices, segment[i].ready,
         NEW b \in Nat, b < segment[i].occupied, Used(i, b),
         file' = FileAfterDelete(segment[i], b, file),
         segment'[i] = AfterDelete(segment[i], b),
         \A c : Used(i, c)' <=> Used(i, c) /\ c # b
  PROVE  \E l \in FreeLists(i)' : ListOK(i, l)'
<1> DEFINE s == segment[i]
           r == segment'[i]
<1>1. s \in SegmentType /\ s.deleted \in Nat /\ s.occupied \in Nat /\ s.offset \in Nat
      /\ s.allocated \in Nat /\ s.occupied <= s.allocated
  BY Places DEF BlocksInv, SegmentsInv, SegmentsOK, CountsOK, SegmentType
<1> PICK d \in Nat, N \in Nat : d = s.deleted /\ N = s.occupied
  BY <1>1
<1>2. PICK l \in FreeLists(i) : ListOK(i, l)
  BY DEF BlocksInv, ListsOK
<1>3. /\ l \in [1 .. d -> 0 .. N - 1]
      /\ d > 0 => l[1] = s.head
      /\ \A n \in 1 .. d - 1 : l[n + 1] = NextFree(i, l[n])
      /\ \A m, n \in 1 .. d : l[m] = l[n] => m = n
      /\ \A n \in 1 .. d : ~Used(i, l[n])
      /\ ~MayCrash => \A c \in 0 .. N - 1 : Used(i, c) \/ \E n \in 1 .. d : l[n] = c
  BY <1>2 DEF FreeLists, ListOK, NoRepetition
<1>4. r.deleted = d + 1 /\ r.head = b /\ r.occupied = N /\ r.offset = s.offset
  BY <1>1 DEF AfterDelete, SegmentType
<1> PICK k : k = [n \in 1 .. d + 1 |-> IF n = 1 THEN b ELSE l[n - 1]]
  OBVIOUS
<1>5. \A n \in 1 .. d + 1 : n # 1 => n - 1 \in 1 .. d
  OBVIOUS
<1>6. /\ DOMAIN k = 1 .. d + 1 /\ 1 \in 1 .. d + 1 /\ k[1] = b
      /\ \A n \in 1 .. d + 1 : n # 1 => k[n] = l[n - 1] /\ k[n] # b /\ ~Used(i, k[n])
  BY <1>3, <1>5
<1>7. k \in [1 .. d + 1 -> 0 .. N - 1]
  BY <1>3, <1>5
<1>8. \A c \in Nat : c # b => NextFree(i, c)' = NextFree(i, c)
  <2> TAKE c \in Nat
  <2>1. c # b => Position(s, c) # Position(s, b)
    BY <1>1 DEF Position
  <2>2. c # b => file'[Position(s, c)] = file[Position(s, c)]
    BY <2>1 DEF FileAfterDelete
  <2> QED BY <1>4, <2>2 DEF NextFree, Position
<1>9. d > 0 => NextFree(i, b)' = l[1]
  <2>1. ASSUME d > 0 PROVE file'[Position(s, b)] = Link(s.head)
    <3>1. Position(s, b) \in DOMAIN file
      BY <1>1, Places, SMTT(30) DEF BlocksInv
    <3> QED BY <2>1, <3>1 DEF FileAfterDelete
  <2>2. StoredID(Link(s.head)) = s.head
    BY DEF StoredID, Link
  <2> QED BY <1>3, <1>4, <2>1, <2>2 DEF NextFree, Position
<1>10. \A n \in 1 .. (d + 1) - 1 : k[n + 1] = NextFree(i, k[n])'
  <2> TAKE n \in 1 .. (d + 1) - 1
  <2>1. n + 1 \in 1 .. d + 1 /\ n + 1 # 1 /\ (n + 1) - 1 = n /\ n \in 1 .. d + 1 /\ d > 0
    OBVIOUS
  <2>2. k[n + 1] = l[n]
    BY <1>6, <2>1
  <2>3. CASE n = 1
    BY <1>6, <1>9, <2>1, <2>2, <2>3
  <2>4. CASE n # 1
    <3>1. k[n] = l[n - 1] /\ k[n] # b /\ k[n] \in Nat
      <4>1. k[n] \in 0 .. N - 1
        BY <1>7, <2>1
      <4>2. k[n] \in Nat
        BY <4>1
      <4>3. k[n] = l[n - 1] /\ k[n] # b
        BY <1>6, <2>1, <2>4
      <4> QED BY <4>2, <4>3
    <3>2. n - 1 \in 1 .. d - 1 /\ (n - 1) + 1 = n
      BY <2>4
    <3>3. l[n] = NextFree(i, l[n - 1])
      BY <1>3, <3>2
    <3> QED BY <1>8, <2>2, <3>1, <3>3
  <2> QED BY <2>3, <2>4
<1>11. k \in FreeLists(i)'
  BY <1>4, <1>6, <1>7, <1>10 DEF FreeLists
<1>12. NoRepetition(k)
  <2> SUFFICES ASSUME NEW m \in 1 .. d + 1, NEW n \in 1 .. d + 1, k[m] = k[n]
               PROVE  m = n
    BY <1>6, ZenonT(30) DEF NoRepetition
  <2>1. CASE m = 1 \/ n = 1
    BY <1>6, <2>1
  <2>2. CASE m # 1 /\ n # 1
    <3>1. m - 1 = n - 1
      BY <1>3, <1>5, <1>6, <2>2
    <3> QED BY <3>1
  <2> QED BY <2>1, <2>2
<1>13. \A n \in DOMAIN k : ~Used(i, k[n])'
  BY <1>6
<1>14. ~MayCrash => \A c \in 0 .. N - 1 : Used(i, c)' \/ \E n \in DOMAIN k : k[n] = c
  <2> SUFFICES ASSUME ~MayCrash, NEW c \in 0 .. N - 1
               PROVE  Used(i, c)' \/ \E m \in DOMAIN k : k[m] = c
    OBVIOUS
  <2>1. CASE c = b
    BY <1>6, <2>1
  <2>2. CASE Used(i, c) /\ c # b
    BY <2>2
  <2>3. ASSUME NEW n \in 1 .. d, l[n] = c PROVE \E m \in DOMAIN k : k[m] = c
    <3>1. n + 1 \in 1 .. d + 1 /\ n + 1 # 1 /\ (n + 1) - 1 = n
      OBVIOUS
    <3>2. k[n + 1] = c
      BY <1>6, <2>3, <3>1
    <3> QED BY <1>6, <3>1, <3>2
  <2> QED BY <1>3, <2>1, <2>2, <2>3
<1>15. ListOK(i, k)'
  BY <1>4, <1>11, <1>12, <1>13, <1>14 DEF ListOK
<1> QED BY <1>11, <1>15

LEMMA DeleteBlockQuiet ==
  ASSUME BlocksInv, SegmentsInv', NEW t \in Threads, DeleteBlock(t)
  PROVE  ListsOK' /\ UsersOK' /\ StoreMove
<1> PICK i, b : i = index[t] /\ b = block[t]
  OBVIOUS
<1>0. /\ pc[t] = "delete" /\ file' = FileAfterDelete(segment[i], b, file)
      /\ segment' = [segment EXCEPT ![i] = AfterDelete(segment[i], b)]
      /\ pc' = [pc EXCEPT ![t] = "client"]
      /\ UNCHANGED <<live, durable, clean>>
      /\ \A u \in Threads : u # t => index'[u] = index[u] /\ block'[u] = block[u]
  BY DEF DeleteBlock, Leave, Enter, At, callers, BlocksInv, SegmentsInv, TypeOK
<1>1. /\ SegmentsInv /\ i \in Indices /\ ~clean /\ segment[i].ready /\ MayDelete
      /\ b \in Nat /\ b < segment[i].occupied /\ b < segment[i].allocated
      /\ <<i, b>> \notin live /\ Deletes(t)
  BY <1>0, Working DEF BlocksInv, SegmentsInv, ChoicesOK, UsersOK, Deletes
<1>2. /\ Indices' = Indices /\ segment'[i] = AfterDelete(segment[i], b)
      /\ \A j \in Indices : j # i => segment'[j] = segment[j]
  BY <1>0, <1>1 DEF Indices
<1>3. \A j \in Indices : /\ segment'[j].ready = segment[j].ready
                         /\ segment'[j].offset = segment[j].offset
                         /\ segment'[j].allocated = segment[j].allocated
                         /\ segment'[j].occupied = segment[j].occupied
  <2>1. segment[i] \in SegmentType
    BY <1>1, Places
  <2>2. /\ segment'[i].ready = segment[i].ready /\ segment'[i].offset = segment[i].offset
        /\ segment'[i].allocated = segment[i].allocated
        /\ segment'[i].occupied = segment[i].occupied
    BY <1>2, <2>1 DEF AfterDelete, SegmentType
  <2> QED BY <1>2, <2>2
<1>4. /\ ~Deletes(t)'
      /\ \A u \in Threads : u # t => (Deletes(u)' <=> Deletes(u))
  BY <1>0, <1>1 DEF SegmentsInv, TypeOK, Deletes
<1>5. \A u \in Threads : Deletes(u) /\ index[u] = i /\ block[u] = b => u = t
  BY <1>1 DEF BlocksInv, UsersOK
<1>6. \A j, c : Used(j, c)' <=> Used(j, c) /\ ~(j = i /\ c = b)
  BY <1>0, <1>1, <1>4, <1>5 DEF Used
<1>7. Used(i, b)
  BY <1>1 DEF Used
<1>8. ASSUME NEW j \in Indices, segment[j].ready
      PROVE  /\ file'[segment[j].offset] = file[segment[j].offset]
             /\ \A c \in Nat : c < segment[j].allocated /\ ~(j = i /\ c = b) =>
                  file'[Position(segment[j], c)] = file[Position(segment[j], c)]
  <2>1. segment[i].offset \in Nat
    BY <1>1, Places DEF SegmentType
  <2>2. ASSUME NEW c \in Nat, c < segment[j].allocated, ~(j = i /\ c = b)
        PROVE  Position(segment[j], c) # Position(segment[i], b)
    <3>1. CASE j # i
      BY <1>1, <1>8, <2>2, <3>1, Disjoint
    <3>2. CASE j = i
      BY <1>1, <2>1, <2>2, <3>2 DEF Position
    <3> QED BY <3>1, <3>2
  <2>3. segment[j].offset # Position(segment[i], b)
    BY <1>1, <1>8, Disjoint
  <2> QED BY <1>0, <2>2, <2>3 DEF FileAfterDelete
<1>9. ListsOK'
  <2>1. \E l \in FreeLists(i)' : ListOK(i, l)'
    BY <1>0, <1>1, <1>2, <1>6, <1>7, DeletedList
  <2>2. ASSUME NEW j \in Indices, j # i PROVE \E l \in FreeLists(j)' : ListOK(j, l)'
    <3>1. CASE segment[j].ready
      <4>1. segment[j].occupied <= segment[j].allocated /\ segment[j].occupied \in Nat
            /\ segment[j].allocated \in Nat
        BY <1>1, Places DEF SegmentsInv, SegmentsOK, CountsOK, SegmentType
      <4>2. \A c \in Nat : c < segment[j].occupied => c < segment[j].allocated
        BY <4>1
      <4> QED BY <1>2, <1>6, <1>8, <2>2, <3>1, <4>2, SameList
    <3>2. CASE ~segment[j].ready
      <4>1. segment'[j].occupied = 0 /\ segment'[j].deleted = 0
        BY <1>2, <2>2, <3>2, UninitializedIsEmpty DEF BlocksInv, UsersOK
      <4> QED BY <4>1, EmptyList
    <3> QED BY <3>1, <3>2
  <2> QED BY <1>2, <2>1, <2>2 DEF ListsOK
<1>10. UsersOK'
  <2>1. \A x \in live : x[1] \in Indices /\ segment[x[1]].ready
    BY <1>1 DEF SegmentsInv, TypeOK, BlocksOK
  <2>2. \A x \in durable : x \in live
    BY <1>1 DEF SegmentsInv, TypeOK
  <2>3. \A x \in live' : x[2] < segment'[x[1]].occupied
    BY <1>0, <1>3, <2>1 DEF BlocksInv, UsersOK
  <2>4. \A u \in Threads : Deletes(u) => index[u] \in Indices
    BY <1>1, Working DEF Deletes
  <2>5. \A u \in Threads : Deletes(u)' =>
          /\ block'[u] < segment'[index'[u]].occupied
          /\ <<index'[u], block'[u]>> \notin live'
          /\ \A v \in Threads : Deletes(v)' /\ index'[v] = index'[u] /\ block'[v] = block'[u]
                                  => v = u
    BY <1>0, <1>3, <1>4, <2>4 DEF BlocksInv, UsersOK
  <2>6. \A x \in durable' : x[2] < file'[segment'[x[1]].offset].occupied
    BY <1>0, <1>3, <1>8, <2>1, <2>2 DEF BlocksInv, UsersOK
  <2>7. \A j \in Indices' : ~segment'[j].ready => segment'[j] = Uninitialized
    BY <1>1, <1>2, <1>3 DEF BlocksInv, UsersOK
  <2> QED BY <1>0, <1>1, <2>3, <2>5, <2>6, <2>7 DEF UsersOK
<1>11. StoreMove
  <2>1. ASSUME NEW x \in live
        PROVE  /\ Position(segment'[x[1]], x[2]) = PositionOf(x)
               /\ file'[PositionOf(x)] = file[PositionOf(x)]
    <3>1. /\ x \in Indices \X Nat /\ segment[x[1]].ready /\ x[2] < segment[x[1]].allocated
      BY <1>1 DEF SegmentsInv, TypeOK, BlocksOK
    <3>2. ~(x[1] = i /\ x[2] = b)
      BY <1>1, <3>1
    <3>3. x[1] \in Indices /\ x[2] \in Nat
      BY <3>1
    <3> QED BY <1>3, <1>8, <3>1, <3>2, <3>3 DEF Position, PositionOf
  <2>2. {x \in live : ReadBlock(x)' = Data(x)} = Intact
    BY <1>1, <2>1, IntactSame DEF Intact
  <2> QED BY <1>0, <2>2 DEF StoreMove, Store!storeVars, Intact
<1> QED BY <1>9, <1>10, <1>11

LEMMA WriteBlockSeen ==
  ASSUME BlocksInv, SegmentsInv', NEW id \in live, WriteBlock(id)
  PROVE  ListsOK' /\ UsersOK' /\ StoreMove
<1>0. /\ file' = [file EXCEPT ![PositionOf(id)] = Data(id)]
      /\ UNCHANGED <<segment, live, durable, clean, pc, index, block>>
  BY DEF WriteBlock, manager, locals
<1>1. SegmentsInv
  BY DEF BlocksInv
<1>2. /\ id[1] \in Indices /\ id[2] \in Nat /\ segment[id[1]].ready
      /\ id[2] < segment[id[1]].allocated /\ id = <<id[1], id[2]>> /\ Used(id[1], id[2])
  <2>1. id \in Indices \X Nat
    BY <1>1 DEF SegmentsInv, TypeOK
  <2> QED BY <1>1, <2>1 DEF SegmentsInv, BlocksOK, Used
<1>3. PositionOf(id) \in DOMAIN file
  BY <1>1, <1>2, Places DEF PositionOf
<1>4. ASSUME NEW j \in Indices, segment[j].ready
      PROVE  /\ file'[segment[j].offset] = file[segment[j].offset]
             /\ \A c \in Nat : c < segment[j].allocated /\ ~(j = id[1] /\ c = id[2]) =>
                  file'[Position(segment[j], c)] = file[Position(segment[j], c)]
  <2>1. segment[j].offset \in Nat
    BY <1>1, Places DEF SegmentType
  <2>2. ASSUME NEW c \in Nat, c < segment[j].allocated, ~(j = id[1] /\ c = id[2])
        PROVE  Position(segment[j], c) # PositionOf(id)
    <3>1. CASE j # id[1]
      BY <1>1, <1>2, <1>4, <2>2, <3>1, Disjoint DEF PositionOf
    <3>2. CASE j = id[1]
      BY <1>2, <2>1, <2>2, <3>2 DEF Position, PositionOf
    <3> QED BY <3>1, <3>2
  <2>3. segment[j].offset # PositionOf(id)
    BY <1>1, <1>2, <1>4, Disjoint DEF PositionOf
  <2> QED BY <1>0, <2>2, <2>3
<1>5. \A i, b : Used(i, b)' <=> Used(i, b)
  BY <1>0 DEF Used, Deletes
<1>6. ListsOK'
  <2>1. \A i \in Indices : segment[i].ready => \A b \in Nat :
          b < segment[i].allocated /\ ~Used(i, b) =>
            file'[Position(segment[i], b)] = file[Position(segment[i], b)]
    BY <1>2, <1>4
  <2> QED BY <1>0, <1>5, <2>1, SameLists
<1>7. UsersOK'
  <2>1. Indices' = Indices
    BY <1>0 DEF Indices
  <2>2. \A x \in durable : x[1] \in Indices /\ segment[x[1]].ready
    BY <1>1 DEF SegmentsInv, TypeOK, BlocksOK
  <2>3. \A x \in durable : file'[segment[x[1]].offset] = file[segment[x[1]].offset]
    BY <1>4, <2>2
  <2> QED BY <1>0, <2>1, <2>3 DEF BlocksInv, UsersOK, Deletes
<1>8. Store!Put(id)
  <2>1. ASSUME NEW x \in live PROVE ReadBlock(x)' = IF x = id THEN Data(id) ELSE ReadBlock(x)
    <3>1. CASE x = id
      BY <1>0, <1>3, <3>1 DEF ReadBlock, PositionOf
    <3>2. CASE x # id
      <4>1. /\ x \in Indices \X Nat /\ segment[x[1]].ready /\ x[2] < segment[x[1]].allocated
        BY <1>1 DEF SegmentsInv, TypeOK, BlocksOK
      <4>2. ~(x[1] = id[1] /\ x[2] = id[2]) /\ x[1] \in Indices /\ x[2] \in Nat
        BY <1>2, <3>2, <4>1
      <4> QED BY <1>0, <1>4, <3>2, <4>1, <4>2 DEF ReadBlock, PositionOf
    <3> QED BY <3>1, <3>2
  <2>2. Intact' = Intact \cup {id}
    BY <1>0, <2>1 DEF Intact
  <2> QED BY <1>0, <2>2 DEF Store!Put, Intact
<1>9. StoreMove
  BY <1>8 DEF StoreMove, Store!StoreNext
<1> QED BY <1>6, <1>7, <1>9

LEMMA FlushSegmentQuiet ==
  ASSUME BlocksInv, SegmentsInv', FlushSegment
  PROVE  ListsOK' /\ UsersOK' /\ StoreMove
<1> PICK k : k = flushing
  OBVIOUS
<1>0. /\ k \in Indices /\ k # None
      /\ file' = [file EXCEPT ![segment[k].offset] = SegmentHeader(segment[k])]
      /\ UNCHANGED <<segment, pc, index, block, live, durable, clean>>
  BY DEF FlushSegment, manager, locals, callers
<1>1. SegmentsInv /\ \A j \in Indices : segment[j].ready
  BY <1>0 DEF BlocksInv, SegmentsInv, FlushOK, ReadyOK, Idle
<1>2. SameUsers
  BY <1>0 DEF SameUsers, Deletes
<1>3. Indices' = Indices
  BY <1>0 DEF Indices
<1>4. ASSUME NEW j \in Indices PROVE KeepsBlocks(j)
  <2>1. \A b \in Nat : b < segment[j].allocated => Position(segment[j], b) # segment[k].offset
    BY <1>0, <1>1, Disjoint
  <2> QED BY <1>0, <2>1 DEF KeepsBlocks
<1>5. ASSUME NEW j \in Indices PROVE SegmentStays(j)
  <2>1. SegmentHeader(segment[k]).occupied = segment[k].occupied
    BY DEF SegmentHeader
  <2>2. segment[k].offset \in DOMAIN file
    BY <1>0, <1>1, Places
  <2>3. CASE segment[j].offset # segment[k].offset
    BY <1>0, <1>1, <2>3 DEF SegmentStays
  <2>4. CASE segment[j].offset = segment[k].offset
    <3>1. segment[j].allocated \in Nat /\ segment[j].allocated >= 2
      BY <1>1, Places DEF SegmentsInv, LayoutOK, SizeOf, SegmentType
    <3>2. 0 \in Nat /\ 0 < segment[j].allocated
      BY <3>1
    <3>3. j = k
      BY <1>0, <1>1, <2>4, <3>2, Disjoint
    <3>4. file'[segment[j].offset].occupied = segment[j].occupied
      BY <1>0, <2>1, <2>2, <3>3
    <3> QED BY <1>0, <1>1, <3>4 DEF SegmentStays
  <2> QED BY <2>3, <2>4
<1> QED BY <1>0, <1>2, <1>3, <1>4, <1>5, QuietStep

LEMMA FlushManagerSeen ==
  ASSUME BlocksInv, SegmentsInv', FlushManager
  PROVE  ListsOK' /\ UsersOK' /\ StoreMove
<1> PICK n, m : n = numberOfSegments /\ m = ManagerHeader(n, lastAllocatedBlocks)
  OBVIOUS
<1>0. /\ flushing = n /\ file' = [file EXCEPT ![0] = m]
      /\ durable' = live /\ clean' = TRUE
      /\ UNCHANGED <<segment, pc, index, block, live>>
  BY DEF FlushManager, AllFlushed, manager, locals
<1>1. /\ SegmentsInv /\ n \in Nat /\ Idle
      /\ \A j \in Indices : /\ segment[j].ready /\ j < n
                            /\ file[segment[j].offset] = SegmentHeader(segment[j])
  <2>1. SegmentsInv /\ n \in Nat /\ \A j \in Indices : j \in Nat /\ j < n
    BY Places DEF BlocksInv
  <2>2. Idle /\ Flushed(n)
    BY <1>0, <2>1, NoneAssumption DEF SegmentsInv, FlushOK
  <2> QED BY <2>1, <2>2 DEF SegmentsInv, ReadyOK, Idle, Flushed
<1>2. \A j \in Indices :
        /\ file'[segment[j].offset] = file[segment[j].offset]
        /\ \A b \in Nat : b < segment[j].allocated =>
             file'[Position(segment[j], b)] = file[Position(segment[j], b)]
  BY <1>0, <1>1, Places
<1>3. Indices' = Indices
  BY <1>0 DEF Indices
<1>4. \A i, b : Used(i, b)' <=> Used(i, b)
  BY <1>0 DEF Used, Deletes
<1>5. ListsOK'
  BY <1>0, <1>2, <1>4, SameLists
<1>6. \A x \in live : x[1] \in Indices
  BY <1>1 DEF SegmentsInv, TypeOK
<1>7. UsersOK'
  <2>1. \A j \in Indices : file'[segment[j].offset].occupied = segment[j].occupied
    <3>1. \A s : SegmentHeader(s).occupied = s.occupied
      BY DEF SegmentHeader
    <3> QED BY <1>1, <1>2, <3>1
  <2>2. \A x \in durable' : x[2] < file'[segment'[x[1]].offset].occupied
    BY <1>0, <1>6, <2>1 DEF BlocksInv, UsersOK
  <2> QED BY <1>0, <1>3, <2>2 DEF BlocksInv, UsersOK, Deletes
<1>8. Store!Sync
  <2>1. \A x \in live : /\ Position(segment'[x[1]], x[2]) = PositionOf(x)
                        /\ file'[PositionOf(x)] = file[PositionOf(x)]
    <3> TAKE x \in live
    <3>1. x \in Indices \X Nat /\ x[2] < segment[x[1]].allocated
      BY <1>1 DEF SegmentsInv, TypeOK, BlocksOK
    <3> QED BY <1>0, <1>2, <3>1 DEF PositionOf
  <2>2. {x \in live : ReadBlock(x)' = Data(x)} = Intact
    BY <1>1, <2>1, IntactSame DEF Intact
  <2> QED BY <1>0, <2>2 DEF Store!Sync, Intact
<1>9. StoreMove
  BY <1>8 DEF StoreMove, Store!StoreNext
<1> QED BY <1>5, <1>7, <1>9

(* After a crash the callers have the blocks of the last flush, and all of   *)
(* them are below what the headers say.  When nothing was created or deleted *)
(* since the last flush, nothing changes at all.                             *)
LEMMA RestartSeen ==
  ASSUME BlocksInv, SegmentsInv', Restart
  PROVE  ListsOK' /\ UsersOK' /\ StoreMove
<1>0. /\ MayCrash \/ clean
      /\ pc' = [t \in Threads |-> "client"]
      /\ live' = durable /\ clean' = TRUE /\ UNCHANGED <<file, durable>>
  BY DEF Restart
<1>1. SegmentsInv /\ durable \subseteq live
  BY DEF BlocksInv, SegmentsInv, TypeOK
<1>2. Indices' = 0 .. file[0].number - 1
  BY <1>1, LoadedSegments
<1>3. ASSUME NEW i \in Indices'
      PROVE  /\ i \in Indices /\ segment[i].ready /\ segment'[i].ready
             /\ segment'[i].offset = segment[i].offset
             /\ file[segment[i].offset] = SegmentHeader(segment'[i])
             /\ file[segment[i].offset].occupied = segment'[i].occupied
             /\ segment'[i] \in SegmentType /\ CountsOK(segment'[i])
             /\ segment'[i].allocated = segment[i].allocated
  BY <1>1, LoadedSegments DEF SegmentHeader
<1>4. \A t \in Threads : ~Deletes(t)'
  BY <1>0 DEF Deletes
<1>5. \A x \in durable : x \in Indices' \X Nat
  BY <1>0 DEF SegmentsInv, TypeOK
<1>6. ListsOK'
  <2>1. CASE clean
    <3>1. Idle /\ durable = live /\ Flushed(numberOfSegments)
          /\ file[0].number = numberOfSegments
      BY <1>1, <2>1 DEF SegmentsInv, FlushOK, BlocksInv, UsersOK
    <3>2. Indices' = Indices /\ \A i \in Indices : i < numberOfSegments
      BY <1>1, <1>2, <3>1, Places
    <3>3. ASSUME NEW i \in Indices PROVE segment'[i] = segment[i]
      <4>1. SegmentHeader(segment[i]) = SegmentHeader(segment'[i])
        BY <1>3, <3>1, <3>2 DEF Flushed
      <4>2. segment[i] \in SegmentType /\ segment'[i] \in SegmentType
        BY <1>1, <1>3, <3>2, Places
      <4>3. /\ segment[i].allocated = segment'[i].allocated
            /\ segment[i].occupied = segment'[i].occupied
            /\ segment[i].deleted = segment'[i].deleted /\ segment[i].head = segment'[i].head
        BY <4>1 DEF SegmentHeader
      <4>4. segment[i].ready = segment'[i].ready /\ segment[i].offset = segment'[i].offset
        BY <1>3, <3>2, <4>2 DEF SegmentType
      <4> QED BY <4>2, <4>3, <4>4 DEF SegmentType
    <3>4. \A i, b : Used(i, b)' <=> Used(i, b)
      BY <1>0, <1>4, <3>1 DEF Used, Idle, Deletes
    <3>5. \A i \in Indices : \E l \in FreeLists(i)' : ListOK(i, l)'
      BY <1>0, <3>3, <3>4, SameList
    <3> QED BY <3>2, <3>5 DEF ListsOK
  <2>2. CASE MayCrash
    <3>1. ASSUME NEW i \in Indices' PROVE \E l \in FreeLists(i)' : ListOK(i, l)'
      <4>1. segment'[i].deleted = 0
        BY <1>3, <2>2, ModesAssumption DEF CountsOK, SegmentType
      <4> DEFINE l == [n \in 1 .. 0 |-> 0]
      <4>2. 1 .. 0 = {} /\ 1 .. 0 - 1 = {} /\ ~(0 > 0)
        OBVIOUS
      <4>3. \A S : l \in [1 .. 0 -> S] /\ DOMAIN l = {}
        BY <4>2
      <4> HIDE DEF l
      <4>4. l \in FreeLists(i)'
        BY <4>1, <4>2, <4>3 DEF FreeLists
      <4>5. ListOK(i, l)'
        BY <2>2, <4>3, <4>4 DEF ListOK, NoRepetition
      <4> QED BY <4>4, <4>5
    <3> QED BY <3>1 DEF ListsOK
  <2> QED BY <1>0, <2>1, <2>2
<1>7. UsersOK'
  <2>1. ASSUME NEW x \in durable
        PROVE  /\ x[2] < segment'[x[1]].occupied
               /\ x[2] < file'[segment'[x[1]].offset].occupied
    <3>1. x[1] \in Indices' /\ x[2] < file[segment[x[1]].offset].occupied
      BY <1>5 DEF BlocksInv, UsersOK
    <3> QED BY <1>0, <1>3, <3>1
  <2> QED BY <1>0, <1>3, <1>4, <2>1 DEF UsersOK
<1>8. Store!Reopen
  <2>1. ASSUME NEW x \in durable
        PROVE  /\ Position(segment'[x[1]], x[2]) = PositionOf(x)
               /\ file'[PositionOf(x)] = file[PositionOf(x)]
    <3>1. x[1] \in Indices'
      BY <1>5
    <3> QED BY <1>0, <1>3, <3>1 DEF Position, PositionOf
  <2>2. {x \in durable : ReadBlock(x)' = Data(x)} = Intact \cap durable
    BY <1>1, <2>1, IntactSame
  <2> QED BY <1>0, <2>2 DEF Store!Reopen, Intact
<1>9. StoreMove
  BY <1>8 DEF StoreMove, Store!StoreNext
<1> QED BY <1>6, <1>7, <1>9

(***************************************************************************)
(* The invariant, the free lists, and the refinement.                      *)
(***************************************************************************)
LEMMA BlocksInit == ASSUME Init PROVE BlocksInv /\ Store!StoreInit
<1>1. Indices = {}
  BY DEF Init, Indices
<1>2. ListsOK /\ UsersOK
  BY <1>1 DEF Init, ListsOK, UsersOK, Deletes
<1>3. Store!StoreInit
  BY DEF Init, Store!StoreInit
<1> QED BY <1>2, <1>3, SegmentsInit DEF BlocksInv

LEMMA BlocksNext == ASSUME BlocksInv, SegmentsInv', [Next]_vars PROVE BlocksInv' /\ StoreMove
<1>1. ASSUME NEW t \in Threads, Calls(t) PROVE ListsOK' /\ UsersOK' /\ StoreMove
  BY <1>1, AppendSegmentQuiet, LocksQuiet, StartDeleteSeen DEF Calls
<1>2. ASSUME NEW t \in Threads, Steps(t) PROVE ListsOK' /\ UsersOK' /\ StoreMove
  BY <1>2, InitializeQuiet, LocksQuiet, CreateBlockSeen, DeleteBlockQuiet DEF Steps
<1>3. ASSUME NEW id \in live, WriteBlock(id) PROVE ListsOK' /\ UsersOK' /\ StoreMove
  BY <1>3, WriteBlockSeen
<1>4. CASE StartFlush \/ UNCHANGED vars
  <2>1. SameUsers /\ (clean' => clean) /\ UNCHANGED <<segment, file>>
    BY <1>4 DEF StartFlush, vars, manager, locals, callers, SameUsers, Deletes
  <2> QED BY <2>1, QuietUnchanged DEF BlocksInv
<1>5. CASE FlushSegment \/ FlushManager \/ Restart
  BY <1>5, FlushSegmentQuiet, FlushManagerSeen, RestartSeen DEF BlocksInv
<1> QED BY <1>1, <1>2, <1>3, <1>4, <1>5 DEF Next, BlocksInv

THEOREM BlocksInvariant == Spec => []BlocksInv
<1>1. Init => BlocksInv
  BY BlocksInit
<1>2. BlocksInv /\ SegmentsInv' /\ [Next]_vars => BlocksInv'
  BY BlocksNext
<1> QED BY <1>1, <1>2, SegmentsInvariant, PTL DEF Spec

(* As long as the process does not crash, every block below occupied is      *)
(* owned, being deleted, or in the free list of its segment, and the list    *)
(* has no block twice (Segment.h:101-161).                                   *)
THEOREM NoBlockLost == ASSUME ~MayCrash PROVE Spec => []BlocksAccounted
<1>1. BlocksInv => BlocksAccounted
  <2> SUFFICES ASSUME BlocksInv, NEW i \in Indices
               PROVE  \E l \in FreeLists(i) :
                        LET free == {l[n] : n \in DOMAIN l} IN
                        /\ NoRepetition(l)
                        /\ free \cap (LiveIn(i) \cup BeingDeleted(i)) = {}
                        /\ LiveIn(i) \cap BeingDeleted(i) = {}
                        /\ free \cup LiveIn(i) \cup BeingDeleted(i) = 0 .. segment[i].occupied - 1
    BY DEF BlocksAccounted
  <2>1. PICK l \in FreeLists(i) : ListOK(i, l)
    BY DEF BlocksInv, ListsOK
  <2>2. /\ \A b : b \in LiveIn(i) <=> <<i, b>> \in live
        /\ \A b : b \in BeingDeleted(i) <=>
                    \E t \in Threads : Deletes(t) /\ index[t] = i /\ block[t] = b
    <3>1. \A x \in live : x = <<x[1], x[2]>>
      BY DEF BlocksInv, SegmentsInv, TypeOK
    <3>2. \A b : b \in LiveIn(i) <=> <<i, b>> \in live
      BY <3>1 DEF LiveIn
    <3> QED BY <3>2 DEF BeingDeleted, Deletes
  <2>3. \A b : Used(i, b) <=> b \in LiveIn(i) \cup BeingDeleted(i)
    BY <2>2 DEF Used
  <2>4. LiveIn(i) \cap BeingDeleted(i) = {}
    BY <2>2 DEF BlocksInv, UsersOK
  <2>5. \A b : Used(i, b) => b \in 0 .. segment[i].occupied - 1
    <3>1. segment[i].occupied \in Nat
      BY Places DEF BlocksInv, SegmentType
    <3>2. \A b : Used(i, b) => b \in Nat /\ b < segment[i].occupied
      BY UsedBlock DEF BlocksInv
    <3> QED BY <3>1, <3>2
  <2>6. \A n \in DOMAIN l : l[n] \in 0 .. segment[i].occupied - 1
    BY DEF FreeLists
  <2> QED BY <2>1, <2>3, <2>4, <2>5, <2>6 DEF ListOK
<1> QED BY <1>1, BlocksInvariant, PTL

(* The manager implements BlockStore: a block that is created belongs to     *)
(* nobody, and it keeps what was written to it until it is deleted, also     *)
(* when the process ends and the file is opened again.                       *)
THEOREM ManagerImplementsStore == Spec => ImplementsBlockStore
<1>1. Init => Store!StoreInit
  BY BlocksInit
<1>2. BlocksInv /\ SegmentsInv' /\ [Next]_vars => StoreMove
  BY BlocksNext
<1> QED BY <1>1, <1>2, SegmentsInvariant, BlocksInvariant, PTL
        DEF Spec, ImplementsBlockStore, Store!StoreSpec, StoreMove
=============================================================================
