------------------------- MODULE SegmentManagerInv -------------------------
(***************************************************************************)
(* The inductive invariant behind the theorems of SegmentManagerProofs:    *)
(* who has which mutex, where the segments are in the file, and what the   *)
(* file has about them.                                                    *)
(***************************************************************************)
EXTENDS SegmentManager

(* The mutexes, and who has them.  Nobody finds a segment full. *)
MutexesOK ==
  /\ \A t \in Threads :
       /\ mutex = t <=> pc[t] \in {"lockToCreate", "lockToDelete"}
       /\ pc[t] # "client" => index[t] \in Indices
       /\ pc[t] # "raised"
  /\ \A t \in Threads, i \in Indices :
       segmentMutex[i] = t <=> pc[t] \in {"initialize", "create", "delete"} /\ index[t] = i

(* A segment is initialised by the thread that has its mutex since before   *)
(* anybody else could see it.                                               *)
ReadyOK ==
  /\ \A i \in Indices : ~segment[i].ready =>
       segmentMutex[i] \in Threads /\ pc[segmentMutex[i]] = "initialize"
  /\ \A t \in Threads : pc[t] = "initialize" => ~segment[index[t]].ready

(* What a thread relies on. *)
ChoicesOK ==
  \A t \in Threads :
    /\ pc[t] = "lockToCreate" => index[t] \in freeSegments
    /\ pc[t] = "create" => FreeBlocks(segment[index[t]]) >= 1
    /\ pc[t] \in {"lockToDelete", "delete"} =>
         /\ MayDelete /\ segment[index[t]].ready
         /\ block[t] \in Nat /\ block[t] < segment[index[t]].allocated

(* The set of free segments is exact, but for what the thread that has the  *)
(* mutex of a segment is about to do to it.                                 *)
OwnerAt(i, label) == segmentMutex[i] \in Threads /\ pc[segmentMutex[i]] = label
IsFree(i) ==
  \/ ~segment[i].ready
  \/ OwnerAt(i, "delete")
  \/ FreeBlocks(segment[i]) > IF OwnerAt(i, "create") THEN 1 ELSE 0
FreeOK == \A i \in Indices : i \in freeSegments <=> IsFree(i)

(* The segments lie in the file one behind the other.  While a segment is   *)
(* initialised, its creator knows where.                                    *)
OffsetOf(i) == IF segment[i].ready THEN segment[i].offset ELSE extent[segmentMutex[i]][1]
SizeOf(i) == IF segment[i].ready THEN segment[i].allocated ELSE extent[segmentMutex[i]][2]
End(i) == OffsetOf(i) + 1 + SizeOf(i)
FileSize == Cardinality(DOMAIN file)
LayoutOK ==
  /\ numberOfSegments \in Nat /\ FileSize \in Nat
  /\ \A i \in Indices :
       /\ OffsetOf(i) >= 1 /\ SizeOf(i) >= 2 /\ End(i) <= FileSize
       /\ OffsetOf(i) = IF i = 0 THEN 1 ELSE End(i - 1)
       /\ \A j \in Indices : i < j => End(i) <= OffsetOf(j)

(* What a segment says of its blocks, and what its header in the file says. *)
CountsOK(s) ==
  /\ s.occupied <= s.allocated
  /\ s.deleted > 0 => MayDelete /\ s.head \in Nat /\ s.head < s.allocated
HeaderType ==
  [kind : {"segment"}, allocated : Nat, occupied : Nat, deleted : Nat, head : Nat \cup {None}]
SegmentsOK == \A i \in Indices : CountsOK(segment[i])
FileOK ==
  /\ 0 \in DOMAIN file /\ file[0].kind = "manager" /\ file[0].last \in Nat
  /\ file[0].number \in Nat /\ file[0].number <= numberOfSegments
  /\ \A i \in Indices : i < file[0].number =>
       LET h == file[segment[i].offset] IN
       /\ segment[i].ready /\ h \in HeaderType /\ CountsOK(h)
       /\ h.allocated = segment[i].allocated
  /\ \A p \in DOMAIN file : file[p].kind = "link" =>
       MayDelete /\ \E i \in Indices : \E b \in 0 .. segment[i].allocated - 1 :
         /\ segment[i].ready /\ p = Position(segment[i], b)
         /\ file[p].next \in Nat /\ file[p].next < segment[i].allocated

(* What was flushed, all of it or the first segments. *)
Idle == \A t \in Threads : pc[t] = "client"
Flushed(n) ==
  \A i \in Indices : i < n => file[segment[i].offset] = SegmentHeader(segment[i])
FlushOK ==
  /\ clean => Idle /\ file[0].number = numberOfSegments /\ Flushed(numberOfSegments)
  /\ flushing # None => Idle /\ flushing <= numberOfSegments /\ Flushed(flushing)

(* The blocks of the callers. *)
BlocksOK ==
  /\ \A id \in live : segment[id[1]].ready /\ id[2] < segment[id[1]].allocated
  /\ \A id \in durable : id[1] < file[0].number

SegmentsInv ==
  /\ TypeOK /\ MutexesOK /\ ReadyOK /\ ChoicesOK /\ FreeOK
  /\ LayoutOK /\ SegmentsOK /\ FileOK /\ FlushOK /\ BlocksOK

(* The blocks: a block is used while somebody owns it or deletes it.  The    *)
(* free list of a segment has no used block, and without crashes all others. *)
Deletes(t) == pc[t] \in {"lockToDelete", "delete"}
Used(i, b) ==
  <<i, b>> \in live \/ \E t \in Threads : Deletes(t) /\ index[t] = i /\ block[t] = b
ListOK(i, l) ==
  /\ l \in FreeLists(i) /\ NoRepetition(l)
  /\ \A n \in DOMAIN l : ~Used(i, l[n])
  /\ ~MayCrash => \A b \in 0 .. segment[i].occupied - 1 :
                     Used(i, b) \/ \E n \in DOMAIN l : l[n] = b
ListsOK == \A i \in Indices : \E l \in FreeLists(i) : ListOK(i, l)

(* Used blocks are below occupied, also those of the last flush in what the  *)
(* file says, and have one user.                                             *)
UsersOK ==
  /\ \A id \in live : id[2] < segment[id[1]].occupied
  /\ \A t \in Threads : Deletes(t) =>
       /\ block[t] < segment[index[t]].occupied
       /\ <<index[t], block[t]>> \notin live
       /\ \A u \in Threads : Deletes(u) /\ index[u] = index[t] /\ block[u] = block[t] => u = t
  /\ \A id \in durable : id[2] < file[segment[id[1]].offset].occupied
  /\ clean => durable = live
  /\ \A i \in Indices : ~segment[i].ready => segment[i] = Uninitialized

BlocksInv == SegmentsInv /\ ListsOK /\ UsersOK
=============================================================================
