--------------------------- MODULE SegmentManager ---------------------------
(***************************************************************************)
(* The allocator of blocks of src/src/file/SegmentManager.h, used by       *)
(* several threads at once.  Threads lock the manager, choose a segment,   *)
(* lock it before they leave the manager and work on the segment alone.  A *)
(* block id, which the code packs into 16 + 48 bits, is the pair of the    *)
(* index of its segment and of the block in it.                            *)
(*                                                                         *)
(* The callers are those of the page buffer and of the tests: they write   *)
(* and delete only blocks they were given.  The file and its headers       *)
(* outlive the process.                                                    *)
(***************************************************************************)
EXTENDS Segment, FiniteSets

CONSTANTS
  Threads,      \* the threads that share the manager
  MinBlocks,    \* blocks of the smallest segment, 10 in the code
  GrowthNum, GrowthDen,   \* growthFactor, a fraction
  MaxSegments,  \* bound: segments in the file
  MayDelete,    \* whether the callers delete blocks
  MayCrash      \* whether the process may end between two flushes

ASSUME ThreadsAssumption == None \notin Threads /\ IsFiniteSet(Threads)
ASSUME SizesAssumption ==
  /\ {GrowthNum, GrowthDen} \subseteq Nat \ {0} /\ MaxSegments \in Nat
  /\ MinBlocks \in Nat \ {0, 1}
ASSUME NoneAssumption == None \notin Nat

(* After a crash a header may name as first deleted block one that was given *)
(* out since the last flush; nobody who deletes blocks relies on a crash.    *)
ASSUME ModesAssumption ==
  MayDelete \in BOOLEAN /\ MayCrash \in BOOLEAN /\ ~(MayDelete /\ MayCrash)

VARIABLES
  \* the members of SegmentManager; segment[i] stands for *segments[i]
  segment, lastAllocatedBlocks, freeSegments, mutex, segmentMutex,
  \* the locals of createBlock and deleteBlock; extent is the offset and the
  \* size of the segment to initialise
  pc, index, block, extent,
  \* the segment that flush writes next, or None
  flushing,
  \* the file
  file,
  \* history: the blocks the callers own, those
  \* that were owned at the last flush and ever since, and whether
  \* nothing was created or deleted since then
  live, durable, clean

manager  == <<segment, lastAllocatedBlocks, freeSegments>>
locks    == <<mutex, segmentMutex>>
locals   == <<pc, index, block, extent>>
callers  == <<live, durable, clean>>
vars     == <<manager, locks, locals, flushing, file, callers>>

(* header.numberOfSegments is segments.size() all the time. *)
Indices == DOMAIN segment
numberOfSegments == Cardinality(Indices)

ManagerHeader(n, last) == [kind |-> "manager", number |-> n, last |-> last]

PositionOf(id) == Position(segment[id[1]], id[2])

(* The state in which the constructor returns that found no file.  Before,   *)
(* it creates an empty file and then extends it: a process that ends between *)
(* the two, which is not modelled, leaves a file that no constructor accepts *)
(* ("Invalid segment file!").                                                *)
Init ==
  /\ segment = [i \in {} |-> Uninitialized]
  /\ lastAllocatedBlocks = 0
  /\ freeSegments = {}
  /\ mutex = None
  /\ segmentMutex = [i \in {} |-> None]
  /\ pc = [t \in Threads |-> "client"]
  /\ index = [t \in Threads |-> None]
  /\ block = [t \in Threads |-> None]
  /\ extent = [t \in Threads |-> <<0, 0>>]
  /\ flushing = None
  /\ file = [p \in {0} |-> ManagerHeader(0, 0)]
  /\ live = {} /\ durable = {} /\ clean = TRUE

At(t, label) == pc[t] = label
Enter(t, label, i, b) ==
  /\ pc' = [pc EXCEPT ![t] = label]
  /\ index' = [index EXCEPT ![t] = i]
  /\ block' = [block EXCEPT ![t] = b]
Appended(t, e) == extent' = [extent EXCEPT ![t] = e]
Go(t, label) == Enter(t, label, index[t], block[t])
Leave(t) == Enter(t, "client", None, None)

(***************************************************************************)
(* createBlock.  No segment has a free block: append one.  Its mutex is    *)
(* taken before the manager is released.                                   *)
(***************************************************************************)
MaxOf(a, b) == IF a > b THEN a ELSE b
NextSize == MaxOf(MinBlocks, (lastAllocatedBlocks * GrowthNum) \div GrowthDen)

LastSegment == segment[numberOfSegments - 1]
NextOffset == IF numberOfSegments = 0 THEN 1
              ELSE LastSegment.offset + TotalSize(LastSegment)

(* ftruncate: bytes beyond the old end of the file are zeros. *)
Truncated(size) ==
  [p \in 0 .. size - 1 |-> IF p \in DOMAIN file THEN file[p] ELSE Zeros]

(* Mutant: the segment does not enter the set. *)
NotMarkedFree(i) == freeSegments

MarkedFree(i) == freeSegments \cup {i}

AppendSegment(t) ==
  /\ At(t, "client") /\ flushing = None
  /\ mutex = None
  /\ freeSegments = {}
  /\ numberOfSegments < MaxSegments
  /\ lastAllocatedBlocks' = NextSize
  /\ segment' = [i \in Indices \cup {numberOfSegments} |->
                   IF i \in Indices THEN segment[i] ELSE Uninitialized]
  /\ segmentMutex' = [i \in Indices \cup {numberOfSegments} |->
                        IF i \in Indices THEN segmentMutex[i] ELSE t]
  /\ freeSegments' = MarkedFree(numberOfSegments)
  /\ file' = Truncated(NextOffset + 1 + NextSize)
  /\ Enter(t, "initialize", numberOfSegments, None)
  /\ Appended(t, <<NextOffset, NextSize>>)
  /\ clean' = FALSE
  /\ UNCHANGED <<mutex, flushing, live, durable>>

(* The segment is initialised under its own mutex. *)
Initialize(t) ==
  /\ At(t, "initialize")
  /\ segment' = [segment EXCEPT ![index[t]] =
                   NewSegmentAt(extent[t][1], extent[t][2])]
  /\ Go(t, "create")
  /\ Appended(t, <<0, 0>>)
  /\ UNCHANGED <<lastAllocatedBlocks, freeSegments, locks, flushing, file, callers>>

(* Some segment has a free block. *)
ChooseSegment(t) ==
  /\ At(t, "client") /\ flushing = None
  /\ mutex = None
  /\ mutex' = t
  /\ \E i \in freeSegments : Enter(t, "lockToCreate", i, None)
  /\ clean' = FALSE
  /\ UNCHANGED <<extent, manager, segmentMutex, flushing, file, live, durable>>

(* Mutant: the segment is taken out of the set one block late. *)
NoneLeft(s) == FreeBlocks(s) = 0

LastFree(s) == FreeBlocks(s) = 1

LockToCreate(t) ==
  /\ At(t, "lockToCreate")
  /\ segmentMutex[index[t]] = None
  /\ segmentMutex' = [segmentMutex EXCEPT ![index[t]] = t]
  /\ freeSegments' = IF LastFree(segment[index[t]])
                     THEN freeSegments \ {index[t]} ELSE freeSegments
  /\ mutex' = None
  /\ Go(t, "create")
  /\ UNCHANGED <<extent, segment, lastAllocatedBlocks, flushing, file, callers>>

(* Segment::createBlock, then the segment is unlocked, also by the          *)
(* exception "All blocks were occupied!".                                   *)
CreateBlock(t) ==
  LET i == index[t]
      id == <<i, CreatedBlock(segment[i])>>
  IN
  /\ At(t, "create")
  /\ segmentMutex' = [segmentMutex EXCEPT ![i] = None]
  /\ IF CanCreate(segment[i])
     THEN /\ segment' = [segment EXCEPT ![i] = AfterCreate(@, file)]
          /\ live' = live \cup {id}
          /\ Leave(t)
     ELSE /\ Go(t, "raised")
          /\ UNCHANGED <<segment, live>>
  /\ UNCHANGED <<extent, lastAllocatedBlocks, freeSegments, mutex, flushing, file,
                 durable, clean>>

(***************************************************************************)
(* deleteBlock.                                                            *)
(***************************************************************************)
StartDelete(t, id) ==
  /\ MayDelete
  /\ At(t, "client") /\ flushing = None
  /\ id \in live
  /\ mutex = None
  /\ mutex' = t
  /\ Enter(t, "lockToDelete", id[1], id[2])
  /\ live' = live \ {id}
  /\ durable' = durable \ {id}
  /\ clean' = FALSE
  /\ UNCHANGED <<extent, manager, segmentMutex, flushing, file>>

LockToDelete(t) ==
  /\ At(t, "lockToDelete")
  /\ segmentMutex[index[t]] = None
  /\ segmentMutex' = [segmentMutex EXCEPT ![index[t]] = t]
  /\ freeSegments' = MarkedFree(index[t])
  /\ mutex' = None
  /\ Go(t, "delete")
  /\ UNCHANGED <<extent, segment, lastAllocatedBlocks, flushing, file, callers>>

DeleteBlock(t) ==
  LET i == index[t] IN
  /\ At(t, "delete")
  /\ file' = FileAfterDelete(segment[i], block[t], file)
  /\ segment' = [segment EXCEPT ![i] = AfterDelete(@, block[t])]
  /\ segmentMutex' = [segmentMutex EXCEPT ![i] = None]
  /\ Leave(t)
  /\ UNCHANGED <<extent, lastAllocatedBlocks, freeSegments, mutex, flushing, callers>>

(***************************************************************************)
(* readBlock and writeBlock lock the manager only to find the segment, and *)
(* wait for its mutex when it is not initialised.                          *)
(***************************************************************************)
CanAccess(i) == mutex = None /\ (segment[i].ready \/ segmentMutex[i] = None)

ReadBlock(id) == file[PositionOf(id)]

WriteBlock(id) ==
  /\ flushing = None
  /\ CanAccess(id[1])
  /\ file' = [file EXCEPT ![PositionOf(id)] = Data(id)]
  /\ UNCHANGED <<manager, locks, locals, flushing, live, durable, clean>>

(***************************************************************************)
(* flush, which the callers call when nothing else runs: the headers of    *)
(* the segments in order, then the header of the file.                     *)
(***************************************************************************)
StartFlush ==
  /\ flushing = None
  /\ \A t \in Threads : pc[t] = "client"
  /\ flushing' = 0
  /\ UNCHANGED <<manager, locks, locals, file, callers>>

FlushSegment ==
  /\ flushing # None /\ flushing \in Indices
  /\ file' = [file EXCEPT ![segment[flushing].offset] =
                SegmentHeader(segment[flushing])]
  /\ flushing' = flushing + 1
  /\ UNCHANGED <<manager, locks, locals, callers>>

(* Mutant: the header of the file is written too early. *)
SomeFlushed == flushing # None

AllFlushed == flushing = numberOfSegments

FlushManager ==
  /\ AllFlushed
  /\ file' = [file EXCEPT ![0] = ManagerHeader(numberOfSegments, lastAllocatedBlocks)]
  /\ flushing' = None
  /\ durable' = live
  /\ clean' = TRUE
  /\ UNCHANGED <<manager, locks, locals, live>>

(***************************************************************************)
(* The process ends and starts again: the constructor walks the segments   *)
(* of the file, the offset of each following from the one before it.  The  *)
(* callers come back with the blocks they owned at the last flush.         *)
(***************************************************************************)
SegmentsInFile == 0 .. file[0].number - 1
HeadersInFile == {p \in DOMAIN file : file[p].kind = "segment"}
Walks ==
  {o \in [SegmentsInFile -> HeadersInFile] : \A i \in SegmentsInFile :
     o[i] = IF i = 0 THEN 1 ELSE o[i - 1] + TotalSize(file[o[i - 1]])}

(* Otherwise the constructor raises "Invalid segment!". *)
HeadersFound == Walks # {}

Restart ==
  /\ MayCrash \/ clean
  /\ \E o \in Walks :
       LET loaded(i) == LoadSegment(o[i], file[o[i]]) IN
       /\ segment' = [i \in SegmentsInFile |-> loaded(i)]
       /\ freeSegments' = {i \in SegmentsInFile : FreeBlocks(loaded(i)) > 0}
  /\ lastAllocatedBlocks' = file[0].last
  /\ mutex' = None
  /\ segmentMutex' = [i \in SegmentsInFile |-> None]
  /\ pc' = [t \in Threads |-> "client"]
  /\ index' = [t \in Threads |-> None]
  /\ block' = [t \in Threads |-> None]
  /\ extent' = [t \in Threads |-> <<0, 0>>]
  /\ flushing' = None
  /\ live' = durable
  /\ clean' = TRUE
  /\ UNCHANGED <<file, durable>>

(***************************************************************************)
(* The next-state relation.                                                *)
(***************************************************************************)
Calls(t) == AppendSegment(t) \/ ChooseSegment(t) \/ \E id \in live : StartDelete(t, id)

Steps(t) ==
  \/ Initialize(t) \/ LockToCreate(t) \/ CreateBlock(t)
  \/ LockToDelete(t) \/ DeleteBlock(t)

Next ==
  \/ \E t \in Threads : Calls(t) \/ Steps(t)
  \/ \E id \in live : WriteBlock(id)
  \/ StartFlush \/ FlushSegment \/ FlushManager
  \/ Restart

Spec == Init /\ [][Next]_vars

(* Scheduling: a thread inside a call is not delayed for ever. *)
FairSpec == Spec /\ \A t \in Threads : WF_vars(Steps(t))

(***************************************************************************)
(* Properties.                                                             *)
(***************************************************************************)
SegmentType ==
  [ready : BOOLEAN, offset : Nat, allocated : Nat, occupied : Nat, deleted : Nat,
   head : Nat \cup {None}]

(* Types of the variables. *)
TypeOK ==
  /\ Indices = 0 .. numberOfSegments - 1
  /\ segment \in [Indices -> SegmentType]
  /\ lastAllocatedBlocks \in Nat
  /\ freeSegments \subseteq Indices
  /\ mutex \in Threads \cup {None}
  /\ segmentMutex \in [Indices -> Threads \cup {None}]
  /\ pc \in [Threads -> {"client", "initialize", "lockToCreate", "create",
                         "lockToDelete", "delete", "raised"}]
  /\ index \in [Threads -> Indices \cup {None}]
  /\ block \in [Threads -> Nat \cup {None}]
  /\ extent \in [Threads -> Nat \X Nat]
  /\ flushing \in Nat \cup {None}
  /\ DOMAIN file = 0 .. Cardinality(DOMAIN file) - 1
  /\ durable \subseteq live
  /\ live \subseteq Indices \X Nat
  /\ clean \in BOOLEAN

(* The set of free segments is exact, up to what the owner of a segment's   *)
(* mutex is about to do: a thread that locks a segment it chose always      *)
(* finds a block in it (the assertion of SegmentManager.h:162), and no      *)
(* segment is appended while a block is free.                               *)
Creating(i) == \E t \in Threads : At(t, "create") /\ index[t] = i
Deleting(i) == \E t \in Threads : At(t, "delete") /\ index[t] = i
FreeSegmentsExact ==
  \A i \in Indices :
    i \in freeSegments <=>
      \/ ~segment[i].ready
      \/ Deleting(i)
      \/ FreeBlocks(segment[i]) > (IF Creating(i) THEN 1 ELSE 0)

(* createBlock reads the extent of the last segment under the mutex of the  *)
(* manager only (SegmentManager.h:128), readBlock and writeBlock read the   *)
(* optional of a segment without any mutex (209, 232): in both cases the    *)
(* segment is initialised.                                                  *)
ReadsInitialized ==
  /\ freeSegments = {} => \A i \in Indices : segment[i].ready
  /\ \A id \in live : segment[id[1]].ready

(* The free list of a segment, from its head. *)
NextFree(i, b) == StoredID(file[Position(segment[i], b)])
FreeLists(i) ==
  {l \in [1 .. segment[i].deleted -> 0 .. segment[i].occupied - 1] :
     /\ segment[i].deleted > 0 => l[1] = segment[i].head
     /\ \A n \in 1 .. segment[i].deleted - 1 : l[n + 1] = NextFree(i, l[n])}
NoRepetition(l) == \A m, n \in DOMAIN l : l[m] = l[n] => m = n

(* Every block below occupied is owned, or in the free list of its segment, *)
(* or about to enter it, and in one of these places only; the list has as   *)
(* many members as the header says.  (With crashes, blocks may get lost.)   *)
LiveIn(i) == {id[2] : id \in {x \in live : x[1] = i}}
BeingDeleted(i) ==
  {block[t] : t \in {u \in Threads : pc[u] \in {"lockToDelete", "delete"}
                                       /\ index[u] = i}}
BlocksAccounted ==
  \A i \in Indices : \E l \in FreeLists(i) :
    LET free == {l[n] : n \in DOMAIN l} IN
    /\ NoRepetition(l)
    /\ free \cap (LiveIn(i) \cup BeingDeleted(i)) = {}
    /\ LiveIn(i) \cap BeingDeleted(i) = {}
    /\ free \cup LiveIn(i) \cup BeingDeleted(i) = 0 .. segment[i].occupied - 1

(* From the first constructor on, at every moment at which the process may  *)
(* end, the file can be opened again: the walk of the constructor finds a   *)
(* header for every segment.                                                *)
Reopens == MayCrash \/ clean => HeadersFound

(* "All blocks were occupied!" is never raised, and whoever asks for a      *)
(* block gets one, or a segment for it: no two threads wait for each other. *)
EveryCallReturns == \A t \in Threads : pc[t] # "client" ~> pc[t] = "client"

(* The manager implements BlockStore. *)
Store == INSTANCE BlockStore WITH
  owned <- live,
  intact <- {id \in live : ReadBlock(id) = Data(id)},
  kept <- durable

ImplementsBlockStore == Store!StoreSpec
=============================================================================
