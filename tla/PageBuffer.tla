----------------------------- MODULE PageBuffer -----------------------------
(***************************************************************************)
(* The page buffer of src/src/buffer/PageBuffer.h, used by several threads *)
(* at once.  An action is one atomic step of a thread: an acquisition of a *)
(* mutex, an access to one of the atomics pins and dirty that another      *)
(* thread may interleave with, or an IO operation.  The steps of a thread  *)
(* that holds the table exclusively and touches only what that lock        *)
(* protects are one action, and a release is part of the step before it.   *)
(*                                                                         *)
(* The threads are the trees of src/src/btree and src/src/betree reduced   *)
(* to what they ask of the buffer: they pin pages from the root downwards, *)
(* may hold several at a time, write only pages they hold exclusively and  *)
(* report the pages they wrote as dirty when they unpin them.              *)
(***************************************************************************)
EXTENDS PageQueue, FiniteSets

CONSTANTS
  Threads,      \* the threads that share the buffer
  Frames,       \* the indices 0 .. N-1 of the array pages
  Pages,        \* page ids; a descent visits them in increasing order
  OnDisk,       \* the pages the files contain at the start
  LeafPages,    \* the pages whose node is a leaf, for the mode function
  Kinds,        \* the kinds of pin the threads ask for
  None,         \* no thread, frame or page
  MaxHeld,      \* pages a thread holds at a time
  MaxPins,      \* bound: calls of pinPage per thread
  MaxVersion,   \* bound: the newest version of a page's contents
  MaxRestarts   \* bound: restarts of the process

ASSUME PagesAssumption == Pages \subseteq Nat /\ OnDisk \subseteq Pages
ASSUME FramesAssumption == IsFiniteSet(Frames) /\ IsFiniteSet(Threads)
ASSUME KindsAssumption == Kinds \subseteq {"shared", "exclusive", "mode", "create"}
ASSUME NoneAssumption == None \notin Threads \cup Frames \cup Pages
ASSUME BoundsAssumption == {MaxHeld, MaxPins, MaxVersion, MaxRestarts} \subseteq Nat

VARIABLES
  \* the members of PageBuffer
  pageTable, freeSlots, fifoQueue, lruQueue, tableWriter, tableReaders,
  \* the members of Page
  id, data, pins, dirty, pageWriter, pageReaders,
  \* the locals of pinPage and unpinPage
  pc, want, kind, exclusiveTable, exclusive, frame, scan, from,
  \* the threads between calls
  held, wrote, calls,
  \* the files below SegmentManager and the pages createPage has handed out
  disk, created,
  \* history: newest version of a page, version at the last flush, pages that
  \* have contents, restarts so far
  latest, synced, known, restarts

table     == <<pageTable, freeSlots, fifoQueue, lruQueue>>
tableLock == <<tableWriter, tableReaders>>
counters  == <<pins, dirty>>
contents  == <<id, data>>
pageLock  == <<pageWriter, pageReaders>>
request   == <<want, kind>>
search    == <<frame, scan, from>>
modes     == <<exclusiveTable, exclusive>>
client    == <<held, wrote>>
files     == <<disk, created>>
history   == <<latest, synced, known, restarts>>
vars      == <<table, tableLock, counters, contents, pageLock, pc, request,
               search, modes, client, calls, files, history>>

(***************************************************************************)
(* Contents of a page: which page they were written for and the version.   *)
(***************************************************************************)
Content == [page : Pages \cup {None}, version : Nat]
Zeros   == [page |-> None, version |-> 0]

Entry == [key : Pages, value : Frames]

(* The byte that isLeaf reads is zero, false, in a page of zeros. *)
IsLeaf(content) == content.page \in LeafPages

(***************************************************************************)
(* std::shared_mutex: tableMutex and the mutex of every page.              *)
(***************************************************************************)
CanLockTable(t, mode) ==
  tableWriter = None /\ (mode => tableReaders = {})

LockTable(t, mode) ==
  /\ CanLockTable(t, mode)
  /\ tableWriter' = IF mode THEN t ELSE None
  /\ tableReaders' = IF mode THEN {} ELSE tableReaders \cup {t}

UnlockTable(t, mode) ==
  /\ tableWriter' = IF mode THEN None ELSE tableWriter
  /\ tableReaders' = IF mode THEN tableReaders ELSE tableReaders \ {t}

CanLockPage(f, mode) ==
  pageWriter[f] = None /\ (mode => pageReaders[f] = {})

LockPage(t, f, mode) ==
  /\ CanLockPage(f, mode)
  /\ pageWriter' = [pageWriter EXCEPT ![f] = IF mode THEN t ELSE None]
  /\ pageReaders' = [pageReaders EXCEPT ![f] = IF mode THEN {} ELSE @ \cup {t}]

(* unlock() releases the mutex whichever way the thread holds it. *)
UnlockPage(t, f) ==
  /\ pageWriter' = [pageWriter EXCEPT ![f] = IF @ = t THEN None ELSE @]
  /\ pageReaders' = [pageReaders EXCEPT ![f] = @ \ {t}]

(***************************************************************************)
(* The state of the process after the constructor, and Init.               *)
(***************************************************************************)
EmptyBuffer ==
  /\ pageTable = [p \in Pages |-> None]
  /\ freeSlots = Frames
  /\ fifoQueue = <<>>
  /\ lruQueue = <<>>
  /\ tableWriter = None
  /\ tableReaders = {}
  /\ id = [f \in Frames |-> None]
  /\ data = [f \in Frames |-> Zeros]
  /\ pins = [f \in Frames |-> 0]
  /\ dirty = [f \in Frames |-> FALSE]
  /\ pageWriter = [f \in Frames |-> None]
  /\ pageReaders = [f \in Frames |-> {}]

NewThreads ==
  /\ pc = [t \in Threads |-> "client"]
  /\ want = [t \in Threads |-> None]
  /\ kind = [t \in Threads |-> None]
  /\ exclusiveTable = [t \in Threads |-> FALSE]
  /\ exclusive = [t \in Threads |-> FALSE]
  /\ frame = [t \in Threads |-> None]
  /\ scan = [t \in Threads |-> <<>>]
  /\ from = [t \in Threads |-> None]
  /\ held = [t \in Threads |-> {}]
  /\ wrote = [t \in Threads |-> {}]

Init ==
  /\ EmptyBuffer
  /\ NewThreads
  /\ calls = [t \in Threads |-> 0]
  /\ disk = [p \in Pages |-> IF p \in OnDisk
                              THEN [page |-> p, version |-> 1] ELSE Zeros]
  /\ created = OnDisk
  /\ latest = [p \in Pages |-> IF p \in OnDisk THEN 1 ELSE 0]
  /\ synced = latest
  /\ known = OnDisk
  /\ restarts = 0

Go(t, label) == pc' = [pc EXCEPT ![t] = label]
At(t, label) == pc[t] = label

(* Locals go out of scope: at the end of a turn of the loop and of a call.  *)
EndTurn(t) ==
  /\ frame' = [frame EXCEPT ![t] = None]
  /\ scan' = [scan EXCEPT ![t] = <<>>]
  /\ from' = [from EXCEPT ![t] = None]

EndCall(t) ==
  /\ EndTurn(t)
  /\ want' = [want EXCEPT ![t] = None]
  /\ kind' = [kind EXCEPT ![t] = None]
  /\ exclusiveTable' = [exclusiveTable EXCEPT ![t] = FALSE]
  /\ exclusive' = [exclusive EXCEPT ![t] = FALSE]
  /\ pc' = [pc EXCEPT ![t] = "client"]

(***************************************************************************)
(* The calling thread.                                                     *)
(***************************************************************************)
Below(t, p) == \A f \in held[t] : id[f] < p

Call(t, p, k) ==
  /\ At(t, "client")
  /\ calls[t] < MaxPins /\ Cardinality(held[t]) < MaxHeld
  /\ k \in Kinds
  /\ Below(t, p)
  /\ calls' = [calls EXCEPT ![t] = @ + 1]
  /\ want' = [want EXCEPT ![t] = p]
  /\ kind' = [kind EXCEPT ![t] = k]
  /\ exclusiveTable' = [exclusiveTable EXCEPT ![t] = FALSE]
  /\ exclusive' = [exclusive EXCEPT ![t] = k \in {"exclusive", "create"}]
  /\ Go(t, "lockTable")
  /\ UNCHANGED <<table, tableLock, counters, contents, pageLock, search,
                 client, disk, history>>

(* pinPage for a page that has contents. *)
PinPage(t, p, k) ==
  /\ p \in known /\ k # "create"
  /\ Call(t, p, k)
  /\ UNCHANGED created

(* pinPage(createPage(), true, true): a fresh page, whose contents on disk  *)
(* need not be read because the thread is about to write them.              *)
CreatePage(t, p) ==
  /\ p \in Pages \ created
  /\ Call(t, p, "create")
  /\ created' = created \cup {p}

(* The thread changes a page it holds exclusively. *)
Write(t, f) ==
  /\ At(t, "client")
  /\ f \in held[t] /\ pageWriter[f] = t /\ f \notin wrote[t]
  /\ latest[id[f]] < MaxVersion
  /\ latest' = [latest EXCEPT ![id[f]] = @ + 1]
  /\ data' = [data EXCEPT ![f] = [page |-> id[f], version |-> latest'[id[f]]]]
  /\ known' = known \cup {id[f]}
  /\ wrote' = [wrote EXCEPT ![t] = @ \cup {f}]
  /\ UNCHANGED <<table, tableLock, counters, id, pageLock, pc, request, search,
                 modes, held, calls, files, synced, restarts>>

(***************************************************************************)
(* unpinPage.  A page the thread wrote is reported dirty, any other one    *)
(* may be; a created page is not given back before it was written.         *)
(***************************************************************************)
UnpinPage(t, f, isDirty) ==
  /\ At(t, "client")
  /\ f \in held[t]
  /\ id[f] \in known /\ (f \in wrote[t] => isDirty)
  /\ frame' = [frame EXCEPT ![t] = f]
  /\ dirty' = [dirty EXCEPT ![f] = @ \/ isDirty]
  /\ Go(t, "unlockPage")
  /\ UNCHANGED <<table, tableLock, pins, contents, pageLock, request, scan,
                 from, modes, client, calls, files, history>>

ReleasePage(t) ==
  /\ At(t, "unlockPage")
  /\ UnlockPage(t, frame[t])
  /\ held' = [held EXCEPT ![t] = @ \ {frame[t]}]
  /\ wrote' = [wrote EXCEPT ![t] = @ \ {frame[t]}]
  /\ Go(t, "decPins")
  /\ UNCHANGED <<table, tableLock, counters, contents, request, search, modes,
                 calls, files, history>>

DecPins(t) ==
  /\ At(t, "decPins")
  /\ pins' = [pins EXCEPT ![frame[t]] = @ - 1]
  /\ EndCall(t)
  /\ UNCHANGED <<table, tableLock, dirty, contents, pageLock, client, calls,
                 files, history>>

(***************************************************************************)
(* pinPage: one turn of its loop begins with the lock of the table.        *)
(***************************************************************************)
EnterTable(t) ==
  /\ At(t, "lockTable")
  /\ LockTable(t, exclusiveTable[t])
  /\ Go(t, "lookup")
  /\ UNCHANGED <<table, counters, contents, pageLock, request, search, modes,
                 client, calls, files, history>>

(* Where a thread goes once its page is pinned and loaded. *)
Pinned(t) == Go(t, IF kind[t] = "mode" THEN "mode" ELSE "lockPage")

(* Mutant: the retry forgets that it needs the table exclusively. *)
RetryShared(t, mode) ==
  /\ EndTurn(t)
  /\ Go(t, "lockTable")
  /\ UNCHANGED <<exclusiveTable, exclusive>>

(* continue, with the mode of the table lock for the next turn. *)
RetryWith(t, mode) ==
  /\ exclusiveTable' = [exclusiveTable EXCEPT ![t] = mode]
  /\ EndTurn(t)
  /\ Go(t, "lockTable")
  /\ UNCHANGED exclusive

(* 1) The page is in memory: ++pins. *)
Hit(t) ==
  /\ At(t, "lookup")
  /\ pageTable[want[t]] # None
  /\ frame' = [frame EXCEPT ![t] = pageTable[want[t]]]
  /\ pins' = [pins EXCEPT ![pageTable[want[t]]] = @ + 1]
  /\ UNCHANGED <<dirty, contents, pageLock, request, scan, from, modes, client,
                 calls, files, history>>

HitPinned(t) ==
  /\ Hit(t)
  /\ pins'[frame'[t]] > 1
  /\ UnlockTable(t, exclusiveTable[t])
  /\ Pinned(t)
  /\ UNCHANGED table

HitUnpinnedShared(t) ==
  /\ Hit(t)
  /\ pins'[frame'[t]] = 1 /\ ~exclusiveTable[t]
  /\ Go(t, "undoPin")
  /\ UNCHANGED <<table, tableLock>>

(* Mutant: a page enters the LRU queue and stays in the FIFO queue. *)
PromoteKeepingFIFO(p, f) ==
  IF QueueContains(lruQueue, p)
  THEN lruQueue' = QueueTouch(lruQueue, p) /\ UNCHANGED fifoQueue
  ELSE lruQueue' = QueueInsert(lruQueue, p, f) /\ UNCHANGED fifoQueue

(* The first pin of the page moves it in the 2Q. *)
Promote(p, f) ==
  IF QueueContains(fifoQueue, p)
  THEN /\ fifoQueue' = QueueRemove(fifoQueue, p)
       /\ lruQueue' = QueueInsert(lruQueue, p, f)
  ELSE IF QueueContains(lruQueue, p)
  THEN /\ lruQueue' = QueueTouch(lruQueue, p)
       /\ UNCHANGED fifoQueue
  ELSE /\ fifoQueue' = QueueInsert(fifoQueue, p, f)
       /\ UNCHANGED lruQueue

HitUnpinnedExclusive(t) ==
  /\ Hit(t)
  /\ pins'[frame'[t]] = 1 /\ exclusiveTable[t]
  /\ Promote(want[t], frame'[t])
  /\ UnlockTable(t, TRUE)
  /\ Pinned(t)
  /\ UNCHANGED <<pageTable, freeSlots>>

(* Mutant: the retry keeps the pin it took. *)
KeepPin(t) ==
  /\ At(t, "undoPin")
  /\ UnlockTable(t, FALSE)
  /\ RetryWith(t, TRUE)
  /\ UNCHANGED <<table, counters, contents, pageLock, request, client, calls,
                 files, history>>

UndoPin(t) ==
  /\ At(t, "undoPin")
  /\ pins' = [pins EXCEPT ![frame[t]] = @ - 1]
  /\ UnlockTable(t, FALSE)
  /\ RetryWith(t, TRUE)
  /\ UNCHANGED <<table, dirty, contents, pageLock, request, client, calls,
                 files, history>>

(* 2.1) The page is not in memory and there is space. *)
HasSpace ==
  Cardinality({p \in Pages : pageTable[p] # None}) < Cardinality(Frames)

Miss(t) == At(t, "lookup") /\ pageTable[want[t]] = None

MissShared(t) ==
  /\ Miss(t)
  /\ HasSpace /\ ~exclusiveTable[t]
  /\ UnlockTable(t, FALSE)
  /\ RetryWith(t, TRUE)
  /\ UNCHANGED <<table, counters, contents, pageLock, request, client, calls,
                 files, history>>

(* Mutant: every frame is taken over without a load. *)
NeverLoad(t) == TRUE

SkipLoad(t) == kind[t] = "create"

(* The frame is the page's: release the table, with skipLoad at once, else  *)
(* after the page is locked for the load.                                   *)
Claimed(t) ==
  IF SkipLoad(t)
  THEN UnlockTable(t, TRUE) /\ Pinned(t)
  ELSE Go(t, "loadLock") /\ UNCHANGED tableLock

UseFreeSlot(t, f) ==
  /\ Miss(t)
  /\ HasSpace /\ exclusiveTable[t]
  /\ f \in freeSlots
  /\ freeSlots' = freeSlots \ {f}
  /\ pageTable' = [pageTable EXCEPT ![want[t]] = f]
  /\ frame' = [frame EXCEPT ![t] = f]
  /\ pins' = [pins EXCEPT ![f] = 1]
  /\ id' = [id EXCEPT ![f] = want[t]]
  /\ dirty' = [dirty EXCEPT ![f] = FALSE]
  /\ fifoQueue' = QueueInsert(fifoQueue, want[t], f)
  /\ Claimed(t)
  /\ UNCHANGED <<lruQueue, data, pageLock, request, scan, from, modes, client,
                 calls, files, history>>

LockForLoad(t) ==
  /\ At(t, "loadLock")
  /\ LockPage(t, frame[t], TRUE)
  /\ UnlockTable(t, TRUE)
  /\ Go(t, "load")
  /\ UNCHANGED <<table, counters, contents, request, search, modes, client,
                 calls, files, history>>

(* loadPage, then the page is unlocked. *)
Load(t) ==
  /\ At(t, "load")
  /\ data' = [data EXCEPT ![frame[t]] = disk[want[t]]]
  /\ UnlockPage(t, frame[t])
  /\ Pinned(t)
  /\ UNCHANGED <<table, tableLock, counters, id, request, search, modes, client,
                 calls, files, history>>

(***************************************************************************)
(* 2.2), 2.3) Eviction.  findOne reads the pins of one entry at a time,    *)
(* first in the FIFO queue and then in the LRU queue.                      *)
(***************************************************************************)
StartScan(t) ==
  /\ Miss(t)
  /\ ~HasSpace
  /\ scan' = [scan EXCEPT ![t] = ScanOrder(fifoQueue)]
  /\ from' = [from EXCEPT ![t] = "fifo"]
  /\ Go(t, "scan")
  /\ UNCHANGED <<table, tableLock, counters, contents, pageLock, request, frame,
                 modes, client, calls, files, history>>

SkipEntry(t) ==
  /\ At(t, "scan")
  /\ scan[t] # <<>> /\ pins[Head(scan[t]).value] # 0
  /\ scan' = [scan EXCEPT ![t] = Tail(@)]
  /\ UNCHANGED <<table, tableLock, counters, contents, pageLock, pc, request,
                 frame, from, modes, client, calls, files, history>>

ScanLRU(t) ==
  /\ At(t, "scan")
  /\ scan[t] = <<>> /\ from[t] = "fifo"
  /\ scan' = [scan EXCEPT ![t] = ScanOrder(lruQueue)]
  /\ from' = [from EXCEPT ![t] = "lru"]
  /\ UNCHANGED <<table, tableLock, counters, contents, pageLock, pc, request,
                 frame, modes, client, calls, files, history>>

(* util::raise("Buffer is full!") leaves pinPage with the table locked. *)
Raise(t) ==
  /\ At(t, "scan")
  /\ scan[t] = <<>> /\ from[t] = "lru"
  /\ Go(t, "raised")
  /\ UNCHANGED <<table, tableLock, counters, contents, pageLock, request, search,
                 modes, client, calls, files, history>>

FindVictim(t) ==
  /\ At(t, "scan")
  /\ scan[t] # <<>> /\ pins[Head(scan[t]).value] = 0
  /\ frame' = [frame EXCEPT ![t] = Head(scan[t]).value]
  /\ Go(t, "pinVictim")
  /\ UNCHANGED <<table, tableLock, counters, contents, pageLock, request, scan,
                 from, modes, client, calls, files, history>>

(* Mutant: the evictor does not pin its victim. *)
LeaveVictimUnpinned(t) ==
  /\ At(t, "pinVictim")
  /\ Go(t, "testDirty")
  /\ UNCHANGED <<table, tableLock, counters, contents, pageLock, request, search,
                 modes, client, calls, files, history>>

PinVictim(t) ==
  /\ At(t, "pinVictim")
  /\ pins' = [pins EXCEPT ![frame[t]] = @ + 1]
  /\ Go(t, "testDirty")
  /\ UNCHANGED <<table, tableLock, dirty, contents, pageLock, request, search,
                 modes, client, calls, files, history>>

(* A clean victim needs the table exclusively, a dirty one is saved first. *)
TestDirty(t) ==
  /\ At(t, "testDirty")
  /\ \/ /\ dirty[frame[t]]
        /\ Go(t, "markClean") /\ UNCHANGED tableLock
     \/ /\ ~dirty[frame[t]] /\ exclusiveTable[t]
        /\ Go(t, "recheck") /\ UNCHANGED tableLock
     \/ /\ ~dirty[frame[t]] /\ ~exclusiveTable[t]
        /\ Go(t, "relock") /\ UnlockTable(t, FALSE)
  /\ UNCHANGED <<table, counters, contents, pageLock, request, search, modes,
                 client, calls, files, history>>

MarkClean(t) ==
  /\ At(t, "markClean")
  /\ dirty' = [dirty EXCEPT ![frame[t]] = FALSE]
  /\ Go(t, "saveLock")
  /\ UNCHANGED <<table, tableLock, pins, contents, pageLock, request, search,
                 modes, client, calls, files, history>>

(* The shared lock of the victim is taken before the table is released. *)
LockForSave(t) ==
  /\ At(t, "saveLock")
  /\ LockPage(t, frame[t], FALSE)
  /\ UnlockTable(t, exclusiveTable[t])
  /\ Go(t, "save")
  /\ UNCHANGED <<table, counters, contents, request, search, modes, client,
                 calls, files, history>>

(* savePage, then the page is unlocked. *)
Save(t) ==
  /\ At(t, "save")
  /\ disk' = [disk EXCEPT ![id[frame[t]]] = data[frame[t]]]
  /\ UnlockPage(t, frame[t])
  /\ Go(t, "relock")
  /\ UNCHANGED <<table, tableLock, counters, contents, request, search, modes,
                 client, calls, created, history>>

Relock(t) ==
  /\ At(t, "relock")
  /\ LockTable(t, TRUE)
  /\ Go(t, "recheck")
  /\ UNCHANGED <<table, counters, contents, pageLock, request, search, modes,
                 client, calls, files, history>>

Victim(t) == Head(scan[t]).key
InItsQueue(t) ==
  QueueContains(IF from[t] = "fifo" THEN fifoQueue ELSE lruQueue, Victim(t))

(* Mutant: pins are not looked at again after the save. *)
UnusedWhateverPins(t) == pageTable[want[t]] = None /\ InItsQueue(t)

(* The victim is still the thread's alone, pins being read before dirty. *)
Unused(t) ==
  /\ pageTable[want[t]] = None
  /\ InItsQueue(t)
  /\ pins[frame[t]] = 1

(* Mutant: dirty is not looked at again after the save. *)
NeverRedirtied(t) == FALSE

Redirtied(t) == dirty[frame[t]]

Recheck(t) ==
  /\ At(t, "recheck")
  /\ Unused(t)
  /\ Go(t, "recheckDirty")
  /\ UNCHANGED <<table, tableLock, counters, contents, pageLock, request, search,
                 modes, client, calls, files, history>>

GiveUp(t) ==
  /\ \/ At(t, "recheck") /\ ~Unused(t)
     \/ At(t, "recheckDirty") /\ Redirtied(t)
  /\ pins' = [pins EXCEPT ![frame[t]] = @ - 1]
  /\ UnlockTable(t, TRUE)
  /\ RetryWith(t, FALSE)
  /\ UNCHANGED <<table, dirty, contents, pageLock, request, client, calls,
                 files, history>>

Evict(t) ==
  /\ At(t, "recheckDirty")
  /\ ~Redirtied(t)
  /\ pageTable' = [pageTable EXCEPT ![Victim(t)] = None, ![want[t]] = frame[t]]
  /\ IF from[t] = "fifo"
     THEN /\ fifoQueue' =
               QueueInsert(QueueRemove(fifoQueue, Victim(t)), want[t], frame[t])
          /\ UNCHANGED lruQueue
     ELSE /\ lruQueue' = QueueRemove(lruQueue, Victim(t))
          /\ fifoQueue' = QueueInsert(fifoQueue, want[t], frame[t])
  /\ id' = [id EXCEPT ![frame[t]] = want[t]]
  /\ dirty' = [dirty EXCEPT ![frame[t]] = FALSE]
  /\ Claimed(t)
  /\ UNCHANGED <<freeSlots, pins, data, pageLock, request, search, modes, client,
                 calls, files, history>>

(***************************************************************************)
(* The page is pinned: choose the mode, without a lock, and lock it.       *)
(***************************************************************************)
ChooseMode(t) ==
  /\ At(t, "mode")
  /\ exclusive' = [exclusive EXCEPT ![t] = IsLeaf(data[frame[t]])]
  /\ Go(t, "lockPage")
  /\ UNCHANGED <<table, tableLock, counters, contents, pageLock, request, search,
                 exclusiveTable, client, calls, files, history>>

EnterPage(t) ==
  /\ At(t, "lockPage")
  /\ LockPage(t, frame[t], exclusive[t])
  /\ held' = [held EXCEPT ![t] = @ \cup {frame[t]}]
  /\ EndCall(t)
  /\ UNCHANGED <<table, tableLock, counters, contents, wrote, calls, files,
                 history>>

(***************************************************************************)
(* The whole buffer: flush, which its users call when nothing else runs,   *)
(* and the end of the process at any moment followed by a new start.       *)
(***************************************************************************)
Quiet == \A t \in Threads : pc[t] = "client" /\ held[t] = {}

(* Mutant: the test of the free slots is inverted. *)
FreeAndDirty(f) == f \in freeSlots /\ dirty[f]

ToSave(f) == f \notin freeSlots /\ dirty[f]

(* The files with the given frames written to them. *)
Saved(frames) ==
  [p \in Pages |->
     IF \E f \in frames : id[f] = p
     THEN data[CHOOSE f \in frames : id[f] = p] ELSE disk[p]]

Flush ==
  /\ Quiet
  /\ disk' = Saved({f \in Frames : ToSave(f)})
  /\ synced' = latest
  /\ UNCHANGED <<table, tableLock, counters, contents, pageLock, pc, request,
                 search, modes, client, calls, created, latest, known, restarts>>

NewBuffer ==
  /\ pageTable' = [p \in Pages |-> None]
  /\ freeSlots' = Frames
  /\ fifoQueue' = <<>>
  /\ lruQueue' = <<>>
  /\ tableWriter' = None
  /\ tableReaders' = {}
  /\ id' = [f \in Frames |-> None]
  /\ data' = [f \in Frames |-> Zeros]
  /\ pins' = [f \in Frames |-> 0]
  /\ dirty' = [f \in Frames |-> FALSE]
  /\ pageWriter' = [f \in Frames |-> None]
  /\ pageReaders' = [f \in Frames |-> {}]

ResetThreads ==
  /\ pc' = [t \in Threads |-> "client"]
  /\ want' = [t \in Threads |-> None]
  /\ kind' = [t \in Threads |-> None]
  /\ exclusiveTable' = [t \in Threads |-> FALSE]
  /\ exclusive' = [t \in Threads |-> FALSE]
  /\ frame' = [t \in Threads |-> None]
  /\ scan' = [t \in Threads |-> <<>>]
  /\ from' = [t \in Threads |-> None]
  /\ held' = [t \in Threads |-> {}]
  /\ wrote' = [t \in Threads |-> {}]

(* The process starts again with the pages that the headers of the segments *)
(* tell of.                                                                 *)
StartAgain(pages) ==
  /\ restarts < MaxRestarts
  /\ restarts' = restarts + 1
  /\ NewBuffer /\ ResetThreads
  /\ created' = pages
  /\ known' = created'
  /\ latest' = [p \in Pages |-> IF p \in created' THEN disk'[p].version ELSE 0]
  /\ synced' = latest'
  /\ UNCHANGED calls

(* The headers come back as the last flush left them, so a page created     *)
(* after it is handed out a second time.                                    *)
Synced == {p \in Pages : synced[p] > 0}
Restart == UNCHANGED disk /\ StartAgain(Synced)

(* The process ends inside flush: some of the pages are saved, or all of    *)
(* them and the headers of some of the segments.                            *)
FlushCutShort ==
  /\ Quiet
  /\ \E frames \in SUBSET {f \in Frames : ToSave(f)}, pages \in SUBSET known :
       /\ frames = {f \in Frames : ToSave(f)} \/ pages = {}
       /\ disk' = Saved(frames)
       /\ StartAgain(Synced \cup pages)

(***************************************************************************)
(* The next-state relation: steps inside the calls, and the callers.       *)
(***************************************************************************)
Lookup(t) ==
  \/ HitPinned(t) \/ HitUnpinnedShared(t) \/ HitUnpinnedExclusive(t)
  \/ MissShared(t) \/ StartScan(t)
  \/ \E f \in Frames : UseFreeSlot(t, f)

Eviction(t) ==
  \/ SkipEntry(t) \/ ScanLRU(t) \/ Raise(t) \/ FindVictim(t) \/ PinVictim(t)
  \/ TestDirty(t) \/ MarkClean(t) \/ LockForSave(t) \/ Save(t)
  \/ Relock(t) \/ Recheck(t) \/ GiveUp(t) \/ Evict(t)

Pin(t) ==
  \/ EnterTable(t) \/ Lookup(t) \/ UndoPin(t) \/ LockForLoad(t) \/ Load(t)
  \/ Eviction(t) \/ ChooseMode(t) \/ EnterPage(t)

Unpin(t) == ReleasePage(t) \/ DecPins(t)

Caller(t) ==
  \/ \E p \in Pages, k \in Kinds : PinPage(t, p, k)
  \/ \E p \in Pages : CreatePage(t, p)
  \/ \E f \in Frames : Write(t, f)
  \/ \E f \in Frames, isDirty \in BOOLEAN : UnpinPage(t, f, isDirty)

Next == (\E t \in Threads : Pin(t) \/ Unpin(t) \/ Caller(t)) \/ Flush \/ FlushCutShort \/ Restart

Spec == Init /\ [][Next]_vars

(* Scheduling: a thread inside a call is not delayed for ever, and a caller *)
(* gives every page back; calling again is up to the caller.                *)
Fairness ==
  \A t \in Threads :
    /\ WF_vars(Pin(t))
    /\ WF_vars(Unpin(t))
    /\ WF_vars(\E f \in Frames : UnpinPage(t, f, TRUE))

FairSpec == Spec /\ Fairness

(***************************************************************************)
(* Who holds what, by the step a thread is at.                             *)
(***************************************************************************)
Labels == {"client", "unlockPage", "decPins", "lockTable", "lookup", "undoPin",
           "loadLock", "load", "scan", "pinVictim", "testDirty", "markClean",
           "saveLock", "save", "relock", "recheck", "recheckDirty", "mode",
           "lockPage", "raised"}

(* The steps in which the table is held in the mode exclusiveTable tells. *)
InTable == {"lookup", "undoPin", "scan", "pinVictim", "testDirty",
            "markClean", "saveLock", "raised"}
OwnsTable(t) ==
  \/ pc[t] \in {"recheck", "recheckDirty", "loadLock"}
  \/ pc[t] \in InTable /\ exclusiveTable[t]
SharesTable(t) == pc[t] \in InTable /\ ~exclusiveTable[t]

(* The steps in which a thread has counted itself in the pins of frame[t]. *)
PinSteps == {"undoPin", "loadLock", "load", "testDirty", "markClean",
             "saveLock", "save", "relock", "recheck", "recheckDirty", "mode",
             "lockPage", "decPins"}
Uses(t, f) == f \in held[t] \/ (pc[t] \in PinSteps /\ frame[t] = f)
Users(f) == {t \in Threads : Uses(t, f)}

(***************************************************************************)
(* Properties.                                                             *)
(***************************************************************************)

(* Types of the variables. *)
TypeOK ==
  /\ pageTable \in [Pages -> Frames \cup {None}]
  /\ freeSlots \subseteq Frames
  /\ fifoQueue \in Seq(Entry) /\ lruQueue \in Seq(Entry)
  /\ tableWriter \in Threads \cup {None} /\ tableReaders \subseteq Threads
  /\ id \in [Frames -> Pages \cup {None}]
  /\ data \in [Frames -> Content]
  /\ pins \in [Frames -> Nat] /\ dirty \in [Frames -> BOOLEAN]
  /\ pageWriter \in [Frames -> Threads \cup {None}]
  /\ pageReaders \in [Frames -> SUBSET Threads]
  /\ pc \in [Threads -> Labels]
  /\ want \in [Threads -> Pages \cup {None}]
  /\ kind \in [Threads -> {"shared", "exclusive", "mode", "create", None}]
  /\ exclusiveTable \in [Threads -> BOOLEAN]
  /\ exclusive \in [Threads -> BOOLEAN]
  /\ frame \in [Threads -> Frames \cup {None}]
  /\ scan \in [Threads -> Seq(Entry)]
  /\ from \in [Threads -> {"fifo", "lru", None}]
  /\ held \in [Threads -> SUBSET Frames]
  /\ wrote \in [Threads -> SUBSET Frames]
  /\ calls \in [Threads -> Nat]
  /\ disk \in [Pages -> Content]
  /\ created \subseteq Pages /\ known \subseteq Pages
  /\ latest \in [Pages -> Nat] /\ synced \in [Pages -> Nat]
  /\ restarts \in Nat

(* The page table, the ids in the frames, the free slots and the 2Q never   *)
(* disagree: whoever locks the table finds every used frame in exactly one  *)
(* entry of exactly one queue, under the page the table has it for.  Five   *)
(* places of pinPage move entries between these structures.                 *)
TableConsistent ==
  /\ KeysDistinct(fifoQueue) /\ KeysDistinct(lruQueue)
  /\ \A p \in Pages : ~(QueueContains(fifoQueue, p) /\ QueueContains(lruQueue, p))
  /\ \A e \in Entries(fifoQueue) \cup Entries(lruQueue) : pageTable[e.key] = e.value
  /\ \A p \in Pages : pageTable[p] # None =>
       /\ id[pageTable[p]] = p /\ pageTable[p] \notin freeSlots
       /\ QueueContains(fifoQueue, p) \/ QueueContains(lruQueue, p)
  /\ \A f \in Frames \ freeSlots : id[f] # None /\ pageTable[id[f]] = f
  /\ \A f \in freeSlots : pins[f] = 0

(* No pin is lost or left behind: between any two steps the counter of a    *)
(* frame is the number of threads that pinned it and did not yet unpin it,  *)
(* evictors and retrying readers included.                                  *)
PinsCountUsers == \A f \in Frames : pins[f] = Cardinality(Users(f))

(* "lock the page (instant)", PageBuffer.h:188 and :256: the lock a thread  *)
(* takes to load a page, while it holds the whole table, is always free.    *)
InstantLoadLock ==
  \A t \in Threads : At(t, "loadLock") => CanLockPage(frame[t], TRUE)

Newest(p) == [page |-> p, version |-> latest[p]]

(* A thread that holds a page sees the page it asked for as the last writer *)
(* left it, however often the page went to disk and back in between.        *)
HoldersSeeNewest ==
  \A t \in Threads : \A f \in held[t] :
    id[f] \in known => data[f] = Newest(id[f])

(* No update is lost by eviction: a page that is not in memory, or that     *)
(* could be dropped without being saved, is on disk as last written.        *)
NoLostUpdate ==
  \A p \in known :
    LET f == pageTable[p] IN
    (f = None \/ (f # None /\ ~dirty[f] /\ Users(f) = {})) => disk[p] = Newest(p)

(* A step gives a frame to another page only when no thread but the evictor *)
(* has the frame pinned, so no reference that pinPage returned changes      *)
(* under its user.  (A restart drops all references.)                       *)
EvictsOnlyUnused ==
  [][restarts' = restarts =>
       \A f \in Frames : id'[f] # id[f] =>
         \A t \in Users(f) : At(t, "recheckDirty") /\ want[t] = id'[f]]_vars

(* What a flush wrote stays written: whatever is saved, evicted or changed  *)
(* after it, the file never holds an older version, so a restart at any     *)
(* moment finds every page at least as new as at the last flush.            *)
FlushedSurvives == \A p \in Pages : disk[p].version >= synced[p]

(* A thread that asks for a page gets it, or is told that the buffer is     *)
(* full.  A thread that was told so keeps the table locked, and then others *)
(* may wait for it.                                                         *)
SomeoneRaised == \E u \in Threads : pc[u] = "raised"
EveryPinReturns ==
  \A t \in Threads : pc[t] = "lockTable" ~> (pc[t] = "client" \/ SomeoneRaised)

(* "currentPage is now a uniquely pinned leaf node", BTree.h:507: a mode    *)
(* function that asks for leaves exclusively gets leaves exclusively.       *)
LeafPinnedUniquely ==
  \A t \in Threads :
    At(t, "lockPage") /\ kind[t] = "mode" /\ want[t] \in LeafPages => exclusive[t]

(***************************************************************************)
(* The buffer implements PageStore: a page is what its frame contains once *)
(* the frame is loaded, else what the file contains.                       *)
(***************************************************************************)
Loading(f) ==
  \E t \in Threads : pc[t] \in {"loadLock", "load"} /\ frame[t] = f

StoredVersion(p) ==
  IF p \notin known THEN 0
  ELSE IF pageTable[p] = None \/ (pageTable[p] # None /\ Loading(pageTable[p]))
  THEN disk[p].version
  ELSE data[pageTable[p]].version

StoredAccess(t, p) ==
  IF \E f \in held[t] : id[f] = p
  THEN IF \E f \in held[t] : id[f] = p /\ pageWriter[f] = t THEN "write" ELSE "read"
  ELSE "none"

Store == INSTANCE PageStore WITH
  version <- [p \in Pages |-> StoredVersion(p)],
  durable <- synced,
  access <- [t \in Threads |-> [p \in Pages |-> StoredAccess(t, p)]]

(* Every step of the buffer is a step of the store or changes nothing a     *)
(* user can see.                                                            *)
ImplementsStore == Store!StoreSpec
=============================================================================
