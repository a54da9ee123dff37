# A verification project for the Bε-tree

The repository is "Implementation of a thread-safe Bε-Tree built on top of a
custom page buffer" (`src/README.md`): header-only C++ templates under
`src/src/`, tests under `src/test/`, and a vendored benchmark harness. This
directory holds TLA+ models of it, TLC runs that check them on small instances,
and theorems that TLAPS has checked for all instances.

## The system

From the disk upwards:

| Component | Code | State | Operations |
|---|---|---|---|
| Segment | `file/Segment.h` | header (allocated, occupied, deleted blocks, head of the free list), blocks in the file | `createBlock`, `deleteBlock`, `readBlock`, `writeBlock`, `flush` |
| Segment manager | `file/SegmentManager.h` | the segments, each with a mutex; the set of segments with free blocks; a header; one mutex | the same, by 16 + 48 bit block id; a new segment when none has room |
| 2Q queues | `buffer/queue/*.h` | list of entries and a map to the position of each | `insert`, `remove`, `find`, `findOne`, `contains` |
| Page buffer | `buffer/PageBuffer.h` | `N` frames (id, pins, dirty, data, mutex), page table, free slots, FIFO and LRU queue, one table mutex | `createPage`, `pinPage`, `unpinPage`, `flush` |
| B-tree | `btree/BTree.h`, `BNode.h` | nodes in pages; header (`rootID`, `leafRoot`) | `insert`, `update`, `erase`, `find`, `flush` |
| Bε-tree | `betree/BeTree.h`, `BeNode.h` | as the B-tree, and a buffer of upserts in every inner node | the same |

The others are not part of the program: `OptimalPageBuffer.h` (included by
nobody), `ErrorHandler.h` (prints and throws), `main.cpp` (prints constants),
the tests, the UCSB adapters and the third-party code.

**How they interact.** Threads of the user call a tree. A tree pins pages, by
id and in shared or exclusive mode; when it does not know the mode before it
sees the page, it passes a callback (`modeFunction`) that `pinPage` evaluates
on the page. A pin keeps the page in its frame and holds the `shared_mutex` of
the frame until `unpinPage`. The buffer reads and writes pages through the
segment manager; a page id is a block id. Everything is shared memory and
locks; there are no messages. The file survives a restart, and what is found
then is what `flush` and evictions wrote.

**What is hard.** In the page buffer: the table mutex is released and taken
again in the middle of an eviction (to save the victim), pins are changed with
the table locked only in shared mode, frames are visible before they are
filled, and threads wait for a page with the table locked. In the segment
manager: locks are handed from the manager to a segment, free lists are stored
in the blocks themselves, and a flush writes several headers. In the trees:
lock coupling, a second descent when the first one met a full leaf, unlocked
reads of the header, and splits that change three or four pages. In the
Bε-tree also: messages that overtake each other, and arrays at their limits.

`PROJECT.json` lists every hazard at its line under `hazards`, with the
properties that would catch it.

## The modules

| Module | Models | State and actions |
|---|---|---|
| `PageQueue` | `Queue.h`, `FIFOQueue.h`, `LRUQueue.h` | operators on sequences of entries |
| `PageBuffer` | `PageBuffer.h` | one action per critical section or atomic access of `pinPage` and `unpinPage` |
| `PageStore` | what the buffer promises | contents of pages under one readers-writer lock each; flushed contents survive |
| `PageBufferInv`, `PageDataInv` | | the inductive invariants: `BufferInv` about table, pins and locals, `DataInv` about page locks and contents |
| `PageBufferProofs`, `PageDataProofs` | | lemmas and theorems; the last has the refinement of `PageStore` |
| `Segment`, `SegmentManager` | `Segment.h`, `SegmentManager.h` | one action per critical section; the file, block by block |
| `BlockStore` | what the manager promises | owned blocks and whether they hold what was written |
| `SegmentManagerInv` | | the inductive invariants `SegmentsInv` and `BlocksInv` |
| `SegmentManagerProofs` | | lemmas and theorems, with the refinement of `BlockStore` |
| `NodeArrays` | `std::lower_bound`, `std::move_backward`, ... on the arrays of nodes | operators on arrays |
| `BTree` | `BTree.h`, `BNode.h` | one action between two locks that may be waited for |
| `BTreeInv` | | the inductive invariants `TreeInv` about nodes and locks, `SearchInv` about where keys are |
| `BTreeProofs`, `BTreeSearchProofs` | | lemmas and theorems; the last about the contents of the tree, with the refinement of `KeyValueMap` |
| `Upserts` | `squashUpserts`, `mergeUpserts`, `findMedianKey`, `removeMessages` of `BeTree.h` | operators on messages and on buffers of them |
| `BeTree` | `BeTree.h`, `BeNode.h` | one action between two locks that may be waited for |
| `BeTreeInv` | | the inductive invariants `TreeInv` about shape and locks, `RoomInv` about sizes, `SearchInv` about where keys and messages are |
| `BeTreeProofs`, `BeTreeRoomProofs`, `BeTreeSearchProofs` | | lemmas and theorems about messages and about the tree; about sizes; about the order of keys |
| `KeyValueMap` | what both trees promise | a map, operations that take effect at one moment |
| `ConcurrentMap` | the same, for a `find` that looks at the map while it changes | `find` answers a value its key had during the call |
| `MCPageBuffer`, `MCSegmentManager`, `MCBTree`, `MCBeTree` | | instances for TLC |

The trees do not contain the page buffer. They use what `PageStore` promises,
contents under one readers-writer lock per page, which `PageBuffer` is proved to
implement. Where the buffer does not keep its other promises (findings 1 and 2),
the trees do not see it. What the buffer does with a page it was told is unchanged
(drop it, read the old one again) is part of `BeTree`, whose code makes that mistake.

### PageBuffer

A frame is an element of `pages`; `id[f]`, `data[f]`, `pins[f]`, `dirty[f]` are
its members, `pageTable`, `freeSlots`, `fifoQueue` and `lruQueue` the containers,
`tableWriter` and `tableReaders`, `pageWriter` and `pageReaders` the owners of the
mutexes. `pc` and the locals of a thread follow `pinPage`: every wait for a mutex is an action of its own
(`EnterTable`, `LockForSave`, `Relock`, `EnterPage`), and so is every access to
an atomic that another thread may change meanwhile: the scan of `findOne` reads
one `pins` at a time (`SkipEntry`, `ScanLRU`), a reader that took the first pin
undoes it (`UndoPin`), `dirty` is tested and cleared (`TestDirty`, `MarkClean`).
What happens with the table exclusively locked and touches nothing else is one
action. `Load` fills the data of a frame and `Save` writes it; the content of a
page is its id and a version, so that a lost update or the page of somebody
else shows. `Caller` is the user of the buffer: a thread pins at most
`MaxHeld` pages, below the ones it holds as descents do, may write what it has
exclusively, reports it dirty when it wrote it, and perhaps otherwise. `Flush` runs when nobody
holds anything, as the header demands ("not thread-safe"). The process may end
between any two steps (`Restart`) and inside a flush (`FlushCutShort`: some of the
pages are saved, or all of them and the headers of some of the segments). The file
stays, and page ids that no header in it tells of are handed out again. The write of
one page is one step.

### SegmentManager

Positions in the file count blocks. `segment[i]` holds the members of segment
`i`, `file` what is on disk: data, links of the free lists, headers or zeros.
`AppendSegment`, `Initialize`, `ChooseSegment`, `LockToCreate`, `CreateBlock`,
`StartDelete`, `LockToDelete` and `DeleteBlock` are the stretches between two
locks; `FlushSegment` writes one header at a time so that the process can end in
between. The callers write and delete only what they own. `Restart` is the
constructor: it walks the file, the offset of each segment following from the header
of the one before it (`Walks` is the set of these walks; that there is exactly one is
proved). `Init` is the state in which the first constructor returns. Deletions and crashes are not allowed together (`ModesAssumption`, see "What
is not modelled"). `MinBlocks` is 10 in the code; the model asks
for 2 or more, because a new segment enters `freeSegments` and is not removed
when its first block is taken.

### BTree

`node[p]` is the content of page `p`, as arrays of fixed length in which what is
behind `size` stays where it was. `access[t][p]` is the lock of thread `t` on
page `p`. The mode in which a child is locked follows from its type, as in the
callbacks. `exclusiveMode` is the argument of `insertTraversal`; `keyIt` is the
iterator that outlives the unpin of its page, and `KeysAtIt` what it may read
then: the array as it is now or, when the buffer is smaller than the tree
(`Evictions`), the array of any page that took the frame, or what is in the frame of a
page that is being set up. `taken` is history and remembers that a thread pinned
another page since the unpin, for which the buffer may have used the frame;
`Pinning` tells who is about to. Splits create pages nobody else can know
of and are one action with the change of the parent, which is exclusively
locked. `Load` lets one thread insert keys first, so that the others find a
tree with full nodes. `Close` is `flush`, which writes the header into a file of its
own and then the pages, followed by the end of the tree; `Reopen` is the constructor
over the same directory, which believes what that file says of the root.

### BeTree

A leaf is a function from keys to values, a buffer a function from keys to
messages (the code keeps them sorted and without duplicates, and asserts it),
pivots and children are sequences. `array` is the array of the keys of a leaf with what
is behind its size, because the assertion at `BeTree.h:775` reads one slot of it
(`ReadBehind`); a slot never written contains anything, of which `Leftovers` says which
keys. `Steps(t)` follows `upsert`: `ReadHeader`
reads `rootLeaf` without a lock, `PinRoot` locks the root in the mode that was
read, and what follows depends on the root. A root that is a leaf takes the
message at once (`RootLeafKeeps`, `RootLeafSplits`). A full root, leaf or inner
node sends the thread back for a second descent with the root exclusive
(`RetryFullRoot`, `RetryFullLeaf`, `RetryFullTarget`), which then splits it
(`SplitRoot`, `TargetLeafSplits`, `FlushSplitTarget`). A message that fits is
stored (`StoreUpsert`); otherwise `FlushTarget` takes the largest blocks of
messages out of the node and puts it into the queue of nodes to be flushed.
`PinFlushChild`, `FlushToLeaves` and `FlushToInner` are `handleTraversalNode` for
the first node of the queue: the children are locked one by one, in any order (a
hash map decides in the code), then all of them change in one step, because they
are held exclusively. In the code they change one after the other, the parent is released
before the leaves are, and unchanged nodes enter the queue in the order of the hash map;
nobody else can tell, because all of them are locked until they are done. When the
assertion at 775 fails, `FlushToLeaves` is `Fail`, as in a build with assertions. `find` couples shared locks (`FindChild`), adds up the
updates it meets, and ends in `Fail` where the code asserts that there is a value. A page
of zeros (finding 6) reads as a root without pivots; to meet one below the root is a
failed assertion, too (`BeTree.h:960`, `BeNode.h:227`).

`Removals` leaves open what `std::sort` leaves open: the order of blocks of the
same size. `FutureSize` keeps the peculiarity of line 622: the sign of the
iterator difference is the wrong way round, so only the first key of a leaf is
recognised as being there. `Created` and `Fresh` stand for `createPage`, which
counts up. `seen` is a history variable, and no action reads it: the values a key
had while a `find` looked for it. A `find` that started above a message and
reached the leaf before it may answer what the key was before; it need not be what
the key is at any single step the thread takes, which is why `ConcurrentMap` asks
for a value the key had at some moment of the call.

Every `unpinPage` of the code says whether the page was changed. `stale` has, for the
pages that were changed and yet reported as unchanged, what the file has of them. As
long as such a page is in the buffer nobody notices; `Evict` drops unlocked ones of
them (`Evictions` says whether the buffer is that small), `Close` all of them, and
what is read afterwards is what the file has. `Close` and `Reopen` are the same as in
the B-tree; the header has the current time stamp, too.

## The runs

| Run | Bounds | Shows |
|---|---|---|
| `buffer_shared` | 2 threads that hold one of 3 pages at a time, 2 frames, 2 changes of each page, weak fairness | `TypeOK`; `PinsCountUsers`: pins are neither lost nor left behind; `InstantLoadLock`: the loader never waits for the lock of its frame; `NoLostUpdate`: a changed page is dirty, being saved, or on disk; `EvictsOnlyUnused`; `EveryPinReturns` |
| `buffer_descents` | 2 threads that hold up to 2 of 3 pages, 2 frames, one page to be created, mode function, flushes, changes after them, one end of the process at any moment, also inside a flush | `TableConsistent`: table, frames, free slots and queues agree; `HoldersSeeNewest`: whoever holds a page sees the last version written; `FlushedSurvives`; `ImplementsStore`: refinement of `PageStore` |
| `buffer_deadlock` | as `buffer_shared`, with two pages held | finding 1: `EveryPinReturns` fails |
| `buffer_leaf_mode` | mode function | finding 2: `LeafPinnedUniquely` fails |
| `segments_shared` | 2 threads, 2 segments of 2 blocks, deletions, flushes and clean restarts | `FreeSegmentsExact`: a thread that locks a segment finds a block in it; `ReadsInitialized`; `BlocksAccounted`: free list, owners and pending deletions share out the blocks; `Reopens`; `ImplementsBlockStore`: refinement of `BlockStore` |
| `segments_crash` | segments of 2 and 3 blocks, the end of the process at any moment, no deletions, weak fairness | `Reopens`, `ImplementsBlockStore`; `EveryCallReturns`: nobody waits for ever, "All blocks were occupied!" is never raised |
| `btree_shared` | 2 threads, 3 calls each, after 0 to 9 insertions; leaves of 2, inner nodes of 3; a buffer that holds the tree | `SearchTree`, `KeysUnique`, `RoomForPivot`, `RootLeafExclusive`; `SeesItsKey`: what an insert reads through `keyIt` tells whether its leaf has the key, also behind the size of the half it has released; `ImplementsMap`: refinement of `KeyValueMap`; `EveryCallAnswered` |
| `btree_overwrite` | 2 threads below an inner root | finding 3: `KeysUnique` fails |
| `betree_shared` | 2 threads, 2 calls each, after 4, 8, 15 or 24 of 29 calls; leaves of 3, inner nodes of 3 pivots and 2 messages, a root of 3 | `SearchTree`: also the messages on their way are where `find` looks for them; `RoomForPivots`, `RoomForPairs`: what the code asserts after having decided a level above; `RootLeafExclusive`; `ImplementsMap`: refinement of `ConcurrentMap`; `EveryCallAnswered` |
| `betree_timestamps` | 2 threads insert the same key | finding 4: `FlushesKeepValues` fails |
| `betree_missing` | an update of a key that is not there, and a `find` | finding 5: `FindsNeverFail` fails |
| `betree_restart` | one thread inserts a pair that is there already, then the tree is flushed and opened again | finding 6: `OnlyCallsChangeValues` fails |

**Why the bounds are enough.** Two frames for three pages make misses evictions,
with victims in either queue and queues of different lengths; two threads are an
evictor and the one that pins its victim, or wants the same page, meanwhile. For the
safety properties of the page buffer the number of threads, frames and pages is no
bound at all: they are proved. Two segments of two
blocks let a segment be full, be the last one and be neither; two deleted
blocks in one segment make a link. Leaves of two and inner nodes of three are the
smallest the assertions of the B-tree allow, so that a few inserts split on every
level. In the B-epsilon-tree a message has to sink through two levels of inner
nodes, whose buffers are full, before a flush goes on from one node to several:
one thread loads the tree first (`Preload`, the code itself, step by step), and
the others start where the root is a full leaf that either may split, or where a leaf
below it, the root, or a buffer and the pivots next to it are full. Leaves of two pairs are left out there (`SizesAssumption`): a split could
then use a pivot twice; the node sizes of the code never come near it.
In `btree_shared` the threads insert new keys, and one of them overwrites key 24: when
the preload is complete it is the last key of a full leaf, so that thread splits the leaf,
releases the left half, and reads 24 behind its size while the other thread inserts into
the right half, through the same parent. What the run leaves out is that the other thread
inserts into the left half, or that its pages take the frame of that half: then the map is
not kept, which is finding 3. The theorem `SingleWriterSees` is about nodes of
any size and, for a thread that is alone, about any buffer. In `betree_shared` they
update and erase only keys that are there, and insert different ones: findings 4
and 5 are about the rest.

**Fairness.** `buffer_shared`, `segments_crash`, `btree_shared` and `betree_shared`
assume weak fairness for each thread's own steps inside a call: the scheduler runs
every thread, and a mutex that is free for good is taken. Nothing is assumed of
callers, of flushes or of new calls, and calls are bounded, so no writer waits
for an endless stream of readers; whether `std::shared_mutex` would let it is up
to the platform. In the page buffer a thread that holds a page is also assumed to
give it back, as every operation of the trees does.

**Deadlock checking** is off where the callers may stop calling; the liveness
properties check for threads that wait for each other.

## Findings

1. **Deadlock on the lock of a victim** (`PageBuffer.h:222`, comment at 221 "lock
   the page (instant)"). A descent that pinned the page before keeps it locked
   while it asks for its next page; the evictor waits for it with the table locked.
   Two threads, each evicting a page the other holds, stop each other.
2. **The mode function reads unlocked data** (`PageBuffer.h:153`). It may see a
   frame that is still being loaded, and the leaf that comes is then held in
   shared mode by a thread that will change it (`BTree.h:507`: "currentPage is
   now a uniquely pinned leaf node").
3. **insert may add a key twice** (`BTree.h:252`). After a split whose right half
   takes the key, `*keyIt` reads the left leaf after it was unpinned. When another
   thread inserted there, an existing key is not recognised and is added again
   (`BTree.h:73`: "if K already exists, it will get overwritten").
4. **A flush brings back an old value** (`BeTree.h:1209`). Time stamps are drawn
   before any lock. Two inserts of one key may enter the tree in the opposite
   order of their stamps; the last one to enter counts while it is above the other,
   and the one with the later stamp counts as soon as a flush squashes them
   (`BeTree.h:244`).
5. **find fails on an update of a missing key** (`BeTree.h:1315`). The message waits
   in an inner node; `find` collects it and then has no value to apply it to
   (`BeTree.h:247`: "does nothing if K does not exist").
6. **An insert that changes nothing loses half of a leaf** (`BeTree.h:934`). When the
   pair is in a full leaf already, the leaf is split first, and then the half with the
   pair is unpinned as unchanged. If that is the new page, no eviction and no `flush`
   ("saves the betree", `BeTree.h:255`) writes it: its pairs are gone when it is read
   from the file again. `TestBeTree.cpp:493` expects every key back, but never inserts
   a pair twice. In the model, `stale` is what the file has of that page.

Seen while modelling, without a run of their own:

- `splitRootNode` drops the last pivot and the last child of the root, and all below
  them, when `ROOT_N` is a multiple of `INNER_N / 2 + 1` (`BeTree.h:379`). The sizes
  of the tests (pages of 256, 512 and 1024 bytes) and of the benchmark (4096, with
  epsilon 50) leave a remainder of one; pages of 4096 bytes, values of 100 and epsilon
  70 give 253 and 21, and 253 is a multiple of 11. With `InnerN = 5` and `RootN = 9`
  the model violates `SearchTree` at the first split of the root.
- The assertion at `BeTree.h:775` fails on an insert of a key that was erased. An erase
  that is flushed to a leaf shifts the keys behind its own to the left (`BeTree.h:749`);
  when its key is the largest, it stays in the array, behind the size. When an insert of
  that key is flushed later, it goes to this slot, `*keyIt` is the key itself, and the
  assertion, which asks for another one, ends the process. Without assertions nothing
  happens: the slot is overwritten. A new page has slots that were never written; what the
  assertion reads there is arbitrary. The model does all of it (`AssertionOutcomes`); one
  thread that inserts 5, 7, 8, 36, 39 and 42 and erases some of them, in any order, is
  enough for it to reach the failure. The runs have `Leftovers = {}`, and in
  `betree_shared` no call inserts a key after it was erased.
- A process that ends inside the constructor of the segment manager, between the `open`
  that creates the file and the `ftruncate` (`SegmentManager.h:93`-`98`), leaves an empty
  file. The next constructor finds it, cannot read a header (`SegmentManager.h:76`) and
  throws "Invalid segment file!", and so does every one after it.
- `find` does not look into a root that is a leaf (`BeTree.h:1237`); until the first
  split it answers `nullopt` for every key.
- After a crash the header of a segment may name a block as head of the free list
  that was handed out and overwritten since (`Segment.h:166`). Nobody in the repository
  deletes blocks.
- The adapters of the benchmark (`UCSB/src/btree/btree.hpp`, `betree/betree.hpp`):
  `bulk_load` inserts `keys[0]` for every value, and the destructor calls `close()`
  again, which flushes through a null pointer after an explicit `close()`, the usage
  `db.hpp:22-31` describes.

## What is proved

Every theorem holds for all values of the constants that satisfy the named
assumptions: any number of threads, frames, pages, segments and keys, and the sizes
of nodes and segments the code accepts. The argument is the same throughout: an
inductive invariant, one lemma per action that preserves it, and the properties of the
runs as consequences.

**Queues and table** (`PageBufferProofs`). Lemmas say what `insert`,
`remove` and `find` do to the set of entries and to their distinctness. The invariant
`BufferInv` gives `TypeCorrect`, `PinsCorrect`, `TableCorrect` and `EvictionSafe`. It
adds to them what is needed to step from state to state: the table mutex is owned by
exactly the threads whose place in `pinPage` says so, and a writer excludes readers
(`TableLockOwned`); pages that a thread holds stay in their frames, and it asks only for
pages below them (`HeldOK`); what its locals name at each place (`FrameOK`); and that the
victim it has chosen is still in the table (`VictimOK`). `PinsCountUsers` alone is not
inductive: whether a decrement restores the count depends on where the thread is and on
which frame its locals name.

**Page locks and contents** (`PageDataProofs`). `DataInv` adds who has a page locked at
which step (`PageLocksOwned`), that a page being loaded has a single pin (`ArrivalOK`),
that a page being created is nobody else's (`CreationOK`), that what is saved has
contents and a change is reported before the page is released (`SavesOK`), and where the
newest version of each page is: in its frame unless it is being loaded, and in the file
unless somebody knows that it is not (`ContentsOK`, `FileOK`). `HoldersCurrent`,
`NothingLost`, `FlushedStays` and `LoadLockInstant` follow. The last is the comment "lock
the page (instant)" where it is true, at the load of a page; finding 1 is where it is not.

**The buffer implements `PageStore`** (`PageDataProofs`). Under both invariants the
content the refinement mapping reads off frames and file is the latest version written;
only `Write`, `Flush` and the end of the process change versions, and only the steps that take or
release the lock of a page change who has access. All others are stutters of the store.

**Segments** (`SegmentManagerProofs`). `SegmentsInv` says who has which mutex
(`MutexesOK`); that a segment without its header is locked by the thread that makes it,
since before anybody else could see it (`ReadyOK`); that the free set is exact but for
what the thread in the segment is about to do (`FreeOK`); that segments lie one behind
the other, the one being made included (`LayoutOK`); and what headers and links in the
file say (`FileOK`, `FlushOK`). It gives `SegmentsTypeCorrect`, `FreeSegmentsCorrect`,
`ReadsCorrect` and `AlwaysReopens`. The constructor's walk is unique by a least
counterexample: the first segment that two walks place differently has a predecessor
they place alike (`LeastNat`, from the theorems on well-founded relations).

**The manager implements `BlockStore`** (`SegmentManagerProofs`). `BlocksInv` adds that each
free list, which is stored in the deleted blocks, exists, has no repetition and no used
block, and that used blocks, also those of the last flush, are within what the header
says was occupied. `NoBlockLost` (for `~MayCrash`) and `ManagerImplementsStore` follow.

**B-tree** (`BTreeProofs`). `TreeInv` gives `TypeCorrect`, `PivotsHaveRoom` and
`RootLeafLocked`. Its parts: page locks exclude each other (`LocksOK`); nodes are within
their arrays, leaves sorted, and no child is the root (`PagesOK`); `leafRoot` tells the
truth about the root (`HeaderOK`); and per thread, how it has locked the page it looks at
(`CurrentOK`), that the page above is locked and has room (`ParentOK`), and that a leaf
it writes to is full only if the key is there (`WriteOK`). A mode chosen from a header
that was read without a lock is still good because a root is never a leaf again
(`StartOK`).

**The contents of the B-tree** (`BTreeSearchProofs`). `KeysUnique`, `SearchTree` and
`ImplementsMap` are false of the code: in `btree_overwrite` an insert reads through
`keyIt` another key than the one it stands at (finding 3). `SeesItsKey` says that no
insert does, and it is the one condition of `SearchInvariant`, `IsSearchTree`,
`KeysInOrder` and `IsMap`: whatever any number of threads does, nothing else can break
the tree. For one thread that writes it is proved, not assumed (`SingleWriterSees`;
others may look for keys meanwhile if the buffer holds the whole tree, `OnlyWriter`), so
`SingleWriterTree` and `SingleWriterMap` have no such condition.

`SearchTree` speaks of the keys below a page, which are a recursive definition, and is not
inductive: a thread on its way must not be left behind by a split. `SearchInv` says instead
that there is a *home* for every page, the keys a search for which comes to it, and a
*height*. The home of the root is everything, a node hands every child the part between
the pivots around it, what a leaf contains and the pivots of a node are at home there, the
heights of the children are one less, every page is the child of one node at one index
(`ParentsOK`), and a thread is at a page that is home to its key, whose parent, while it is
held, names that page for it. A split divides a home at the pivot and leaves all others as
they were, so a step is checked at the three or four pages it changes, and the proof of a
step never follows a path. From homes and heights the rest follows by least
counterexamples (the library's theorem on minimal elements, not its induction): `LeafFor`,
the leaf a search for a key comes to, exists and is the only leaf that can have the key
(`FindsLeaf`); a thread at a leaf is there (`Arrives`); the keys below a child are in its
home. For `ImplementsMap` the value of a key is what `LeafFor` has for it: a split moves
pairs and changes no value, each of the five steps that answer a call changes the
value of its own key in the way the map demands, and all others are stutters.

**Messages** (`BeTreeProofs`). `SquashEffect` (in whichever order two messages are
squashed, the result does what the earlier one does followed by the later one),
`MergeEffect` (the same for whole buffers, key by key) and `FlushEffect` (taking any
messages out of a buffer to the level below changes no value), for all integers. The
assumption of `MergeEffect`, that messages above are younger, is what the code does not
ensure for two threads: finding 4.

**B-epsilon-tree** (`BeTreeProofs`). `TreeInvariant` and, from it, `RootLeafLocked`. The
parts of `TreeInv`: page locks exclude each other and belong to pages that exist
(`LocksOK`); every page is a leaf, an inner node or the root, a node has one more child
than pivots, the root is nobody's child, and the children of a node are all inner nodes
or none of them is (`PagesOK`), which is what `handleTraversalNode` relies on when it
looks at the first child only; pages that the file has otherwise are leaves; `rootLeaf`
tells the truth about the root, in the tree that is open and in the header file
(`HeaderOK`). Per thread: the mode chosen from the header that was read without a lock is
still good when the root is locked (`StartOK`, `RootStepOK`); a node that is about to take
a message is locked exclusively and, in the second descent, a child of the root
(`TargetOK`); every node in the queue of a flush is an inner node that its thread has
locked exclusively, with messages for it, and the thread has nothing locked in shared mode
(`FlushOK`); a `find` waits below the root with an inner node (`FindOK`); and nobody works
on a page of zeros (`ZerosOK`). The longest part is about splits: `RootOfParts` and
`InsertPivots` are shown to build nodes of this shape for any number of parts and of
children that split at once, by counting the split children to the left of each.

**Sizes in the B-epsilon-tree** (`BeTreeRoomProofs`). `RoomInv`, on top of `TreeInv`, gives
`TypeCorrect`, `PivotsHaveRoom` and `PairsHaveRoom`: for leaves of three pairs or more and
inner nodes of any size the code accepts, no leaf, buffer or node gets more than its arrays hold, and the assertions at
`BeTree.h:418` and `BeTree.h:774` do not fail. `RoomForPivots` alone is not inductive: a
flush changes nodes, and the queue has more of them behind the first one. So `RoomInv`
adds that every page is the child of one node at most and at one index (`ParentsOK`), and
that a node further behind in the queue is neither a node before it nor a child of one
(`QueueFits`), so that a flush leaves it alone; that a node in the queue has room for a
pivot from every child its messages are for, and has no more than `MAX_FLUSH_SIZE` of
them (`EntryFits`); that the second descent has found room in the root (`RootFits`); and
that nodes fit (`NodesFit`) and calls have their types (`CallOK`). Three arguments carry
it. `removeMessages` takes the largest blocks first, so what is left fits in the buffer
and what it takes fits in a flush, whichever of two equal blocks it prefers. A node that
lacks the room is split in the middle, and a half has room for a pivot from each of its
children: it has `INNER_N / 2` pivots at most and one child more. And a leaf
is split by an estimate: `FutureSize` sees only the first key of a leaf as known, so it
counts too many, never too few, and the median of keys and messages leaves each half with
`LeafN` of them at most (`LeavesFit`). The last one needs `MAX_FLUSH_SIZE = LeafN - 1`.

**The order of the B-epsilon-tree** (`BeTreeSearchProofs`). `IsSearchTree`: between any two
steps of any number of threads the pages form a search tree, and pairs, buffered messages
and the messages in the queues of flushes are about keys between the pivots around them.
Two conditions are part of the statement, because the code does break the tree without
them: `NothingForgotten`, that no page which is dropped is read again as it was not
(finding 6: half of a leaf is read as zeros later; only an insert of a pair that is there
already can violate it), and `RootN % (ChildPivots
+ 1) # 0` (otherwise `splitRootNode` loses the last child, see above; the sizes of the
tests and of the benchmark satisfy it). Nothing else can: not the order of time stamps
(finding 4) and not updates of missing keys (finding 5), which change values and not
places. `SearchInv` has homes and heights as in the B-tree, and adds that every page but
the root has a parent (`ReachedOK`), that the keys of the messages in a buffer are at
home in its node (`NodeOrdered`), that those in the queue of a thread are at home in the
node they are for, and that a thread which has locked its target is where its key belongs
(`PlaceOK`). Another thread cannot move them away: nodes in a queue and targets are locked
exclusively (`TreeInv`), and a step changes the homes only of nodes its own thread has
locked (`OrderStep`). The steps that split many nodes at once are reduced to segments: a
part of a node from one child to another is ordered, with the keys for those children as
its home (`SegmentOrdered`), and the parts of a root divide its children without a gap
because `RootN` leaves a remainder (`PartIsSegment`); a node that gets the pivots of all
children split below it sends a key to the half the split made for it (`FlushedSplit`).

**Assumptions.** Finite sets of threads and frames, pages and bounds in the naturals,
`None` outside of all of them and of the types of calls; nodes with room for a split (`SizesAssumption` of `BTree`:
leaves of two pairs, inner nodes of three pivots or more, as the code asserts; those of
`BeTree`: leaves of three pairs, as explained above, and a root, which has no buffer, with
room for as many pivots as an inner node); calls of the right types (`OperationsAssumption`); one page or more (`PagesAssumption`); segments
of two blocks or more that do not shrink; no deletions with crashes (`ModesAssumption`).
TLC evaluates them in every run.

**Only model-checked**: `ImplementsMap` of the B-epsilon-tree, and all liveness. Liveness under fairness and `ENABLED` are out of reach of the prover, as is induction over data: what
a recursive definition computes.

## What is not modelled

- The end of the process between two steps of a tree, without a flush: the header of
  the tree is then older than the pages, which the code does not handle.
- `operator<<` and `allocatedBlocks`, which only read; block ids as 64 bit numbers; I/O
  errors, which throw.
- Deletions together with crashes in the segment manager: nobody in the repository
  calls `deleteBlock`, and the free lists on disk would not survive it.
- The slack behind `size` in the arrays of the B-epsilon-tree, but for the keys of leaves:
  of values, pivots, children and messages nothing reads it.
- The end of the process inside the constructor of the segment manager (see above).
- Widths of integers: sizes are bounded by the arrays, pins by the threads.
- `OptimalPageBuffer.h`, `ErrorHandler.h`, `main.cpp`, the tests and the adapters of
  the benchmark, for the reasons in `PROJECT.json`.

More than nine tenths of the C and C++ lines in the repository are googletest, its
samples and the benchmark harness, which are not this program. Of the some 3640 lines of the
headers under `src/src/`, about 2260 are mapped; the others are includes, comments,
declarations, printing and the unused `OptimalPageBuffer.h`.

## Plan

The order followed was page buffer, segment manager, B-tree, B-epsilon-tree: the
trees trust the buffer, and the buffer trusts nobody. The proofs follow in the same
order. Left:

1. `ImplementsMap` of the B-epsilon-tree, from `SearchInv` and the algebra of messages:
   which steps change the value of a key, as long as younger messages are above.
2. A run for `splitRootNode` with sizes that leave no remainder.
3. The B-tree over `PageStore` as an instance.
