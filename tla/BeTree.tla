------------------------------- MODULE BeTree -------------------------------
(***************************************************************************)
(* The B-epsilon-tree of src/src/betree/BeTree.h, used by several threads  *)
(* at once, over pages as PageStore promises them.  insert, update and     *)
(* erase leave a message in the buffer of an inner node below the root;    *)
(* when a buffer is full, its largest blocks of messages are flushed to    *)
(* the children, level by level.  A step of a thread is what it does       *)
(* between two locks it may have to wait for.  What it does to nodes it    *)
(* holds exclusively, and to pages it creates, nobody else can tell apart. *)
(*                                                                         *)
(* The sorted arrays of a node are functions and sequences here: pairs and *)
(* upserts by key, pivots and children by position.  Of a leaf there is    *)
(* also the array of its keys, because an assertion reads behind the last. *)
(***************************************************************************)
EXTENDS Upserts, SequencesExt
Arrays == INSTANCE NodeArrays

CONSTANTS
  Threads,
  Keys,          \* a finite set of naturals
  LeafN,         \* LEAF_N: pairs in a leaf
  InnerN,        \* INNER_N: pivots of an inner node
  InnerBN,       \* INNER_B_N: messages in the buffer of an inner node
  RootN,         \* ROOT_N: pivots of the root
  MaxPages,      \* bound: pages
  Evictions,     \* whether the buffer is smaller than the tree
  Leftovers,     \* bound: keys that the memory of a new page may contain
  Preload,       \* the calls before the threads start
  Starts,        \* the threads start after so many of them
  Operations     \* bound: the n-th call of thread t is in Operations[t][n],
                 \* a record of op, key and value

MAX_FLUSH_SIZE == LeafN - 1
ChildPivots == InnerN \div 2

(* The assertions of BeNode.h:173-178.  Leaves of two pairs are left out.   *)
(* The root has no buffer, so it has room for as many pivots as any node.   *)
ASSUME SizesAssumption ==
  /\ InnerBN \in Nat \ {0} /\ LeafN \in Nat /\ InnerBN <= LeafN /\ LeafN >= 3
  /\ InnerN \in Nat /\ InnerN >= 3 /\ InnerN % 2 = 1
  /\ RootN \in Nat /\ RootN >= InnerN
ASSUME KeysAssumption ==
  Keys \subseteq Nat /\ IsFiniteSet(Keys) /\ Starts \subseteq 0 .. Len(Preload)
ASSUME PagesAssumption == MaxPages \in Nat \ {0}
ASSUME ThreadsAssumption == None \notin Threads

(* find sees by their sum whether it has met updates. *)
CallType == [op : UpsertType \cup {"find"}, key : Keys, value : Nat]
ASSUME OperationsAssumption ==
  /\ Preload \in Seq(CallType) /\ Operations \in [Threads -> Seq(SUBSET CallType)]
  /\ \A t \in Threads : \A c \in UNION Range(Operations[t]) : c.op = "update" => c.value > 0

VARIABLES
  \* the pages and the header
  node, rootLeaf, currentTimeStamp, access,
  \* the keys arrays of leaves, with what is behind their size (None where
  \* nothing was written yet)
  array,
  \* what the file has for pages that were changed, yet reported clean, and
  \* the header in the file while the tree is closed (else None: flush writes
  \* it again before it is read)
  stale, headerFile,
  \* the operation of a thread, and what it answered
  call, answer,
  \* its locals: the message, exclusiveMode, the mode in which it pins the
  \* root, the page it looks at, the sum of the updates find has met, and the
  \* nodes to be flushed with the messages for their children
  pc, message, exclusiveMode, mode, current, accumulated, queue,
  \* history: calls so far, preloaded calls, and the values a key had during
  \* the find of a thread
  calls, loaded, seen

header == <<rootLeaf, headerFile>>
tree   == <<node, array, stale, header>>
client == <<call, answer, message, currentTimeStamp, calls, loaded>>
locals == <<pc, exclusiveMode, mode, current, accumulated, queue>>
state  == <<tree, access, client, locals>>
vars   == <<state, seen>>

(***************************************************************************)
(* Nodes.                                                                  *)
(***************************************************************************)
Leaf(pairs) == [type |-> "leaf", pairs |-> pairs]
Inner(pivots, children, upserts) ==
  [type |-> "inner", pivots |-> pivots, children |-> children, upserts |-> upserts]
RootNode(pivots, children) ==
  [type |-> "root", pivots |-> pivots, children |-> children]
Empty == [k \in {} |-> None]

(* Functions, of pages mostly: from one of them alone, and one over another *)
(* (the names a and b keep TLC from computing f and g for every x again).   *)
Only(x, e) == [y \in {x} |-> e]
Over(f, g) == [x \in DOMAIN f \cup DOMAIN g |-> IF x \in DOMAIN f THEN f[x] ELSE g[x]]
f ++ g == CHOOSE h \in {Over(a, b) : a \in {f}, b \in {g}} : TRUE

(* A page of zeros reads as a root without pivots, and is none of what the  *)
(* code expects below the root (the assertions of BeTree.h:960, BeNode.h:227*)
(* and BeNode.h:234).                                                       *)
Zeros == [type |-> "zeros"]

Root == 1
Created == DOMAIN node
Fresh == Cardinality(Created) + 1
IsLeaf(p) == node[p].type = "leaf"
IsInner(p) == node[p].type = "inner"

(* std::lower_bound over the pivots. *)
ChildIndex(n, k) == 1 + Cardinality({i \in DOMAIN n.pivots : n.pivots[i] < k})
ChildOf(n, k) == n.children[ChildIndex(n, k)]
Size(f) == Cardinality(DOMAIN f)

UpTo(f, k) == Restrict(f, {j \in DOMAIN f : j <= k})
Above(f, k) == Restrict(f, {j \in DOMAIN f : j > k})

(* The pairs of a leaf after messages, each about another key. *)
ValueIn(pairs, k) == IF k \in DOMAIN pairs THEN pairs[k] ELSE None
EffectOn(pairs, messages, k) ==
  IF k \in DOMAIN messages THEN Effect(messages[k], ValueIn(pairs, k)) ELSE pairs[k]
Apply(pairs, messages) ==
  [k \in {j \in DOMAIN pairs \cup DOMAIN messages : EffectOn(pairs, messages, j) # None} |->
     EffectOn(pairs, messages, k)]

(* The keys array after them: an insert shifts the keys behind its own to   *)
(* the right, an erase to the left, and leaves the last one where it was.   *)
(* The array of a new page contains the keys that are moved there, and is   *)
(* not initialized behind them.                                             *)
Below(f, k) == Restrict(f, {j \in DOMAIN f : j < k})
NewArray(pairs) ==
  [i \in 1 .. LeafN |->
     IF i <= Size(pairs) THEN CHOOSE k \in DOMAIN pairs : Size(UpTo(pairs, k)) = i ELSE None]
ArrayAfter(a, pairs, messages) ==
  LET shift(b, k) ==
        LET now == Apply(pairs, Below(messages, k))
            i == 1 + Size(Below(now, k))
        IN IF messages[k].type = "insert" /\ k \notin DOMAIN now
           THEN Arrays!InsertAt(b, Size(now), i, k)
           ELSE IF messages[k].type = "erase" /\ k \in DOMAIN now
           THEN Arrays!EraseAt(b, Size(now), i) ELSE b
  IN FoldLeft(shift, a, SetToSortSeq(DOMAIN messages, LAMBDA j, k : j < k))

(* What is read behind the last key for the messages that insert one there, *)
(* each with its own key: an assertion says that they differ.               *)
ReadBehind(a, pairs, messages) ==
  LET now(k) == Apply(pairs, Below(messages, k))
      goesLast(k) == messages[k].type = "insert" /\ \A j \in DOMAIN now(k) : j < k
  IN {<<k, ArrayAfter(a, pairs, Below(messages, k))[Size(now(k)) + 1]>> :
        k \in {j \in DOMAIN messages : goesLast(j) /\ Size(now(j)) < LeafN}}

(* A leaf is split at the median of its keys and those of the messages; its *)
(* halves are UpTo and Above (splitLeafNode).                               *)
LeafMedian(pairs, messages) == FindMedianKey(DOMAIN pairs, DOMAIN messages)

LeftArray(a, pairs, median, messages) ==
  ArrayAfter(a, UpTo(pairs, median), UpTo(messages, median))
RightArray(pairs, median, messages) ==
  ArrayAfter(NewArray(Above(pairs, median)), Above(pairs, median), Above(messages, median))

(* splitInnerNode *)
SplitIndex(n) == (Len(n.pivots) - 1) \div 2 + 1
InnerPivot(n) == n.pivots[SplitIndex(n)]
(* Mutant: the messages stay in the left half. *)
LeftWithAllUpserts(n) ==
  Inner(SubSeq(n.pivots, 1, SplitIndex(n) - 1), SubSeq(n.children, 1, SplitIndex(n)),
        n.upserts)

LeftInner(n) ==
  Inner(SubSeq(n.pivots, 1, SplitIndex(n) - 1), SubSeq(n.children, 1, SplitIndex(n)),
        UpTo(n.upserts, InnerPivot(n)))

RightInner(n) ==
  Inner(SubSeq(n.pivots, SplitIndex(n) + 1, Len(n.pivots)),
        SubSeq(n.children, SplitIndex(n) + 1, Len(n.children)),
        Above(n.upserts, InnerPivot(n)))

(* splitRootNode: the i-th of the new children, and the new root above them,*)
(* the first of them in page first.                                         *)
Parts(n) == (Len(n.pivots) + ChildPivots) \div (ChildPivots + 1)
PartOfRoot(n, i) ==
  LET start == (i - 1) * (ChildPivots + 1)
      size == Min({ChildPivots, Len(n.pivots) - start})
  IN Inner(SubSeq(n.pivots, start + 1, start + size),
           SubSeq(n.children, start + 1, start + size + 1), Empty)
RootOfParts(n, first) ==
  RootNode([i \in 1 .. Parts(n) - 1 |-> n.pivots[i * (ChildPivots + 1)]],
           [i \in 1 .. Parts(n) |-> first + i - 1])

(* insertPivots: splits is a function from the indices of the children that *)
(* were split to the pivots and the pages of the right halves.              *)
OneIf(condition, e) == IF condition THEN <<e>> ELSE <<>>
InsertPivots(n, splits) ==
  LET splitAt(i) == i \in DOMAIN splits IN
  [n EXCEPT
     !.pivots = FlattenSeq([i \in DOMAIN n.children |->
        OneIf(splitAt(i), splits[i].pivot) \o OneIf(i <= Len(n.pivots), n.pivots[i])]),
     !.children = FlattenSeq([i \in DOMAIN n.children |->
        <<n.children[i]>> \o OneIf(splitAt(i), splits[i].page)])]

(* The blocks of messages for the same child. *)
Blocks(n, messages) ==
  {{k \in DOMAIN messages : ChildIndex(n, k) = i} :
     i \in {ChildIndex(n, k) : k \in DOMAIN messages}}

(* removeMessages: the keys that may be removed from the buffer of node n   *)
(* and the additional messages together.                                    *)
Together(n, additional) == MergeUpserts(n.upserts, additional)
Removed(n, additional) ==
  Removals(Blocks(n, Together(n, additional)),
           Size(n.upserts) + Size(additional) - InnerBN, MAX_FLUSH_SIZE)
Keep(n, additional, removed) ==
  LET together == Together(n, additional) IN
  [n EXCEPT !.upserts = Restrict(together, DOMAIN together \ removed)]

(* What comes into the queue: nodes and the messages for their children.    *)
Entry(page, messages) ==
  OneIf(DOMAIN messages # {}, [page |-> page, messages |-> messages])
SplitEntries(left, right, pivot, messages) ==
  Entry(left, UpTo(messages, pivot)) \o Entry(right, Above(messages, pivot))
Pages(entries) == {entries[i].page : i \in DOMAIN entries}

(***************************************************************************)
(* Page locks.                                                             *)
(***************************************************************************)
CanPin(t, p, exclusive) ==
  \A u \in Threads \ {t} :
    /\ access[u][p] # "write"
    /\ exclusive => access[u][p] = "none"

(* The pages thread t holds afterwards. *)
Holds(t, shared, exclusive) ==
  access' = [access EXCEPT ![t] =
               [p \in 1 .. MaxPages |-> IF p \in exclusive THEN "write"
                                       ELSE IF p \in shared THEN "read" ELSE "none"]]
HeldBy(t) == {p \in 1 .. MaxPages : access[t][p] # "none"}

Init ==
  /\ node = [p \in {Root} |-> Leaf(Empty)]
  /\ rootLeaf = TRUE
  /\ currentTimeStamp = 0
  /\ array = [p \in {Root} |-> NewArray(Empty)]
  /\ stale = Empty
  /\ headerFile = None
  /\ access = [t \in Threads |-> [p \in 1 .. MaxPages |-> "none"]]
  /\ call = [t \in Threads |-> None]
  /\ answer = [t \in Threads |-> None]
  /\ pc = [t \in Threads |-> "client"]
  /\ message = [t \in Threads |-> None]
  /\ exclusiveMode = [t \in Threads |-> FALSE]
  /\ mode = [t \in Threads |-> FALSE]
  /\ current = [t \in Threads |-> None]
  /\ accumulated = [t \in Threads |-> 0]
  /\ queue = [t \in Threads |-> <<>>]
  /\ calls = [t \in Threads |-> 0]
  /\ loaded = 0
  /\ seen = [t \in Threads |-> {}]

Open == headerFile = None
At(t, label) == pc[t] = label
Go(t, label) == pc' = [pc EXCEPT ![t] = label]
Key(t) == call[t].key
Here(t) == node[current[t]]
Upserting(t) == call[t].op \in UpsertType
Alone(t) == [k \in {Key(t)} |-> message[t]]

(* An assertion fails, and the process ends. *)
Fail(t) ==
  /\ Go(t, "failed")
  /\ UNCHANGED <<tree, access, client, exclusiveMode, mode, current, accumulated, queue>>

(***************************************************************************)
(* Calls and answers.  A message gets its time stamp before any lock.      *)
(***************************************************************************)
Begin(t, c) ==
  /\ At(t, "client") /\ Open
  /\ call' = [call EXCEPT ![t] = c]
  /\ IF c.op = "find"
     THEN Go(t, "pinRoot") /\ UNCHANGED <<currentTimeStamp, message>>
     ELSE /\ currentTimeStamp' = currentTimeStamp + 1
          /\ message' = [message EXCEPT ![t] = Upsert(c.op, c.value, currentTimeStamp')]
          /\ Go(t, "header")
  /\ UNCHANGED <<tree, access, answer, exclusiveMode, mode, current, accumulated,
                 queue>>

Loading == \E u \in Threads : calls[u] = 0 /\ ~At(u, "client")

Call(t, c) ==
  /\ ~Loading
  /\ (\A u \in Threads : calls[u] = 0) => loaded \in Starts
  /\ calls[t] < Len(Operations[t]) /\ c \in Operations[t][calls[t] + 1]
  /\ calls' = [calls EXCEPT ![t] = @ + 1]
  /\ Begin(t, c)
  /\ UNCHANGED loaded

Load(t) ==
  /\ loaded < Len(Preload)
  /\ \A u \in Threads : At(u, "client") /\ calls[u] = 0
  /\ t = CHOOSE u \in Threads : TRUE
  /\ loaded' = loaded + 1
  /\ Begin(t, Preload[loaded + 1])
  /\ UNCHANGED calls

Answer(t, result) ==
  /\ call' = [call EXCEPT ![t] = None]
  /\ answer' = [answer EXCEPT ![t] = result]
  /\ message' = [message EXCEPT ![t] = None]
  /\ exclusiveMode' = [exclusiveMode EXCEPT ![t] = FALSE]
  /\ mode' = [mode EXCEPT ![t] = FALSE]
  /\ current' = [current EXCEPT ![t] = None]
  /\ accumulated' = [accumulated EXCEPT ![t] = 0]
  /\ queue' = [queue EXCEPT ![t] = <<>>]
  /\ Go(t, "client")
  /\ Holds(t, {}, {})
  /\ UNCHANGED <<currentTimeStamp, calls, loaded>>

(***************************************************************************)
(* The root.  upsert reads header.rootLeaf, without a lock, to choose the  *)
(* mode in which it pins the root.                                         *)
(***************************************************************************)
(* Mutant: a root that is a leaf is pinned shared. *)
ModeOfRootShared(t) == FALSE

ModeOfRoot(t) == rootLeaf

ReadHeader(t) ==
  /\ At(t, "header")
  /\ mode' = [mode EXCEPT ![t] = ModeOfRoot(t)]
  /\ Go(t, "pinRoot")
  /\ UNCHANGED <<tree, access, client, exclusiveMode, current, accumulated, queue>>

PinRoot(t) ==
  /\ At(t, "pinRoot")
  /\ CanPin(t, Root, mode[t])
  /\ IF mode[t] THEN Holds(t, {}, {Root}) ELSE Holds(t, {Root}, {})
  /\ current' = [current EXCEPT ![t] = Root]
  /\ Go(t, "root")
  /\ UNCHANGED <<tree, client, exclusiveMode, mode, accumulated, queue>>

(* A page that is unpinned as dirty will be saved before it is dropped.     *)
Write(new) ==
  /\ node' = new ++ node
  /\ stale' = Restrict(stale, {p \in DOMAIN stale :
                                p \notin DOMAIN new \/ new[p] = node[p]})

(* Change pages, answer, and let go. *)
Change(t, new) == Write(new) /\ Answer(t, None)

(* handleRootLeafUpsert: the message takes effect at once.  A full leaf is  *)
(* split for a new key, and its left half moves to a new page.              *)
LeafIsFull(pairs) == Size(pairs) = LeafN

RootLeafKeeps(t) ==
  LET pairs == Here(t).pairs IN
  /\ At(t, "root") /\ Upserting(t) /\ IsLeaf(Root)
  /\ ~LeafIsFull(pairs) \/ call[t].op # "insert" \/ Key(t) \in DOMAIN pairs
  /\ Change(t, Only(Root, Leaf(Apply(pairs, Alone(t)))))
  /\ array' = Only(Root, ArrayAfter(array[Root], pairs, Alone(t))) ++ array
  /\ UNCHANGED header

RootLeafSplits(t) ==
  LET pairs  == Here(t).pairs
      median == LeafMedian(pairs, Alone(t))
      left   == Apply(UpTo(pairs, median), UpTo(Alone(t), median))
      right  == Apply(Above(pairs, median), Above(Alone(t), median))
  IN
  /\ At(t, "root") /\ Upserting(t) /\ IsLeaf(Root)
  /\ LeafIsFull(pairs) /\ call[t].op = "insert" /\ Key(t) \notin DOMAIN pairs
  /\ Fresh + 1 <= MaxPages
  /\ Change(t, Only(Root, RootNode(<<median>>, <<Fresh + 1, Fresh>>))
              ++ Only(Fresh, Leaf(right)) ++ Only(Fresh + 1, Leaf(left)))
  /\ array' = Only(Fresh, RightArray(pairs, median, Alone(t)))
               ++ Only(Fresh + 1, LeftArray(array[Root], pairs, median, Alone(t))) ++ array
  /\ rootLeaf' = FALSE
  /\ UNCHANGED headerFile

(***************************************************************************)
(* handleRootRootUpsert, with the root shared at first and, when something *)
(* has to be split, once more with the root exclusive.                     *)
(***************************************************************************)
AtRoot(t) == At(t, "root") /\ Upserting(t) /\ ~IsLeaf(Root)
RootIsFull == Len(node[Root].pivots) = RootN

(* Mutant: the target stays locked. *)
KeptByRetryAll(t) == HeldBy(t)

KeptByRetry(t) == {}

Retry(t) ==
  /\ ~exclusiveMode[t]
  /\ exclusiveMode' = [exclusiveMode EXCEPT ![t] = TRUE]
  /\ mode' = [mode EXCEPT ![t] = TRUE]
  /\ Holds(t, {}, KeptByRetry(t))
  /\ Go(t, "pinRoot")
  /\ UNCHANGED <<tree, client, current, accumulated, queue>>

RetryFullRoot(t) == AtRoot(t) /\ RootIsFull /\ Retry(t)

(* splitRootNode: the new children have empty buffers, and the message      *)
(* comes into one of them.                                                  *)
SplitRoot(t) ==
  LET new == RootOfParts(Here(t), Fresh)
      target == ChildOf(new, Key(t))
  IN
  /\ AtRoot(t) /\ RootIsFull /\ exclusiveMode[t]
  /\ Fresh + Parts(Here(t)) - 1 <= MaxPages
  /\ Change(t,
       [p \in {Root} \cup ToSet(new.children) |->
          IF p = Root THEN new
          ELSE LET part == PartOfRoot(Here(t), p - Fresh + 1) IN
               IF p = target THEN [part EXCEPT !.upserts = Alone(t)] ELSE part])
  /\ UNCHANGED <<header, array>>

(* The child is locked exclusively; in shared mode the root is released.    *)
PinTarget(t) ==
  LET target == ChildOf(Here(t), Key(t)) IN
  /\ AtRoot(t) /\ ~RootIsFull
  /\ CanPin(t, target, TRUE)
  /\ Holds(t, {}, IF exclusiveMode[t] THEN {Root, target} ELSE {target})
  /\ current' = [current EXCEPT ![t] = target]
  /\ Go(t, IF node[target] = Zeros THEN "failed" ELSE "target")
  /\ UNCHANGED <<tree, client, exclusiveMode, mode, accumulated, queue>>

(* 1) The target is a leaf. *)
AtLeaf(t) == At(t, "target") /\ IsLeaf(current[t])
LeafMustSplit(t) == call[t].op = "insert" /\ LeafIsFull(Here(t).pairs)

RetryFullLeaf(t) == AtLeaf(t) /\ LeafMustSplit(t) /\ Retry(t)

TargetLeafKeeps(t) ==
  LET pairs == Here(t).pairs IN
  /\ AtLeaf(t) /\ ~LeafMustSplit(t)
  /\ Change(t, Only(current[t], Leaf(Apply(pairs, Alone(t)))))
  /\ array' = Only(current[t], ArrayAfter(array[current[t]], pairs, Alone(t))) ++ array
  /\ UNCHANGED header

(* The leaf is split before the key is looked for.  When the pair is there  *)
(* already, the half that has it is reported clean: a new page then is as   *)
(* empty in the file as createBlock left it; an old one is there as it was  *)
(* before the split, unless its frame was dirty.                            *)
HasPair(t) == ValueIn(Here(t).pairs, Key(t)) = call[t].value

TargetLeafSplits(t) ==
  LET pairs  == Here(t).pairs
      median == LeafMedian(pairs, Alone(t))
      left   == Apply(UpTo(pairs, median), UpTo(Alone(t), median))
      right  == Apply(Above(pairs, median), Above(Alone(t), median))
      i == ChildIndex(node[Root], Key(t))
      inLeft == Key(t) <= median
      new == Only(Root, InsertPivots(node[Root], Only(i, [pivot |-> median, page |-> Fresh])))
               ++ Only(current[t], Leaf(left)) ++ Only(Fresh, Leaf(right))
  IN
  /\ AtLeaf(t) /\ LeafMustSplit(t) /\ exclusiveMode[t]
  /\ Fresh <= MaxPages
  /\ Answer(t, None)
  /\ \/ (HasPair(t) => inLeft) /\ Write(new)
     \/ /\ HasPair(t)
        /\ node' = new ++ node
        /\ stale' = (IF inLeft THEN Only(current[t], Here(t)) ELSE Only(Fresh, Zeros)) ++ stale
  /\ array' = Only(Fresh, RightArray(pairs, median, Alone(t)))
               ++ Only(current[t], LeftArray(array[current[t]], pairs, median, Alone(t))) ++ array
  /\ UNCHANGED header

(* 2) The target is an inner node: the message is squashed with the one     *)
(* about its key, or stored when there is room.                             *)
AtInner(t) == At(t, "target") /\ IsInner(current[t])
Stores(t) ==
  Key(t) \in DOMAIN Here(t).upserts \/ Size(Here(t).upserts) < InnerBN
TargetIsFull(t) == Len(Here(t).pivots) = InnerN

StoreUpsert(t) ==
  /\ AtInner(t) /\ Stores(t)
  /\ Change(t, Only(current[t], [Here(t) EXCEPT !.upserts = MergeUpserts(Alone(t), @)]))
  /\ UNCHANGED <<header, array>>

(* Otherwise the buffer is flushed; a node that has no room for a pivot is  *)
(* split before.                                                            *)
RetryFullTarget(t) == AtInner(t) /\ ~Stores(t) /\ TargetIsFull(t) /\ Retry(t)

Flushes(t, newQueue) ==
  /\ queue' = [queue EXCEPT ![t] = newQueue]
  /\ Holds(t, {}, Pages(newQueue))
  /\ Go(t, "flush")
  /\ UNCHANGED <<client, exclusiveMode, mode, current, accumulated>>

(* while (!queue.empty()) *)
Continue(t, newQueue) ==
  IF newQueue = <<>> THEN Answer(t, None) ELSE Flushes(t, newQueue)

FlushTarget(t) ==
  /\ AtInner(t) /\ ~Stores(t) /\ ~TargetIsFull(t)
  /\ \E removed \in Removed(Here(t), Alone(t)) :
       /\ Write(Only(current[t], Keep(Here(t), Alone(t), removed)))
       /\ Continue(t, Entry(current[t], Restrict(Together(Here(t), Alone(t)), removed)))
  /\ UNCHANGED <<header, array>>

FlushSplitTarget(t) ==
  LET i == ChildIndex(node[Root], Key(t)) IN
  /\ AtInner(t) /\ ~Stores(t) /\ TargetIsFull(t) /\ exclusiveMode[t]
  /\ Fresh <= MaxPages
  /\ \E removed \in Removed(Here(t), Alone(t)) :
     LET kept  == Keep(Here(t), Alone(t), removed)
         pivot == InnerPivot(kept)
         new   == SplitEntries(current[t], Fresh, pivot,
                               Restrict(Together(Here(t), Alone(t)), removed))
     IN
     /\ Write(Only(Root, InsertPivots(node[Root], Only(i, [pivot |-> pivot, page |-> Fresh])))
                ++ Only(current[t], LeftInner(kept)) ++ Only(Fresh, RightInner(kept)))
     /\ Continue(t, new)
  /\ UNCHANGED <<header, array>>

(***************************************************************************)
(* handleTraversalNode for the first node of the queue.  All children with *)
(* messages are locked, in any order; then the messages go into them.      *)
(***************************************************************************)
Flushed(t) == Head(queue[t]).page
ToFlush(t) == Head(queue[t]).messages
IndexOf(t, k) == ChildIndex(node[Flushed(t)], k)
Targets(t) == {IndexOf(t, k) : k \in DOMAIN ToFlush(t)}
Child(t, i) == node[Flushed(t)].children[i]
Addressed(t, i) == Restrict(ToFlush(t), {k \in DOMAIN ToFlush(t) : IndexOf(t, k) = i})
Unlocked(t) == {i \in Targets(t) : access[t][Child(t, i)] = "none"}

PinFlushChild(t, i) ==
  /\ At(t, "flush") /\ i \in Unlocked(t)
  /\ CanPin(t, Child(t, i), TRUE)
  /\ Holds(t, {}, HeldBy(t) \cup {Child(t, i)})
  /\ Go(t, IF node[Child(t, i)] = Zeros THEN "failed" ELSE "flush")
  /\ UNCHANGED <<tree, client, exclusiveMode, mode, current, accumulated, queue>>

Ready(t) == At(t, "flush") /\ Unlocked(t) = {}
LeavesBelow(t) == \A i \in Targets(t) : IsLeaf(Child(t, i))

(* The right halves of the children that are split come on new pages.      *)
Right(split, i) == Fresh + Cardinality({j \in split : j < i})
Split(split, p) == CHOOSE i \in split : Right(split, i) = p
RightPages(split) == Fresh .. Fresh + Cardinality(split) - 1
LeftPages(t) == {Child(t, i) : i \in Targets(t)}
ChildAt(t, p) == CHOOSE i \in Targets(t) : Child(t, i) = p

(* The size of a leaf as the code counts it ahead: of the keys that are     *)
(* there already it recognises the first only.                              *)
FutureSize(pairs, messages) ==
  LET known == {k \in DOMAIN pairs : k = Min(DOMAIN pairs)}
      inserts == {k \in DOMAIN messages : messages[k].type = "insert"}
      deletes == {k \in DOMAIN messages : messages[k].type = "erase"}
  IN Size(pairs) + Cardinality(inserts \ known) - Cardinality(deletes \cap known)

(* Mutant: the sizes in between do not count. *)
NeedsSplitAfterAll(pairs, messages) == FutureSize(pairs, messages) > LeafN + 1

NeedsSplit(pairs, messages) ==
  \E k \in DOMAIN messages : FutureSize(pairs, UpTo(messages, k)) > LeafN

(* The messages for a leaf are applied in the order of their keys, after    *)
(* all leaves were split that need to be.                                   *)
ChangeLeaves(t) ==
  LET pairs(i)  == node[Child(t, i)].pairs
      median(i) == LeafMedian(pairs(i), Addressed(t, i))
      left(i)  == Apply(UpTo(pairs(i), median(i)), UpTo(Addressed(t, i), median(i)))
      right(i) == Apply(Above(pairs(i), median(i)), Above(Addressed(t, i), median(i)))
      new(i, split) == [pivot |-> median(i), page |-> Right(split, i)]
  IN
  /\ \E split \in SUBSET Targets(t) :
     /\ \A i \in Targets(t) : i \in split <=> NeedsSplit(pairs(i), Addressed(t, i))
     /\ RightPages(split) \subseteq 1 .. MaxPages
     /\ Write([p \in RightPages(split) |-> Leaf(right(Split(split, p)))]
                ++ [p \in LeftPages(t) |->
                      LET i == ChildAt(t, p) IN
                      Leaf(IF i \in split THEN left(i) ELSE Apply(pairs(i), Addressed(t, i)))]
                ++ Only(Flushed(t), InsertPivots(node[Flushed(t)], [i \in split |-> new(i, split)])))
     /\ array' = [p \in RightPages(split) |->
                     LET i == Split(split, p) IN RightArray(pairs(i), median(i), Addressed(t, i))]
                  ++ [p \in LeftPages(t) |->
                        LET i == ChildAt(t, p) IN
                        IF i \in split THEN LeftArray(array[p], pairs(i), median(i), Addressed(t, i))
                        ELSE ArrayAfter(array[p], pairs(i), Addressed(t, i))]
                  ++ array
  /\ Continue(t, Tail(queue[t]))
  /\ UNCHANGED header

(* The assertion of BeTree.h:775 compares the key that is inserted with the *)
(* one at its index also where that is behind the last key of the leaf,     *)
(* which may be the key itself, erased before.                              *)
ReadByAssertion(t, i) ==
  LET a == array[Child(t, i)]
      pairs == node[Child(t, i)].pairs
      messages == Addressed(t, i)
      m == LeafMedian(pairs, messages)
  IN IF NeedsSplit(pairs, messages)
     THEN ReadBehind(a, UpTo(pairs, m), UpTo(messages, m))
            \cup ReadBehind(NewArray(Above(pairs, m)), Above(pairs, m), Above(messages, m))
     ELSE ReadBehind(a, pairs, messages)
AssertionOutcomes(t) ==
  LET reads == UNION {ReadByAssertion(t, i) : i \in Targets(t)} IN
  IF \E r \in reads : r[2] = r[1] THEN {FALSE}
  ELSE IF \E r \in reads : r[2] = None /\ r[1] \in Leftovers THEN BOOLEAN
  ELSE {TRUE}

FlushToLeaves(t) ==
  /\ Ready(t) /\ LeavesBelow(t)
  /\ \E holds \in AssertionOutcomes(t) : IF holds THEN ChangeLeaves(t) ELSE Fail(t)

(* A child that is an inner node keeps the messages when its buffer has     *)
(* room.  Else some are removed again, and come into the queue; a child     *)
(* without room for the pivots they may bring is split.                     *)

(* Mutant: one message too many. *)
FitsAlmost(n, messages) == InnerBN - Size(n.upserts) >= Size(messages) - 1

Fits(n, messages) == InnerBN - Size(n.upserts) >= Size(messages)

(* Mutant: a child without room for the pivots is not split. *)
LacksPivotsWhenFull(n, messages) == Len(n.pivots) = InnerN

LacksPivots(n, messages) ==
  InnerN - Len(n.pivots) < Cardinality(Blocks(n, messages))

FlushToInner(t) ==
  LET child(i) == node[Child(t, i)]
      full == {i \in Targets(t) : ~Fits(child(i), Addressed(t, i))}
      choices(i) == Removed(child(i), Addressed(t, i))
  IN
  /\ Ready(t) /\ ~LeavesBelow(t)
  /\ \E removed \in [full -> UNION {choices(i) : i \in full}] :
     LET kept(i) == Keep(child(i), Addressed(t, i), IF i \in full THEN removed[i] ELSE {})
         out(i)  == Restrict(Together(child(i), Addressed(t, i)), removed[i])
         split   == {i \in full : LacksPivots(child(i), out(i))}
         left(i) == IF i \in split THEN LeftInner(kept(i)) ELSE kept(i)
         new(i)  ==
           IF i \in split
           THEN SplitEntries(Child(t, i), Right(split, i), InnerPivot(kept(i)), out(i))
           ELSE IF i \in full THEN Entry(Child(t, i), out(i)) ELSE <<>>
         newQueue == Tail(queue[t]) \o FlattenSeq([i \in 1 .. Max(Targets(t)) |->
                                         IF i \in Targets(t) THEN new(i) ELSE <<>>])
     IN
     /\ \A i \in full : removed[i] \in choices(i)
     /\ RightPages(split) \subseteq 1 .. MaxPages
     /\ Write([p \in RightPages(split) |-> RightInner(kept(Split(split, p)))]
                ++ [p \in LeftPages(t) |-> left(ChildAt(t, p))]
                ++ Only(Flushed(t), InsertPivots(node[Flushed(t)],
                     [i \in split |-> [pivot |-> InnerPivot(kept(i)), page |-> Right(split, i)]])))
     /\ Continue(t, newQueue)
  /\ UNCHANGED <<header, array>>

(***************************************************************************)
(* find descends with shared locks and adds up the updates it meets.       *)
(***************************************************************************)
(* A root that is a leaf is not looked into. *)
FindInRootLeaf(t) ==
  /\ At(t, "root") /\ call[t].op = "find" /\ IsLeaf(Root)
  /\ Answer(t, None)
  /\ UNCHANGED <<tree>>

(* When updates were met, but no value, an assertion fails (BeTree.h:1315). *)
FindChild(t) ==
  LET p == ChildOf(Here(t), Key(t))
      sum == accumulated[t]
      upserts == node[p].upserts
      value == ValueIn(node[p].pairs, Key(t))
      found == IF Key(t) \in DOMAIN upserts THEN upserts[Key(t)].type ELSE "nothing"
  IN
  /\ \/ At(t, "root") /\ call[t].op = "find" /\ ~IsLeaf(Root)
     \/ At(t, "find")
  /\ CanPin(t, p, FALSE)
  /\ IF IsLeaf(p)
     THEN IF value # None THEN Answer(t, value + sum)
          ELSE IF sum = 0 THEN Answer(t, None) ELSE Fail(t)
     ELSE IF node[p] = Zeros THEN Fail(t)
     ELSE CASE found = "insert" -> Answer(t, upserts[Key(t)].value + sum)
            [] found = "erase" -> Answer(t, None)
            [] OTHER ->
                 /\ accumulated' = [accumulated EXCEPT ![t] =
                       @ + IF found = "update" THEN upserts[Key(t)].value ELSE 0]
                 /\ Holds(t, {p}, {})
                 /\ current' = [current EXCEPT ![t] = p]
                 /\ Go(t, "find")
                 /\ UNCHANGED <<client, exclusiveMode, mode, queue>>
  /\ UNCHANGED <<tree>>

(***************************************************************************)
(* The value of a key: the messages on the way down, those in a queue       *)
(* among them, and the pair in the leaf.                                    *)
(***************************************************************************)
InFlight(p) ==
  LET entries == {e \in UNION {ToSet(queue[t]) : t \in Threads} : e.page = p}
  IN IF entries = {} THEN Empty ELSE (CHOOSE e \in entries : TRUE).messages

ValueBelow[p \in 1 .. MaxPages, k \in Nat] ==
  LET n == node[p]
      after(messages, v) == IF k \in DOMAIN messages THEN Effect(messages[k], v) ELSE v
  IN CASE n.type = "leaf"  -> ValueIn(n.pairs, k)
       [] n.type = "root"  -> ValueBelow[ChildOf(n, k), k]
       [] n.type = "inner" ->
            after(n.upserts, after(InFlight(p), ValueBelow[ChildOf(n, k), k]))
       [] n.type = "zeros" -> None

Finding(t) == IF call[t] = None THEN FALSE ELSE call[t].op = "find"
ValueSought == [t \in Threads |-> IF Finding(t) THEN ValueBelow[Root, Key(t)] ELSE None]
Observe ==
  seen' = [t \in Threads |->
             IF ~Finding(t)' THEN {}
             ELSE (IF Finding(t) THEN seen[t] ELSE {}) \cup {ValueSought'[t]}]

(***************************************************************************)
(* The buffer drops pages that nobody holds and reads them from the file   *)
(* when they are needed again; it has saved those that were dirty.         *)
(***************************************************************************)
Dropped(pages) ==
  /\ node' = Restrict(stale, pages) ++ node
  /\ stale' = Restrict(stale, DOMAIN stale \ pages)

Evict ==
  /\ Open /\ Evictions
  /\ \E pages \in SUBSET DOMAIN stale :
       /\ \A p \in pages, t \in Threads : access[t][p] = "none"
       /\ Dropped(pages)
  /\ UNCHANGED <<array, header, access, client, locals>>

(* flush, which writes the header and then the dirty pages, and the end of  *)
(* the tree; then the constructor over the same directory.  Nobody is in a  *)
(* call.                                                                    *)
(* Mutant: the header keeps the time stamp it had when it was created.      *)
HeaderWithoutTime == [rootLeaf |-> rootLeaf, currentTimeStamp |-> 0]

Header == [rootLeaf |-> rootLeaf, currentTimeStamp |-> currentTimeStamp]

Close ==
  /\ Open /\ \A t \in Threads : At(t, "client")
  /\ headerFile' = Header
  /\ Dropped(DOMAIN stale)
  /\ UNCHANGED <<array, rootLeaf, access, client, locals>>

Reopen ==
  /\ ~Open
  /\ rootLeaf' = headerFile.rootLeaf
  /\ currentTimeStamp' = headerFile.currentTimeStamp
  /\ headerFile' = None
  /\ UNCHANGED <<node, array, stale, access, call, answer, message, calls, loaded, locals>>

(***************************************************************************)
(* The next-state relation.                                                *)
(***************************************************************************)
Steps(t) ==
  \/ ReadHeader(t) \/ PinRoot(t) \/ RootLeafKeeps(t) \/ RootLeafSplits(t)
  \/ RetryFullRoot(t) \/ SplitRoot(t) \/ PinTarget(t)
  \/ RetryFullLeaf(t) \/ TargetLeafKeeps(t) \/ TargetLeafSplits(t)
  \/ StoreUpsert(t) \/ RetryFullTarget(t) \/ FlushTarget(t) \/ FlushSplitTarget(t)
  \/ (\E i \in 1 .. InnerN + 1 : PinFlushChild(t, i))
  \/ FlushToLeaves(t) \/ FlushToInner(t)
  \/ FindInRootLeaf(t) \/ FindChild(t)

Next ==
  /\ \A t \in Threads : ~At(t, "failed")
  /\ \/ Evict \/ Close \/ Reopen
     \/ \E t \in Threads :
          \/ Steps(t)
          \/ Load(t)
          \/ \E n \in DOMAIN Operations[t] : \E c \in Operations[t][n] : Call(t, c)
  /\ Observe

Spec == Init /\ [][Next]_vars

(* Scheduling: a thread inside a call is not delayed for ever. *)
FairSpec == Spec /\ \A t \in Threads : WF_state(Steps(t))

(***************************************************************************)
(* Properties.                                                             *)
(***************************************************************************)
AllPages == 1 .. MaxPages
IsMessages(f, n) ==
  Size(f) <= n /\ DOMAIN f \subseteq Keys /\ Range(f) \subseteq Messages(Nat, Nat)
IsNode(n) ==
  CASE n.type = "leaf" ->
         Size(n.pairs) <= LeafN /\ DOMAIN n.pairs \subseteq Keys /\ Range(n.pairs) \subseteq Nat
    [] n.type = "inner" ->
         Len(n.pivots) <= InnerN /\ Len(n.children) = Len(n.pivots) + 1 /\ IsMessages(n.upserts, InnerBN)
    [] n.type = "root" ->
         Len(n.pivots) \in 1 .. RootN /\ Len(n.children) = Len(n.pivots) + 1
    [] n.type = "zeros" -> TRUE

(* Types of the variables; nodes are not larger than their arrays. *)
TypeOK ==
  /\ Created = 1 .. Cardinality(Created) /\ Created \subseteq AllPages
  /\ \A p \in Created : IsNode(node[p])
  /\ rootLeaf \in BOOLEAN /\ currentTimeStamp \in Nat
  /\ DOMAIN stale \subseteq Created
  /\ access \in [Threads -> [AllPages -> {"none", "read", "write"}]]
  /\ pc \in [Threads -> {"client", "header", "pinRoot", "root", "target", "flush", "find", "failed"}]
  /\ exclusiveMode \in [Threads -> BOOLEAN] /\ mode \in [Threads -> BOOLEAN]
  /\ current \in [Threads -> Created \cup {None}]
  /\ \A t \in Threads : \A e \in ToSet(queue[t]) :
       e.page \in Created /\ IsMessages(e.messages, MAX_FLUSH_SIZE)

Children(n) == IF n.type = "leaf" THEN {} ELSE ToSet(n.children)
KeysBelow[p \in Created] ==
  LET n == node[p] IN
  CASE n.type = "leaf"  -> DOMAIN n.pairs
    [] n.type = "root"  -> UNION {KeysBelow[q] : q \in Children(n)}
    [] n.type = "inner" ->
         DOMAIN n.upserts \cup DOMAIN InFlight(p) \cup UNION {KeysBelow[q] : q \in Children(n)}
Height[p \in Created] == IF IsLeaf(p) THEN 0 ELSE 1 + Height[node[p].children[1]]

(* Between any two steps of any threads the pages form a search tree: every *)
(* page but the root is the child of one node, all leaves are equally deep, *)
(* and the pairs, the buffered messages and those on their way to a child   *)
(* are about keys between the pivots around it.                             *)
SearchTree ==
  /\ \A p \in Created :
       Cardinality({q \in Created : p \in Children(node[q])}) = IF p = Root THEN 0 ELSE 1
  /\ \A p \in Created : ~IsLeaf(p) =>
       LET n == node[p] IN
       /\ \A i, j \in DOMAIN n.pivots : i < j => n.pivots[i] < n.pivots[j]
       /\ \A q \in Children(n) : Height[q] + 1 = Height[p]
       /\ \A i \in DOMAIN n.children : \A k \in KeysBelow[n.children[i]] : ChildIndex(n, k) = i

(* A page that is dropped, or saved when the tree is closed, is read again  *)
(* as it was: unpinPage was told of every change (unpinPage(.., false) of   *)
(* handleRootRootUpsert, where an insert finds its pair in the leaf).       *)
NothingForgotten == [][Evict \/ Close => node' = node]_vars

(* A node that is about to be flushed to its children has room for the      *)
(* pivots of all of them that might be split (the assertion of              *)
(* BeTree.h:418), although nodes are split, or not, one level ahead.        *)
RoomForPivots ==
  \A t \in Threads : \A e \in ToSet(queue[t]) :
    Cardinality(Blocks(node[e.page], e.messages)) <= InnerN - Len(node[e.page].pivots)

(* Messages applied to a leaf one after the other never need a slot more    *)
(* than there are (the assertion of BeTree.h:774), although the code splits *)
(* leaves by an estimate of their size, at a median of keys and messages.   *)
RoomForPairs ==
  LET fits(pairs, messages) ==
        \A k \in DOMAIN messages : Size(Apply(pairs, UpTo(messages, k))) <= LeafN
  IN \A t \in Threads : At(t, "flush") /\ LeavesBelow(t) =>
       \A i \in Targets(t) :
         LET pairs  == node[Child(t, i)].pairs
             m      == Addressed(t, i)
             median == LeafMedian(pairs, m)
         IN IF NeedsSplit(pairs, m)
            THEN /\ fits(UpTo(pairs, median), UpTo(m, median))
                 /\ fits(Above(pairs, median), Above(m, median))
            ELSE fits(pairs, m)

(* header.rootLeaf is read without a lock and may be out of date when the   *)
(* root is pinned, yet a root that is a leaf is never changed by a thread   *)
(* that has it shared (the assertion of BeTree.h:1189).                     *)
RootLeafExclusive ==
  \A t \in Threads :
    At(t, "root") /\ Upserting(t) /\ IsLeaf(Root) => access[t][Root] = "write" /\ rootLeaf

(* "does nothing if K does not exist" (update, BeTree.h:247): find never    *)
(* meets updates without a value to apply them to.                          *)
FindsNeverFail == \A t \in Threads : ~At(t, "failed")

(* "note: if K already exists, it will get overwritten" (insert,            *)
(* BeTree.h:244), for good: a flush moves messages down the tree, but no    *)
(* key has another value after it.                                          *)
Values == [k \in Keys |-> ValueBelow[Root, k]]
FlushesKeepValues ==
  [][\A t \in Threads : At(t, "flush") /\ queue'[t] # queue[t] => Values' = Values]_vars

(* "saves the betree" (flush, BeTree.h:255): nothing but an operation       *)
(* changes the value of a key, neither an eviction nor a restart.           *)
OnlyCallsChangeValues == [][call' = call /\ queue' = queue => Values' = Values]_vars

(* Every operation is answered. *)
EveryCallAnswered == \A t \in Threads : pc[t] # "client" ~> pc[t] = "client"

(* The tree is a map.  insert, update and erase take effect when their      *)
(* message is in the tree; the thread may have to flush before it returns.  *)
Stored(t) == At(t, "flush")
Map == INSTANCE ConcurrentMap WITH
  Absent <- None,
  map <- Values,
  call <- [t \in Threads |-> IF Stored(t) THEN None ELSE call[t]],
  answer <- [t \in Threads |-> IF Stored(t) THEN None ELSE answer[t]]

ImplementsMap == Map!ConcurrentSpec
=============================================================================
