------------------------------- MODULE BTree -------------------------------
(***************************************************************************)
(* The B-tree of src/src/btree/BTree.h, used by several threads at once.   *)
(* Pages are those of the page buffer as PageStore promises them: contents *)
(* under one readers-writer lock per page.  A step of a thread is what it  *)
(* does between two locks it may have to wait for; the pages it creates    *)
(* are nobody else's until the parent that names them is released.         *)
(*                                                                         *)
(* insert first descends with shared locks and, when it meets a full leaf, *)
(* once more with exclusive ones, splitting every full node on its way.    *)
(***************************************************************************)
EXTENDS NodeArrays, Sequences

CONSTANTS
  Threads,
  Keys,          \* a finite set of naturals
  LeafN,         \* LEAF_N: pairs in a leaf
  InnerN,        \* INNER_N: pivots of an inner node
  MaxPages,      \* bound: pages
  None,
  Evictions,     \* whether the buffer is smaller than the tree
  Preload,       \* the keys inserted before the threads start
  Operations     \* bound: the n-th call of thread t is in Operations[t][n],
                 \* a record of op, key and value

ASSUME SizesAssumption ==
  /\ LeafN \in Nat \ {0, 1}
  /\ InnerN \in Nat \ {0, 1} /\ InnerN % 2 = 1
ASSUME KeysAssumption == Keys \subseteq Nat /\ Preload \in Seq(Keys)
ASSUME PagesAssumption == MaxPages \in Nat \ {0}

CallType == [op : {"insert", "update", "erase", "find"}, key : Keys, value : Nat]
ASSUME ThreadsAssumption == None \notin Threads \cup Nat \cup CallType
ASSUME OperationsAssumption ==
  \A t \in Threads : \A n \in DOMAIN Operations[t] : Operations[t][n] \subseteq CallType

VARIABLES
  \* the pages and the header; the header in the file while the tree is closed
  \* (else None: flush writes it again before it is read)
  node, leafRoot, headerFile, access,
  \* the operation of a thread, and what it answered
  call, answer,
  \* its locals: exclusiveMode, the mode in which it pins the root, the page it
  \* looks at, the page above it while that is still held, keyIt and keyIndex
  pc, exclusiveMode, mode, current, parent, keyIt, keyIndex,
  \* history: others have taken the frame of the page keyIt points into
  taken,
  \* history: calls so far, and keys that were preloaded
  calls, loaded

header == <<leafRoot, headerFile>>
tree   == <<node, header>>
client == <<call, answer, calls, loaded>>
search == <<keyIt, keyIndex, taken>>
locals == <<pc, exclusiveMode, mode, current, parent, search>>
vars   == <<tree, access, client, locals>>

(***************************************************************************)
(* Nodes.                                                                  *)
(***************************************************************************)
Unset == 0
Leaf(size, keys, values) ==
  [leaf |-> TRUE, size |-> size, keys |-> keys, values |-> values]
Inner(size, pivots, children) ==
  [leaf |-> FALSE, size |-> size, pivots |-> pivots, children |-> children]

EmptyLeaf == Leaf(0, [i \in 1 .. LeafN |-> Unset], [i \in 1 .. LeafN |-> Unset])

Root == 1
Created == DOMAIN node
Fresh == Cardinality(Created) + 1

(* Mutant: a node is full when it no longer fits into its page. *)
FullTooLate(n) == n.size > IF n.leaf THEN LeafN ELSE InnerN

Full(n) == n.size = IF n.leaf THEN LeafN ELSE InnerN

ChildIndex(n, k) == LowerBound(n.pivots, n.size, k)
ChildOf(n, k) == n.children[ChildIndex(n, k)]
HasKey(n, k) == Contains(n.keys, n.size, k)
ValueIn(n, k) ==
  IF HasKey(n, k) THEN n.values[LowerBound(n.keys, n.size, k)] ELSE None

(* splitLeafNode and splitInnerNode: the two halves, and the pivot.         *)
(* splitIndex counts from 0 in the code.                                    *)
SplitIndex(n) == (n.size - 1) \div 2 + 1
(* Mutant: the pairs that moved to the right are cleared in the left leaf.   *)
LeftLeafCleared(n) ==
  LET kept == 1 .. n.size - n.size \div 2
  IN Leaf(n.size - n.size \div 2,
          [i \in 1 .. LeafN |-> IF i \in kept THEN n.keys[i] ELSE Unset],
          [i \in 1 .. LeafN |-> IF i \in kept THEN n.values[i] ELSE Unset])

LeftLeaf(n) == [n EXCEPT !.size = @ - @ \div 2]
RightLeaf(n) ==
  Leaf(n.size \div 2, Tails(n.keys, SplitIndex(n), n.size, Unset),
       Tails(n.values, SplitIndex(n), n.size, Unset))
LeafPivot(n) == n.keys[SplitIndex(n)]

(* Mutant: the left node keeps the pivot that moves up. *)
LeftInnerWithPivot(n) == [n EXCEPT !.size = @ - @ \div 2]

LeftInner(n) == [n EXCEPT !.size = @ - @ \div 2 - 1]
RightInner(n) ==
  Inner(n.size \div 2, Tails(n.pivots, SplitIndex(n), n.size, Unset),
        Tails(n.children, SplitIndex(n), n.size + 1, Unset))
InnerPivot(n) == n.pivots[SplitIndex(n)]

Left(n)  == IF n.leaf THEN LeftLeaf(n) ELSE LeftInner(n)
Right(n) == IF n.leaf THEN RightLeaf(n) ELSE RightInner(n)
Pivot(n) == IF n.leaf THEN LeafPivot(n) ELSE InnerPivot(n)

(* The parent with the pivot at index i and the new page behind it. *)
WithPivot(n, i, pivot, page) ==
  Inner(n.size + 1, InsertAt(n.pivots, n.size, i, pivot),
        InsertAt(n.children, n.size + 1, i + 1, page))

NewRoot(pivot, left, right) ==
  Inner(1, [i \in 1 .. InnerN |-> IF i = 1 THEN pivot ELSE Unset],
        [i \in 1 .. InnerN + 1 |->
           IF i = 1 THEN left ELSE IF i = 2 THEN right ELSE Unset])

WithValue(n, i, v) == [n EXCEPT !.values[i] = v]
WithPair(n, i, k, v) ==
  Leaf(n.size + 1, InsertAt(n.keys, n.size, i, k), InsertAt(n.values, n.size, i, v))
WithoutPair(n, i) ==
  Leaf(n.size - 1, EraseAt(n.keys, n.size, i), EraseAt(n.values, n.size, i))

(***************************************************************************)
(* Page locks.                                                             *)
(***************************************************************************)
Mode(exclusive) == IF exclusive THEN "write" ELSE "read"
CanPin(t, p, exclusive) ==
  \A u \in Threads \ {t} :
    /\ access[u][p] # "write"
    /\ exclusive => access[u][p] = "none"

(* The pages thread t holds afterwards, as a function of their modes. *)
Holds(t, held) ==
  access' = [access EXCEPT ![t] =
               [p \in 1 .. MaxPages |-> IF p \in DOMAIN held THEN held[p] ELSE "none"]]
Nothing == [p \in {} |-> "none"]
Only(p, m) == [q \in {p} |-> m]

(* Thread t pins page p, for which the buffer takes the frame of any page   *)
(* nobody has pinned: also of the half that another thread has released     *)
(* after a split and still reads through keyIt.                             *)
Released(u) == pc[u] = "write" /\ \A v \in Threads : access[v][keyIt[u][1]] = "none"
TakesFrame(t, p) ==
  taken' = [u \in Threads |->
              taken[u] \/ (Evictions /\ u # t /\ Released(u) /\ keyIt[u][1] # p)]

Init ==
  /\ node = [p \in {Root} |-> EmptyLeaf]
  /\ leafRoot = TRUE
  /\ headerFile = None
  /\ access = [t \in Threads |-> [p \in 1 .. MaxPages |-> "none"]]
  /\ call = [t \in Threads |-> None]
  /\ answer = [t \in Threads |-> None]
  /\ pc = [t \in Threads |-> "client"]
  /\ exclusiveMode = [t \in Threads |-> FALSE]
  /\ mode = [t \in Threads |-> FALSE]
  /\ current = [t \in Threads |-> None]
  /\ parent = [t \in Threads |-> None]
  /\ keyIt = [t \in Threads |-> None]
  /\ keyIndex = [t \in Threads |-> None]
  /\ taken = [t \in Threads |-> FALSE]
  /\ calls = [t \in Threads |-> 0]
  /\ loaded = 0

Open == headerFile = None
At(t, label) == pc[t] = label
Go(t, label) == pc' = [pc EXCEPT ![t] = label]
Op(t) == call[t].op
Key(t) == call[t].key
Here(t) == node[current[t]]

(***************************************************************************)
(* Calls and answers.                                                      *)
(***************************************************************************)
Begin(t, c) ==
  /\ At(t, "client") /\ Open
  /\ call' = [call EXCEPT ![t] = c]
  /\ mode' = [mode EXCEPT ![t] = FALSE]
  /\ Go(t, IF c.op = "insert" THEN "header" ELSE "root")
  /\ UNCHANGED <<tree, access, answer, exclusiveMode, current, parent, search>>

Loading == \E u \in Threads : calls[u] = 0 /\ ~At(u, "client")

Call(t, c) ==
  /\ ~Loading
  /\ calls[t] < Len(Operations[t]) /\ c \in Operations[t][calls[t] + 1]
  /\ calls' = [calls EXCEPT ![t] = @ + 1]
  /\ Begin(t, c)
  /\ UNCHANGED loaded

(* The tree the threads find: the first keys of Preload, as many as they    *)
(* like, which one of them inserted before.                                 *)
Load(t) ==
  /\ loaded < Len(Preload)
  /\ \A u \in Threads : At(u, "client") /\ calls[u] = 0
  /\ t = CHOOSE u \in Threads : TRUE
  /\ loaded' = loaded + 1
  /\ Begin(t, [op |-> "insert", key |-> Preload[loaded + 1], value |-> 1])
  /\ UNCHANGED calls

Answer(t, result) ==
  /\ call' = [call EXCEPT ![t] = None]
  /\ answer' = [answer EXCEPT ![t] = result]
  /\ exclusiveMode' = [exclusiveMode EXCEPT ![t] = FALSE]
  /\ mode' = [mode EXCEPT ![t] = FALSE]
  /\ current' = [current EXCEPT ![t] = None]
  /\ parent' = [parent EXCEPT ![t] = None]
  /\ keyIt' = [keyIt EXCEPT ![t] = None]
  /\ keyIndex' = [keyIndex EXCEPT ![t] = None]
  /\ taken' = [taken EXCEPT ![t] = FALSE]
  /\ Go(t, "client")
  /\ Holds(t, Nothing)
  /\ UNCHANGED <<calls, loaded>>

(***************************************************************************)
(* The root.  insert reads header.leafRoot, without a lock, to choose the  *)
(* mode in which it pins the root.                                         *)
(***************************************************************************)
(* Mutant: a root that is a leaf is pinned shared. *)
ModeOfRootShared(t) == FALSE

ModeOfRoot(t) == leafRoot

ReadHeader(t) ==
  /\ At(t, "header")
  /\ mode' = [mode EXCEPT ![t] = ModeOfRoot(t)]
  /\ Go(t, "root")
  /\ UNCHANGED <<tree, access, client, exclusiveMode, current, parent, search>>

PinRoot(t) ==
  /\ At(t, "root")
  /\ CanPin(t, Root, mode[t])
  /\ Holds(t, Only(Root, Mode(mode[t])))
  /\ TakesFrame(t, Root)
  /\ current' = [current EXCEPT ![t] = Root]
  /\ Go(t, IF node[Root].leaf THEN "leaf"
           ELSE IF exclusiveMode[t] THEN "inner" ELSE "descend")
  /\ UNCHANGED <<tree, client, exclusiveMode, mode, parent, keyIt, keyIndex>>

(* Mutant: the root is not unpinned before it is pinned again. *)
HeldByRepinRoot(t) == Only(Root, "read")

(* update and erase pin a root that is a leaf once more, exclusively. *)
HeldByRepin(t) == Nothing

RepinRoot(t) ==
  /\ At(t, "leaf") /\ current[t] = Root
  /\ Op(t) \in {"update", "erase"} /\ ~mode[t]
  /\ mode' = [mode EXCEPT ![t] = TRUE]
  /\ Holds(t, HeldByRepin(t))
  /\ Go(t, "root")
  /\ UNCHANGED <<tree, client, exclusiveMode, current, parent, search>>

(***************************************************************************)
(* One level down.  insert locks leaves exclusively and, in exclusive      *)
(* mode, every node; update and erase lock leaves exclusively; find locks  *)
(* nothing exclusively.  The parent is released after the child is locked, *)
(* in exclusive mode not before the child is known not to split.           *)
(***************************************************************************)
(* Mutant: leaves are locked shared on the first descent. *)
ChildModeShared(t, p) == exclusiveMode[t]

ChildMode(t, p) ==
  exclusiveMode[t] \/ (Op(t) # "find" /\ node[p].leaf)

PinChild(t) ==
  LET p == ChildOf(Here(t), Key(t)) IN
  /\ At(t, "descend")
  /\ CanPin(t, p, ChildMode(t, p))
  /\ TakesFrame(t, p)
  /\ IF exclusiveMode[t]
     THEN /\ Holds(t, [q \in {current[t], p} |-> "write"])
          /\ parent' = [parent EXCEPT ![t] = current[t]]
     ELSE /\ Holds(t, Only(p, Mode(ChildMode(t, p))))
          /\ UNCHANGED parent
  /\ current' = [current EXCEPT ![t] = p]
  /\ Go(t, IF node[p].leaf THEN "leaf"
           ELSE IF exclusiveMode[t] THEN "inner" ELSE "descend")
  /\ UNCHANGED <<tree, client, exclusiveMode, mode, keyIt, keyIndex>>

(***************************************************************************)
(* insert in exclusive mode: an inner node that is not full lets the       *)
(* parent go, a full one is split, and the half for the key is kept.       *)
(***************************************************************************)
(* Mutant: no inner node is ever split. *)
HasRoomAlways(t) == TRUE

HasRoom(t) == ~Full(Here(t))

Passes(t) ==
  /\ At(t, "inner")
  /\ HasRoom(t)
  /\ Holds(t, Only(current[t], "write"))
  /\ parent' = [parent EXCEPT ![t] = None]
  /\ Go(t, "descend")
  /\ UNCHANGED <<tree, client, exclusiveMode, mode, current, search>>

(* The half of a split node, now in pages left and right, that gets key k.  *)
Half(k, pivot, left, right) == IF k <= pivot THEN left ELSE right

(* Split a node that has a parent. *)
SplitChild(t) ==
  LET n == Here(t)
      i == ChildIndex(node[parent[t]], Key(t))
  IN
  /\ Fresh <= MaxPages
  /\ node' = [p \in Created \cup {Fresh} |->
                IF p = current[t] THEN Left(n)
                ELSE IF p = Fresh THEN Right(n)
                ELSE IF p = parent[t]
                THEN WithPivot(node[p], i, Pivot(n), Fresh)
                ELSE node[p]]
  /\ current' = [current EXCEPT ![t] = Half(Key(t), Pivot(n), @, Fresh)]
  /\ parent' = [parent EXCEPT ![t] = None]
  /\ Holds(t, Only(current'[t], "write"))
  /\ TakesFrame(t, Fresh)

(* Split the root: its contents move to a new page, so that its id stays.   *)
SplitRoot(t) ==
  LET n == Here(t) IN
  /\ Fresh + 1 <= MaxPages
  /\ node' = [p \in Created \cup {Fresh, Fresh + 1} |->
                IF p = Root THEN NewRoot(Pivot(n), Fresh + 1, Fresh)
                ELSE IF p = Fresh THEN Right(n)
                ELSE IF p = Fresh + 1 THEN Left(n)
                ELSE node[p]]
  /\ current' = [current EXCEPT ![t] = Half(Key(t), Pivot(n), Fresh + 1, Fresh)]
  /\ Holds(t, Only(current'[t], "write"))
  /\ TakesFrame(t, Fresh)
  /\ UNCHANGED parent

SplitInner(t) ==
  /\ At(t, "inner")
  /\ ~HasRoom(t)
  /\ \/ parent[t] = None /\ SplitRoot(t)
     \/ parent[t] # None /\ SplitChild(t)
  /\ Go(t, "descend")
  /\ UNCHANGED <<header, client, exclusiveMode, mode, keyIt, keyIndex>>

(***************************************************************************)
(* insert at a leaf.                                                       *)
(***************************************************************************)
AtLeaf(t) == At(t, "leaf") /\ Op(t) = "insert"
InRoot(t) == current[t] = Root
IndexOfKey(t) == LowerBound(Here(t).keys, Here(t).size, Key(t))

(* A full leaf below the root: try again in exclusive mode. *)
RetryExclusive(t) ==
  /\ AtLeaf(t) /\ ~InRoot(t)
  /\ Full(Here(t)) /\ ~exclusiveMode[t]
  /\ exclusiveMode' = [exclusiveMode EXCEPT ![t] = TRUE]
  /\ mode' = [mode EXCEPT ![t] = TRUE]
  /\ Holds(t, Nothing)
  /\ Go(t, "root")
  /\ UNCHANGED <<tree, client, current, parent, search>>

(* Where the key is or belongs in the leaf, and the iterator to it. *)
Searched(t, page, i, j) ==
  /\ keyIt' = [keyIt EXCEPT ![t] = <<page, i>>]
  /\ keyIndex' = [keyIndex EXCEPT ![t] = j]

(* The leaf has room, or it is the root and contains the key. *)
KeepLeaf(t) ==
  /\ AtLeaf(t)
  /\ ~Full(Here(t)) \/ (InRoot(t) /\ HasKey(Here(t), Key(t)))
  /\ Searched(t, current[t], IndexOfKey(t), IndexOfKey(t))
  /\ Holds(t, Only(current[t], access[t][current[t]]))
  /\ parent' = [parent EXCEPT ![t] = None]
  /\ Go(t, "write")
  /\ UNCHANGED <<tree, client, exclusiveMode, mode, current, taken>>

(* After the split keyIt still points into the old leaf, which is released  *)
(* when the key belongs to the new one; below the root keyIt is read later. *)
SplitLeaf(t) ==
  LET i == IndexOfKey(t)
      j == IF Key(t) <= Pivot(Here(t)) THEN i ELSE i - LeftLeaf(Here(t)).size
  IN
  /\ AtLeaf(t) /\ Full(Here(t))
  /\ IF InRoot(t)
     THEN /\ ~HasKey(Here(t), Key(t))
          /\ SplitRoot(t)
          /\ leafRoot' = FALSE
          /\ UNCHANGED headerFile
          /\ Searched(t, current'[t], j, j)
     ELSE /\ exclusiveMode[t]
          /\ SplitChild(t)
          /\ UNCHANGED header
          /\ Searched(t, current[t], i, j)
  /\ Go(t, "write")
  /\ UNCHANGED <<client, exclusiveMode, mode>>

(* The key keyIt points to.  Once its page is released, its frame may hold  *)
(* another page, or one that is being set up, when a thread has pinned one  *)
(* since or is on its way to.                                               *)
FirstArray(n) == IF n.leaf THEN n.keys ELSE n.pivots
Pinning(u, p) ==
  \/ pc[u] = "root"
  \/ pc[u] = "descend" /\ ChildOf(Here(u), Key(u)) # p
  \/ (pc[u] = "inner" \/ AtLeaf(u)) /\ Full(Here(u))
FrameTaken(t) ==
  /\ Evictions /\ access[t][keyIt[t][1]] = "none"
  /\ \/ taken[t]
     \/ Released(t) /\ \E u \in Threads \ {t} : Pinning(u, keyIt[t][1])
KeysAtIt(t) ==
  LET p == keyIt[t][1]
      pages == IF FrameTaken(t) THEN Created ELSE {p}
  IN {FirstArray(node[q])[keyIt[t][2]] :
        q \in {r \in pages : keyIt[t][2] \in DOMAIN FirstArray(node[r])}}
     \cup (IF FrameTaken(t) THEN {Unset} ELSE {})

Overwrite(t) ==
  /\ At(t, "write")
  /\ keyIndex[t] <= Here(t).size
  /\ Key(t) \in KeysAtIt(t)
  /\ node' = [node EXCEPT ![current[t]] = WithValue(@, keyIndex[t], call[t].value)]
  /\ Answer(t, None)
  /\ UNCHANGED header

(* Mutant: the pair is inserted although the key is there. *)
AddAlways(t) == TRUE

KeyIsNew(t) ==
  keyIndex[t] > Here(t).size \/ KeysAtIt(t) # {Key(t)}

Add(t) ==
  /\ At(t, "write")
  /\ KeyIsNew(t)
  /\ node' = [node EXCEPT ![current[t]] =
                WithPair(@, keyIndex[t], Key(t), call[t].value)]
  /\ Answer(t, None)
  /\ UNCHANGED header

(***************************************************************************)
(* update, erase and find at the leaf.                                     *)
(***************************************************************************)
AtUnique(t) == At(t, "leaf") /\ (InRoot(t) => mode[t])

UpdateLeaf(t) ==
  /\ AtUnique(t) /\ Op(t) = "update"
  /\ node' = IF HasKey(Here(t), Key(t))
             THEN [node EXCEPT ![current[t]] =
                     WithValue(@, IndexOfKey(t), @.values[IndexOfKey(t)] + call[t].value)]
             ELSE node
  /\ Answer(t, None)
  /\ UNCHANGED header

EraseLeaf(t) ==
  /\ AtUnique(t) /\ Op(t) = "erase"
  /\ node' = IF HasKey(Here(t), Key(t))
             THEN [node EXCEPT ![current[t]] = WithoutPair(@, IndexOfKey(t))]
             ELSE node
  /\ Answer(t, None)
  /\ UNCHANGED header

FindLeaf(t) ==
  /\ At(t, "leaf") /\ Op(t) = "find"
  /\ Answer(t, ValueIn(Here(t), Key(t)))
  /\ UNCHANGED tree

(***************************************************************************)
(* flush, which writes the header and then the pages, and the end of the   *)
(* tree; then the constructor over the same directory.  Nobody is in a     *)
(* call.                                                                   *)
(***************************************************************************)
Close ==
  /\ Open /\ \A t \in Threads : At(t, "client")
  /\ headerFile' = [leafRoot |-> leafRoot]
  /\ UNCHANGED <<node, leafRoot, access, client, locals>>

Reopen ==
  /\ ~Open
  /\ leafRoot' = headerFile.leafRoot
  /\ headerFile' = None
  /\ UNCHANGED <<node, access, client, locals>>

(***************************************************************************)
(* The next-state relation.                                                *)
(***************************************************************************)
Steps(t) ==
  \/ ReadHeader(t) \/ PinRoot(t) \/ RepinRoot(t) \/ PinChild(t)
  \/ Passes(t) \/ SplitInner(t)
  \/ RetryExclusive(t) \/ KeepLeaf(t) \/ SplitLeaf(t) \/ Overwrite(t) \/ Add(t)
  \/ UpdateLeaf(t) \/ EraseLeaf(t) \/ FindLeaf(t)

Next ==
  \/ Close \/ Reopen
  \/ \E t \in Threads :
       \/ Steps(t)
       \/ Load(t)
       \/ \E n \in DOMAIN Operations[t] : \E c \in Operations[t][n] : Call(t, c)

Spec == Init /\ [][Next]_vars

(* Scheduling: a thread inside a call is not delayed for ever. *)
FairSpec == Spec /\ \A t \in Threads : WF_vars(Steps(t))

(***************************************************************************)
(* Properties.                                                             *)
(***************************************************************************)
Pages == 1 .. MaxPages

LeafType ==
  [leaf : {TRUE}, size : 0 .. LeafN, keys : [1 .. LeafN -> Nat],
   values : [1 .. LeafN -> Nat]]
InnerType ==
  [leaf : {FALSE}, size : 1 .. InnerN, pivots : [1 .. InnerN -> Nat],
   children : [1 .. InnerN + 1 -> Nat]]

(* Types of the variables. *)
TypeOK ==
  /\ Created = 1 .. Cardinality(Created) /\ Created \subseteq Pages
  /\ \A p \in Created : node[p] \in LeafType \cup InnerType
  /\ leafRoot \in BOOLEAN
  /\ access \in [Threads -> [Pages -> {"none", "read", "write"}]]
  /\ pc \in [Threads -> {"client", "header", "root", "descend", "inner", "leaf", "write"}]
  /\ exclusiveMode \in [Threads -> BOOLEAN] /\ mode \in [Threads -> BOOLEAN]
  /\ current \in [Threads -> Created \cup {None}]
  /\ parent \in [Threads -> Created \cup {None}]
  /\ keyIndex \in [Threads -> 1 .. LeafN + 1 \cup {None}]
  /\ taken \in [Threads -> BOOLEAN]

Children(n) == IF n.leaf THEN {} ELSE {n.children[i] : i \in 1 .. n.size + 1}

(* The leaf to which a search for k comes, the keys below a page, and the   *)
(* height of a page.                                                        *)
LeafFor[p \in Created] ==
  [k \in Nat |-> IF node[p].leaf THEN p ELSE LeafFor[ChildOf(node[p], k)][k]]
KeysBelow[p \in Created] ==
  IF node[p].leaf THEN {node[p].keys[i] : i \in 1 .. node[p].size}
  ELSE UNION {KeysBelow[q] : q \in Children(node[p])}
Height[p \in Created] ==
  IF node[p].leaf THEN 0 ELSE 1 + Height[node[p].children[1]]

Increasing(a, n) == \A i \in 1 .. n - 1 : a[i] < a[i + 1]

(* Between any two steps of any threads the pages form a search tree: every *)
(* page but the root is the child of one node, all leaves are equally deep, *)
(* and the keys below a child lie between the pivots around it.  A split    *)
(* changes three or four pages, and other threads are on their way.         *)
SearchTree ==
  /\ \A p \in Created :
       /\ Cardinality({q \in Created : p \in Children(node[q])}) = IF p = Root THEN 0 ELSE 1
       /\ ~node[p].leaf =>
            /\ Increasing(node[p].pivots, node[p].size)
            /\ Cardinality(Children(node[p])) = node[p].size + 1
            /\ \A q \in Children(node[p]) : Height[q] + 1 = Height[p]
  /\ \A p \in Created : ~node[p].leaf =>
       \A i \in 1 .. node[p].size + 1 : \A k \in KeysBelow[node[p].children[i]] :
         /\ i > 1 => node[p].pivots[i - 1] < k
         /\ i <= node[p].size => k <= node[p].pivots[i]

(* "note: if K already exists, it will get overwritten", BTree.h:73: no     *)
(* leaf contains a key twice.                                               *)
KeysUnique ==
  \A p \in Created : node[p].leaf => Increasing(node[p].keys, node[p].size)

(* What an insert reads through keyIt tells whether its leaf contains the   *)
(* key, so that it overwrites the pair of that key or adds a new one.  It   *)
(* fails when the leaf was split, keyIt points to the half that was         *)
(* released, and others have used that page or its frame by the time keyIt  *)
(* is read (BTree.h:252).                                                   *)
SeesItsKey ==
  \A t \in Threads :
    At(t, "write") /\ keyIndex[t] <= Here(t).size =>
      IF HasKey(Here(t), Key(t)) THEN KeysAtIt(t) = {Key(t)} ELSE Key(t) \notin KeysAtIt(t)

(* A node is never split under a parent without room for the pivot (the     *)
(* assertion of BTree.h:184), although the parent was looked at before its  *)
(* child was locked: the arrays would overflow.                             *)
RoomForPivot ==
  \A t \in Threads : exclusiveMode[t] /\ pc[t] = "descend" => Here(t).size < InnerN

(* header.leafRoot is read without a lock and may be out of date when the   *)
(* root is pinned, yet a root that is a leaf is never changed by a thread   *)
(* that has it shared (the assertion of BTree.h:467).                       *)
RootLeafExclusive ==
  \A t \in Threads :
    AtLeaf(t) /\ InRoot(t) => access[t][Root] = "write" /\ leafRoot

(* Every operation is answered. *)
EveryCallAnswered == \A t \in Threads : pc[t] # "client" ~> pc[t] = "client"

(* The tree is a map: every operation takes effect at one moment between    *)
(* its call and its answer, and find answers what the map holds then.       *)
Map == INSTANCE KeyValueMap WITH
  Absent <- None,
  map <- [k \in Keys |-> ValueIn(node[LeafFor[Root][k]], k)]

ImplementsMap == Map!MapSpec
=============================================================================
