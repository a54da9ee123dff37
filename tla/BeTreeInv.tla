------------------------------ MODULE BeTreeInv ------------------------------
(***************************************************************************)
(* The inductive invariant behind the theorems of BeTreeProofs: what nodes *)
(* and children are, who has which page locked, and what a thread may rely *)
(* on at each step of its operation.                                       *)
(***************************************************************************)
EXTENDS BeTree

(* Page locks exclude each other, and only pages that exist are locked. *)
LocksOK ==
  /\ access \in [Threads -> [AllPages -> {"none", "read", "write"}]]
  /\ \A t \in Threads, p \in AllPages :
       /\ access[t][p] # "none" => p \in Created
       /\ access[t][p] = "write" => \A u \in Threads \ {t} : access[u][p] = "none"

(* A leaf or a page of zeros has no children; other nodes have one more     *)
(* child than pivots, and the root is nobody's child.                       *)
BranchOK(n, below) ==
  /\ n.pivots \in Seq(Range(n.pivots)) /\ n.children \in Seq(below)
  /\ Len(n.children) = Len(n.pivots) + 1
LeafOK(n) == n.type = "leaf" /\ n = Leaf(n.pairs)
InnerOK(n, below) ==
  n.type = "inner" /\ n = Inner(n.pivots, n.children, n.upserts) /\ BranchOK(n, below)
RootOK(n, below) ==
  n.type = "root" /\ n = RootNode(n.pivots, n.children) /\ BranchOK(n, below)
NodeOK(p, n, below) ==
  IF p = Root THEN LeafOK(n) \/ RootOK(n, below)
  ELSE LeafOK(n) \/ n = Zeros \/ InnerOK(n, below)

(* The children of a node are all inner nodes, or none is. *)
IsBranch(n) == n.type \in {"inner", "root"}
SiblingsOK(p) ==
  IsBranch(node[p]) =>
    \A q, r \in Range(node[p].children) : IsInner(q) <=> IsInner(r)

PagesOK ==
  /\ Created = 1 .. Cardinality(Created) /\ Cardinality(Created) \in 1 .. MaxPages
  /\ \A p \in Created : NodeOK(p, node[p], Created \ {Root}) /\ SiblingsOK(p)
  /\ \A p \in DOMAIN stale :
       /\ p \in Created \ {Root} /\ LeafOK(node[p])
       /\ LeafOK(stale[p]) \/ stale[p] = Zeros

(* header.rootLeaf tells whether the root is a leaf, and survives flush. *)
HeaderOK ==
  /\ rootLeaf \in BOOLEAN /\ (rootLeaf <=> IsLeaf(Root))
  /\ ~Open => headerFile.rootLeaf = rootLeaf /\ \A t \in Threads : At(t, "client")

(* What a thread has locked, and what it may rely on. *)
Labels == {"client", "header", "pinRoot", "root", "target", "flush", "find", "failed"}
Outside == {"client", "header", "pinRoot"}
HasOnly(t, pages) == \A p \in AllPages : access[t][p] # "none" => p \in pages
StartOK(t) ==
  /\ pc[t] \in Outside => HasOnly(t, {})
  /\ pc[t] \in {"client", "header"} => ~exclusiveMode[t]
  /\ pc[t] \in {"pinRoot", "root"} =>
       /\ exclusiveMode[t] => mode[t]
       /\ Upserting(t) /\ rootLeaf => mode[t]
RootStepOK(t) ==
  pc[t] = "root" =>
    /\ current[t] = Root /\ HasOnly(t, {Root})
    /\ access[t][Root] = IF mode[t] THEN "write" ELSE "read"
TargetOK(t) ==
  pc[t] = "target" =>
    /\ ~rootLeaf /\ current[t] \in Created \ {Root}
    /\ access[t][current[t]] = "write" /\ HasOnly(t, {Root, current[t]})
    /\ exclusiveMode[t] =>
         access[t][Root] = "write" /\ current[t] \in Range(node[Root].children)
EntryOK(t, e) ==
  /\ e.page \in Created \ {Root} /\ IsInner(e.page) /\ access[t][e.page] = "write"
  /\ DOMAIN e.messages # {}
FlushOK(t) ==
  pc[t] = "flush" =>
    /\ ~rootLeaf
    /\ queue[t] \in Seq(Range(queue[t])) /\ queue[t] # <<>>
    /\ \A e \in Range(queue[t]) : EntryOK(t, e)
    /\ \A p \in AllPages : access[t][p] # "read"
FindOK(t) == pc[t] = "find" => current[t] \in Created \ {Root} /\ IsInner(current[t])
ZerosOK(t) ==
  pc[t] # "failed" => \A p \in AllPages : access[t][p] # "none" => node[p] # Zeros

LocalTypes ==
  /\ pc \in [Threads -> Labels]
  /\ exclusiveMode \in [Threads -> BOOLEAN] /\ mode \in [Threads -> BOOLEAN]
  /\ DOMAIN call = Threads /\ DOMAIN message = Threads /\ DOMAIN current = Threads
  /\ DOMAIN accumulated = Threads /\ DOMAIN queue = Threads

ThreadOK(t) ==
  /\ StartOK(t) /\ RootStepOK(t) /\ TargetOK(t)
  /\ FlushOK(t) /\ FindOK(t) /\ ZerosOK(t)

TreeInv ==
  /\ LocalTypes /\ LocksOK /\ PagesOK /\ HeaderOK
  /\ \A t \in Threads : ThreadOK(t)

(***************************************************************************)
(* On top of it: what fits where.  The invariant behind the theorems about *)
(* sizes.                                                                  *)
(***************************************************************************)
(* Threads work on calls of the right type, and messages have a time stamp. *)
CallOK(t) ==
  pc[t] # "client" =>
    /\ call[t] \in CallType
    /\ Upserting(t) => message[t] \in Messages(Nat, Nat) /\ message[t].type = call[t].op
    /\ pc[t] \in {"header", "target"} => Upserting(t)
HeaderFits ==
  /\ currentTimeStamp \in Nat /\ loaded \in Nat
  /\ ~Open => headerFile.currentTimeStamp \in Nat

(* Nodes are not larger than their arrays. *)
NodesFit ==
  /\ \A p \in Created : IsNode(node[p])
  /\ \A p \in DOMAIN stale : IsNode(stale[p])

(* Every page is the child of one node at most, and at one index of it. *)
Kids(n) == IF IsBranch(n) THEN Range(n.children) ELSE {}
ParentsOK ==
  /\ \A p \in Created : IsBranch(node[p]) => IsInjective(node[p].children)
  /\ \A p, q \in Created : p # q => Kids(node[p]) \cap Kids(node[q]) = {}
  /\ \A p \in Created : p \notin Kids(node[p])

(* A node in a queue is locked, and has room for a pivot from each child    *)
(* its messages are for.  Nodes further behind are others, and not children *)
(* of it: a flush does not change them.                                     *)
EntryFits(t, e) ==
  /\ e.page \in Created /\ IsInner(e.page) /\ access[t][e.page] = "write"
  /\ IsMessages(e.messages, MAX_FLUSH_SIZE)
  /\ Cardinality(Blocks(node[e.page], e.messages)) <= InnerN - Len(node[e.page].pivots)
QueueFits(t) ==
  /\ queue[t] \in Seq(Range(queue[t]))
  /\ pc[t] \notin {"flush", "failed"} => queue[t] = <<>>
  /\ \A i \in DOMAIN queue[t] : EntryFits(t, queue[t][i])
  /\ \A i, j \in DOMAIN queue[t] : i < j =>
       /\ queue[t][j].page # queue[t][i].page
       /\ queue[t][j].page \notin Kids(node[queue[t][i].page])

(* The second descent has found room in the root. *)
RootFits(t) == pc[t] = "target" /\ exclusiveMode[t] => Len(node[Root].pivots) < RootN

RoomInv ==
  /\ HeaderFits /\ NodesFit /\ ParentsOK
  /\ current \in [Threads -> Created \cup {None}]
  /\ \A t \in Threads : CallOK(t) /\ QueueFits(t) /\ RootFits(t)

(***************************************************************************)
(* On top of it: where keys are.  The invariant behind the theorem about   *)
(* the order of the tree.                                                  *)
(***************************************************************************)
Increases(s) == \A i, j \in DOMAIN s : i < j => s[i] < s[j]

(* The keys a search for which comes to a page are its home: those a leaf   *)
(* contains, those of the messages in a buffer, and the pivots, are from    *)
(* there, and a node hands on to every child the keys it leads to it.       *)
BranchOrdered(n, own, home) ==
  /\ Increases(n.pivots) /\ Range(n.pivots) \subseteq own
  /\ \A c \in Range(n.children) : home[c] = {k \in own : ChildOf(n, k) = c}
NodeOrdered(n, own, home) ==
  /\ n # Zeros
  /\ n.type = "leaf" => DOMAIN n.pairs \subseteq own
  /\ n.type = "inner" => DOMAIN n.upserts \subseteq own
  /\ IsBranch(n) => BranchOrdered(n, own, home)

(* All leaves are equally deep. *)
NodeLevel(n, h, height) ==
  IF IsBranch(n) THEN \A c \in Kids(n) : height[c] + 1 = h ELSE h = 0

HomesOK(home) ==
  /\ home \in [Created -> SUBSET Nat] /\ home[Root] = Nat
  /\ \A p \in Created : NodeOrdered(node[p], home[p], home)
HeightsOK(height) ==
  /\ height \in [Created -> Nat]
  /\ \A p \in Created : NodeLevel(node[p], height[p], height)

(* A thread that has locked its target is where its key belongs, and so are *)
(* the messages in its queue, whatever the others do to the tree.           *)
PlaceOK(t, home) ==
  /\ pc[t] = "target" => Key(t) \in home[current[t]]
  /\ \A e \in Range(queue[t]) : DOMAIN e.messages \subseteq home[e.page]

(* Every page but the root is somebody's child. *)
ReachedOK == \A c \in Created \ {Root} : \E p \in Created : c \in Kids(node[p])

LevelsOK == \E height \in [Created -> Nat] : HeightsOK(height)
OrderOK ==
  \E home \in [Created -> SUBSET Nat] : HomesOK(home) /\ \A t \in Threads : PlaceOK(t, home)

SearchInv == ReachedOK /\ LevelsOK /\ OrderOK
=============================================================================
