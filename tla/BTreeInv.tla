------------------------------ MODULE BTreeInv ------------------------------
(***************************************************************************)
(* The inductive invariant behind the theorems of BTreeProofs: what nodes  *)
(* and children are, who has which page locked, and what a thread may rely *)
(* on at each step of its operation.                                       *)
(***************************************************************************)
EXTENDS BTree

(* Page locks exclude each other, and only pages that exist are locked. *)
LocksOK ==
  \A t \in Threads, p \in Pages :
    /\ access[t][p] # "none" => p \in Created
    /\ access[t][p] = "write" => \A u \in Threads \ {t} : access[u][p] = "none"

(* Pages are created one after the other; nodes are within their bounds,    *)
(* their keys in order, and the root is nobody's child.                     *)
Sorted(a, n) == \A i, j \in 1 .. n : i <= j => a[i] <= a[j]
ChildrenIn(n, pages) == \A i \in 1 .. n.size + 1 : n.children[i] \in pages
NodeOK(n, pages) ==
  \/ n \in LeafType /\ Sorted(n.keys, n.size)
  \/ n \in InnerType /\ ChildrenIn(n, pages)
PagesOK ==
  /\ Created = 1 .. Cardinality(Created) /\ Cardinality(Created) \in 1 .. MaxPages
  /\ \A p \in Created : NodeOK(node[p], Created \ {Root})

(* header.leafRoot tells whether the root is a leaf, and survives flush. *)
HeaderOK ==
  /\ leafRoot \in BOOLEAN /\ (leafRoot <=> node[Root].leaf)
  /\ ~Open => headerFile.leafRoot = leafRoot /\ \A t \in Threads : At(t, "client")

(* A thread between its operations, or on its way to the root, has nothing  *)
(* locked.  insert has chosen the mode for the root, and the choice is      *)
(* still good: a root is never a leaf again.                                *)
Outside == {"client", "header", "root"}
StartOK(t) ==
  /\ pc[t] \in Outside => \A p \in Pages : access[t][p] = "none"
  /\ pc[t] \in {"client", "header"} => ~exclusiveMode[t]
  /\ pc[t] # "client" => call[t] \in CallType
  /\ pc[t] \in {"header", "write"} \/ exclusiveMode[t] => call[t].op = "insert"
  /\ pc[t] = "root" /\ exclusiveMode[t] => mode[t]
  /\ pc[t] = "root" /\ call[t].op = "insert" /\ leafRoot => mode[t]

(* The page a thread looks at, and how it has it locked. *)
CurrentOK(t) ==
  LET p == current[t] IN
  pc[t] \in {"descend", "inner", "leaf", "write"} =>
    /\ p \in Created /\ access[t][p] # "none"
    /\ node[p].leaf <=> pc[t] \in {"leaf", "write"}
    /\ exclusiveMode[t] \/ pc[t] = "write" => access[t][p] = "write"
    /\ pc[t] = "inner" => exclusiveMode[t]
    /\ pc[t] = "descend" /\ exclusiveMode[t] => node[p].size < InnerN
    /\ pc[t] \in {"inner", "leaf"} /\ exclusiveMode[t] /\ parent[t] = None => p = Root
    /\ pc[t] = "leaf" =>
         /\ p = Root /\ call[t].op = "insert" => mode[t]
         /\ (IF p = Root THEN mode[t] ELSE call[t].op # "find") => access[t][p] = "write"

(* The page above it is locked, and has room for one more pivot. *)
ParentOK(t) ==
  parent[t] # None =>
    /\ exclusiveMode[t] /\ pc[t] \in {"inner", "leaf"}
    /\ current[t] # Root
    /\ parent[t] \in Created /\ access[t][parent[t]] = "write"
    /\ ~node[parent[t]].leaf /\ node[parent[t]].size < InnerN

(* The place of the key in its leaf, which is full only if the key is there *)
(* and the thread can see it.                                               *)
WriteOK(t) ==
  LET n == node[current[t]] IN
  pc[t] = "write" =>
    /\ keyIndex[t] = LowerBound(n.keys, n.size, call[t].key)
    /\ n.size = LeafN =>
         HasKey(n, call[t].key) /\ keyIt[t] = <<current[t], keyIndex[t]>>

LocalTypes ==
  /\ access \in [Threads -> [Pages -> {"none", "read", "write"}]]
  /\ pc \in [Threads -> {"client", "header", "root", "descend", "inner", "leaf", "write"}]
  /\ exclusiveMode \in [Threads -> BOOLEAN] /\ mode \in [Threads -> BOOLEAN]
  /\ DOMAIN call = Threads /\ DOMAIN keyIt = Threads
  /\ current \in [Threads -> Created \cup {None}]
  /\ parent \in [Threads -> Created \cup {None}]
  /\ keyIndex \in [Threads -> 1 .. LeafN + 1 \cup {None}]
  /\ taken \in [Threads -> BOOLEAN]
  /\ loaded \in Nat

ThreadOK(t) == StartOK(t) /\ CurrentOK(t) /\ ParentOK(t) /\ WriteOK(t)

TreeInv ==
  /\ LocalTypes /\ LocksOK /\ PagesOK /\ HeaderOK
  /\ \A t \in Threads : ThreadOK(t)

(***************************************************************************)
(* On top of it: where keys are.  The invariant behind the theorems about  *)
(* the contents of the tree.                                               *)
(***************************************************************************)
Strict(a, n) == \A i, j \in 1 .. n : i < j => a[i] < a[j]

(* Every page but the root is the child of one node, at one index of it. *)
ChildAt(n, i, c) == ~n.leaf /\ i \in 1 .. n.size + 1 /\ n.children[i] = c
Places == 1 .. InnerN + 1
ParentsOK ==
  /\ \A p, q \in Created : \A i, j \in Places : \A c \in Created :
       ChildAt(node[p], i, c) /\ ChildAt(node[q], j, c) => p = q /\ i = j
  /\ \A c \in Created \ {Root} : \E p \in Created : \E i \in Places : ChildAt(node[p], i, c)

(* The keys a search for which comes to a page are its home: those a leaf   *)
(* contains, and the pivots of an inner node, are from there, and an inner  *)
(* node hands on to every child the keys between the pivots around it.      *)
NodeOrdered(n, own, home) ==
  IF n.leaf
  THEN Strict(n.keys, n.size) /\ \A i \in 1 .. n.size : n.keys[i] \in own
  ELSE /\ Strict(n.pivots, n.size)
       /\ \A i \in 1 .. n.size : n.pivots[i] \in own
       /\ \A i \in 1 .. n.size + 1 :
            home[n.children[i]] = {k \in own : ChildIndex(n, k) = i}

(* All leaves are equally deep. *)
NodeLevel(n, h, height) ==
  IF n.leaf THEN h = 0
  ELSE \A i \in 1 .. n.size + 1 : height[n.children[i]] + 1 = h

HomesOK(home) ==
  /\ home \in [Created -> SUBSET Nat] /\ home[Root] = Nat
  /\ \A p \in Created : NodeOrdered(node[p], home[p], home)
HeightsOK(height) ==
  /\ height \in [Created -> Nat]
  /\ \A p \in Created : NodeLevel(node[p], height[p], height)

(* A thread is where its key belongs, whatever the others do to the tree,   *)
(* and the page above it, as long as it is held, names that page for it.    *)
InNode == {"descend", "inner", "leaf", "write"}
PlaceOK(t, home) == pc[t] \in InNode => Key(t) \in home[current[t]]
LinkOK(t) == parent[t] # None => current[t] = ChildOf(node[parent[t]], Key(t))

OrderOK ==
  \E home \in [Created -> SUBSET Nat] : HomesOK(home) /\ \A t \in Threads : PlaceOK(t, home)
LevelsOK == \E height \in [Created -> Nat] : HeightsOK(height)

SearchInv ==
  /\ ParentsOK /\ LevelsOK /\ OrderOK
  /\ \A t \in Threads : LinkOK(t)

(***************************************************************************)
(* When keyIt still leads to the key at the time it is read: one thread    *)
(* writes and the others only find, and unless the writer is alone, no     *)
(* page is evicted.  Preload is inserted before, by any thread.            *)
(***************************************************************************)
OnlyWriter(w) ==
  \A u \in Threads \ {w} :
    ~Evictions /\ \A n \in DOMAIN Operations[u] : \A c \in Operations[u][n] : c.op = "find"

WritesAlone(w) ==
  \A t \in Threads : pc[t] # "client" /\ call[t].op # "find" =>
    t = w \/ (calls[t] = 0 /\ \A u \in Threads \ {t} : pc[u] = "client")

(* keyIt may point into another page than the one the thread has locked,    *)
(* but it leads to the same key as keyIndex.                                *)
PointsAt(t) ==
  LET p == keyIt[t][1]
      i == keyIt[t][2]
  IN /\ p \in Created /\ i \in DOMAIN FirstArray(node[p])
     /\ FirstArray(node[p])[i] = Here(t).keys[keyIndex[t]]
SightOK(t) == pc[t] = "write" /\ keyIndex[t] <= Here(t).size => PointsAt(t)
SightInv(w) ==
  /\ calls \in [Threads -> Nat] /\ WritesAlone(w)
  /\ \A t \in Threads : ~taken[t] /\ SightOK(t)
=============================================================================
