----------------------------- MODULE PageQueue -----------------------------
(***************************************************************************)
(* The queues of src/src/buffer/queue.  An entry pairs a page id with the  *)
(* index of the frame that holds the page; the front of the list is the    *)
(* most recently inserted entry.  FIFOQueue and LRUQueue share Insert,     *)
(* Remove, FindOne and Contains and differ in find: the LRU queue moves    *)
(* the entry to the front when asked to.                                   *)
(*                                                                         *)
(* pointerMap has one entry of the list for a key; it is the only one that *)
(* carries the key as long as nobody inserts a key the queue contains.     *)
(***************************************************************************)
EXTENDS Integers, Sequences, SequencesExt

(* Where pointerMap[key] points, for a key the queue contains. *)
Position(queue, key) == CHOOSE i \in DOMAIN queue : queue[i].key = key

QueueContains(queue, key) == \E i \in DOMAIN queue : queue[i].key = key

Entries(queue) == {queue[i] : i \in DOMAIN queue}

(* No key has two entries: pointerMap and the list describe the same queue. *)
KeysDistinct(queue) ==
  \A i, j \in DOMAIN queue : queue[i].key = queue[j].key => i = j

(* Queue::insert: push_front and repoint the key at the new entry. *)
QueueInsert(queue, key, value) == <<[key |-> key, value |-> value]>> \o queue

(* Queue::remove of a key the queue contains. *)
QueueRemove(queue, key) == RemoveAt(queue, Position(queue, key))

(* The V& returned by find. *)
QueueValue(queue, key) == queue[Position(queue, key)].value

(* LRUQueue::find with modify = true: splice the entry to the front. *)
QueueTouch(queue, key) ==
  QueueInsert(QueueRemove(queue, key), key, QueueValue(queue, key))

(* The order in which findOne looks at the entries: from the back. *)
ScanOrder(queue) == Reverse(queue)
=============================================================================
