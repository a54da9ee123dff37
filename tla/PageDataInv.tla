---------------------------- MODULE PageDataInv ----------------------------
(***************************************************************************)
(* The inductive invariant behind the theorems of PageDataProofs: who has  *)
(* a page locked, and where the newest version of a page is, at each step  *)
(* of pinPage and unpinPage.  BufferInv tells what table, pins and locals  *)
(* are meanwhile.                                                          *)
(***************************************************************************)
EXTENDS PageBufferInv

(* The mutex of a page is held by exactly the threads whose step says so,   *)
(* and pages are written under it.                                          *)
PageLockOwned(f, t) ==
  /\ pageWriter[f] = t => f \in held[t] \/ (pc[t] = "load" /\ frame[t] = f)
  /\ t \in pageReaders[f] => f \in held[t] \/ (pc[t] = "save" /\ frame[t] = f)
  /\ f \in held[t] => pageWriter[f] = t \/ t \in pageReaders[f]
  /\ pc[t] = "load" /\ frame[t] = f => pageWriter[f] = t
  /\ pc[t] = "save" /\ frame[t] = f => t \in pageReaders[f]
  /\ pageWriter[f] = t => pageReaders[f] = {}
  /\ f \in wrote[t] => f \in held[t] /\ pageWriter[f] = t
PageLocksOwned == \A f \in Frames, t \in Threads : PageLockOwned(f, t)

(* The steps at which the page a thread asked for is in its frame.  A       *)
(* thread that is about to load it is the only one that has the frame       *)
(* pinned.                                                                  *)
LoadSteps == {"loadLock", "load"}
Arrived == LoadSteps \cup {"mode", "lockPage"}
ArrivalOK(t) ==
  /\ pc[t] \in Arrived => id[frame[t]] = want[t]
  /\ pc[t] = "loadLock" => pins[frame[t]] = 1

(* A page that a thread creates is nobody else's until it is in its hands.  *)
Creating(t) == pc[t] \in InPin /\ kind[t] = "create"
CreationOK(t) ==
  /\ pc[t] \in InPin => want[t] \in created
  /\ Creating(t) =>
       /\ want[t] \notin known
       /\ \A u \in Threads \ {t} :
            /\ pc[u] \in InPin => want[u] # want[t]
            /\ \A f \in held[u] : id[f] # want[t]

CreatedOK ==
  /\ known \subseteq created
  /\ \A f \in Frames \ freeSlots : id[f] \in created
  /\ \A p \in Pages \ known : latest[p] = 0

(* Frames that are loaded are clean; what is saved, or will be, has         *)
(* contents; and a change is reported before the page is released.          *)
SaveSteps == {"markClean", "saveLock", "save"}
Saving(f) == \E t \in Threads : pc[t] \in SaveSteps \ {"markClean"} /\ frame[t] = f
SavesOK(f, t) ==
  frame[t] = f =>
    /\ pc[t] \in SaveSteps => id[f] \in known /\ ~Loading(f)
    /\ pc[t] \in LoadSteps => ~dirty[f]
    /\ pc[t] = "unlockPage" /\ f \in wrote[t] => dirty[f] \/ Saving(f)
DirtyKnown == \A f \in Frames \ freeSlots : dirty[f] => id[f] \in known

(* The newest version of a page is in its frame, unless the frame is still  *)
(* being loaded; and in the file too, unless somebody knows that it is not. *)
Written(f) == \E t \in Threads : f \in wrote[t]
FrameNewest(f) == Loading(f) \/ data[f] = Newest(id[f])
FileNewest(f) ==
  dirty[f] \/ Written(f) \/ Saving(f) \/ disk[id[f]] = Newest(id[f])
FrameContentsOK(f) ==
  f \notin freeSlots /\ id[f] \in known => FrameNewest(f) /\ FileNewest(f)
PageContentsOK(p) == p \in known /\ pageTable[p] = None => disk[p] = Newest(p)
ContentsOK ==
  /\ \A f \in Frames : FrameContentsOK(f)
  /\ \A p \in Pages : PageContentsOK(p)

(* The file holds pages where they belong, none older than at the flush; a  *)
(* page that was never flushed may have been saved before a restart.        *)
FileOK ==
  \A p \in Pages :
    /\ disk[p].version > 0 => disk[p].page = p
    /\ synced[p] <= latest[p] /\ disk[p].version >= synced[p]
    /\ synced[p] > 0 => disk[p].version <= latest[p]

DataInv ==
  /\ PageLocksOwned
  /\ \A t \in Threads : ArrivalOK(t) /\ CreationOK(t)
  /\ \A f \in Frames, t \in Threads : SavesOK(f, t)
  /\ CreatedOK /\ DirtyKnown /\ ContentsOK /\ FileOK
=============================================================================
