--------------------------- MODULE PageBufferInv ---------------------------
(***************************************************************************)
(* The inductive invariant behind the theorems of PageBufferProofs: what   *)
(* is true of the locals of a thread at each step of pinPage, next to the  *)
(* properties that PageBuffer states.                                      *)
(***************************************************************************)
EXTENDS PageBuffer

(* The mutex of the table is held by exactly the threads whose step says so. *)
TableLockOwned ==
  /\ \A t \in Threads : tableWriter = t <=> OwnsTable(t)
  /\ \A t \in Threads : t \in tableReaders <=> SharesTable(t)
  /\ tableWriter # None => tableReaders = {}

(* The steps at which a thread has chosen a victim that the table still has. *)
VictimSteps == {"pinVictim", "testDirty", "markClean", "saveLock", "save",
                "relock", "recheck", "recheckDirty"}

(* The steps inside pinPage. *)
InPin == Labels \ {"client", "unlockPage", "decPins"}

(* Pages in the hands of a thread stay in their frames, and it asks only for *)
(* pages below them, hence never for a page it holds.                        *)
HeldOK(t) ==
  \A f \in held[t] :
    /\ f \notin freeSlots
    /\ pc[t] \in InPin => id[f] < want[t]

FrameOK(t) ==
  /\ pc[t] \in InPin => want[t] \in Pages
  /\ pc[t] \in PinSteps \cup {"pinVictim", "unlockPage"} => frame[t] \in Frames
  /\ pc[t] = "unlockPage" => frame[t] \in held[t]
  /\ pc[t] \in PinSteps \cup {"pinVictim"} => frame[t] \notin held[t]
  /\ pc[t] \in PinSteps => frame[t] \notin freeSlots
  /\ pc[t] = "undoPin" => ~exclusiveTable[t]

VictimOK(t) ==
  /\ pc[t] = "scan" => \A e \in Entries(scan[t]) : pageTable[e.key] = e.value
  /\ pc[t] \in VictimSteps =>
       scan[t] # <<>> /\ pageTable[Victim(t)] = frame[t]
  /\ pc[t] = "recheckDirty" =>
       pageTable[want[t]] = None /\ InItsQueue(t) /\ pins[frame[t]] = 1

LocalsOK == \A t \in Threads : HeldOK(t) /\ FrameOK(t) /\ VictimOK(t)

BufferInv ==
  /\ TypeOK /\ TableLockOwned /\ TableConsistent /\ PinsCountUsers /\ LocalsOK
=============================================================================
