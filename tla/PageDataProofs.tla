--------------------------- MODULE PageDataProofs ---------------------------
(***************************************************************************)
(* Theorems about the contents of pages, for any number of threads, frames *)
(* and pages.  BufferInv of PageBufferProofs tells who has pinned what;    *)
(* DataInv, on top of it, who has locked what and where the newest version *)
(* of a page is.                                                           *)
(***************************************************************************)
EXTENDS PageDataInv, PageBufferProofs

(***************************************************************************)
(* Consequences of the two invariants.                                     *)
(***************************************************************************)

(* A thread that is about to load a frame is alone: nobody else has the     *)
(* frame pinned, and nobody else is in the table.                           *)
LEMMA AloneAtLoad ==
  ASSUME BufferInv, NEW t \in Threads, ArrivalOK(t), pc[t] = "loadLock",
         NEW u \in Threads, u # t
  PROVE  ~Uses(u, frame[t]) /\ pc[u] \notin InTable
<1>1. frame[t] \in Frames /\ pins[frame[t]] = 1 /\ Uses(t, frame[t])
  BY DEF BufferInv, LocalsOK, FrameOK, PinSteps, ArrivalOK, Uses
<1>2. ~Uses(u, frame[t])
  BY <1>1, SoleUser
<1>3. ~OwnsTable(u) /\ ~SharesTable(u)
  BY TableExclusion DEF OwnsTable
<1> QED BY <1>2, <1>3 DEF OwnsTable, SharesTable

(* A victim that passed the check is used by its evictor only.              *)
LEMMA AloneAtEvict ==
  ASSUME BufferInv, NEW t \in Threads, pc[t] = "recheckDirty"
  PROVE  /\ frame[t] \in Frames \ freeSlots /\ want[t] \in Pages
         /\ \A u \in Threads \ {t} : ~Uses(u, frame[t])
<1>1. frame[t] \in Frames /\ pins[frame[t]] = 1 /\ Uses(t, frame[t])
  BY DEF BufferInv, LocalsOK, FrameOK, VictimOK, PinSteps, Uses
<1>2. frame[t] \notin freeSlots /\ want[t] \in Pages
  BY DEF BufferInv, LocalsOK, FrameOK, PinSteps, InPin, Labels
<1> QED BY <1>1, <1>2, SoleUser

(* A page is in one frame only. *)
LEMMA PageInOneFrame ==
  ASSUME BufferInv
  PROVE  /\ \A f \in Frames \ freeSlots : id[f] \in Pages /\ pageTable[id[f]] = f
         /\ \A f, g \in Frames \ freeSlots : id[f] = id[g] => f = g
         /\ \A p \in Pages : pageTable[p] # None =>
              pageTable[p] \in Frames \ freeSlots /\ id[pageTable[p]] = p
<1>1. \A f \in Frames \ freeSlots : id[f] \in Pages /\ pageTable[id[f]] = f
  BY NoneAssumption DEF BufferInv, TypeOK, TableConsistent
<1>2. \A p \in Pages : pageTable[p] # None =>
        pageTable[p] \in Frames \ freeSlots /\ id[pageTable[p]] = p
  BY DEF BufferInv, TypeOK, TableConsistent
<1> QED BY <1>1, <1>2

(***************************************************************************)
(* Every step preserves who has which page locked.                         *)
(***************************************************************************)
LEMMA PageLocksStep ==
  ASSUME BufferInv, PageLocksOwned, [Next]_vars
  PROVE  PageLocksOwned'
<1> SUFFICES ASSUME NEW g \in Frames, NEW u \in Threads
             PROVE  PageLockOwned(g, u)'
  BY DEF PageLocksOwned
<1> USE NoneAssumption DEF table, tableLock, counters, contents, pageLock, request, search, modes,
            client, files, history,
            At, Go, EndTurn, EndCall, RetryWith, Pinned, LockTable, UnlockTable
<1>0. /\ TypeOK /\ \A v \in Threads : FrameOK(v)
      /\ PageLockOwned(g, u) /\ \A f \in Frames, v \in Threads : PageLockOwned(f, v)
  BY DEF BufferInv, LocalsOK, PageLocksOwned
<1>1. ASSUME NEW t \in Threads, EnterTable(t) PROVE PageLockOwned(g, u)'
  BY <1>1, <1>0 DEF EnterTable, PageLockOwned, TypeOK, FrameOK, PinSteps
<1>2. ASSUME NEW t \in Threads, HitPinned(t) PROVE PageLockOwned(g, u)'
  BY <1>2, <1>0 DEF HitPinned, Hit, PageLockOwned, TypeOK, FrameOK, PinSteps
<1>3. ASSUME NEW t \in Threads, HitUnpinnedShared(t) PROVE PageLockOwned(g,
    u)'
  BY <1>3, <1>0 DEF HitUnpinnedShared, Hit, PageLockOwned, TypeOK, FrameOK,
      PinSteps
<1>4. ASSUME NEW t \in Threads, HitUnpinnedExclusive(t) PROVE PageLockOwned(g,
    u)'
  BY <1>4, <1>0 DEF HitUnpinnedExclusive, Hit, PageLockOwned, TypeOK, FrameOK,
      PinSteps
<1>5. ASSUME NEW t \in Threads, MissShared(t) PROVE PageLockOwned(g, u)'
  BY <1>5, <1>0 DEF MissShared, Miss, PageLockOwned, TypeOK, FrameOK, PinSteps
<1>6. ASSUME NEW t \in Threads, StartScan(t) PROVE PageLockOwned(g, u)'
  BY <1>6, <1>0 DEF StartScan, Miss, PageLockOwned, TypeOK, FrameOK, PinSteps
<1>7. ASSUME NEW t \in Threads, NEW f \in Frames, UseFreeSlot(t, f) PROVE
    PageLockOwned(g, u)'
  BY <1>7, <1>0 DEF UseFreeSlot, Miss, Claimed, PageLockOwned, TypeOK,
      FrameOK, PinSteps
<1>8. ASSUME NEW t \in Threads, UndoPin(t) PROVE PageLockOwned(g, u)'
  BY <1>8, <1>0 DEF UndoPin, PageLockOwned, TypeOK, FrameOK, PinSteps
<1>9. ASSUME NEW t \in Threads, LockForLoad(t) PROVE PageLockOwned(g, u)'
  <2>1. frame[t] \in Frames /\ CanLockPage(frame[t], TRUE)
        /\ pageWriter' = [pageWriter EXCEPT ![frame[t]] = t]
        /\ pageReaders' = [pageReaders EXCEPT ![frame[t]] = {}]
    BY <1>9, <1>0 DEF LockForLoad, LockPage, FrameOK, PinSteps
  <2>2. UNCHANGED <<held, wrote, frame>>
        /\ pc[t] = "loadLock" /\ pc' = [pc EXCEPT ![t] = "load"]
    BY <1>9 DEF LockForLoad
  <2> QED BY <1>0, <2>1, <2>2 DEF CanLockPage, PageLockOwned, TypeOK
<1>10. ASSUME NEW t \in Threads, Load(t) PROVE PageLockOwned(g, u)'
  BY <1>10, <1>0, SMTT(30) DEF Load, UnlockPage, PageLockOwned, TypeOK, FrameOK,
      PinSteps
<1>11. ASSUME NEW t \in Threads, SkipEntry(t) PROVE PageLockOwned(g, u)'
  BY <1>11, <1>0 DEF SkipEntry, PageLockOwned, TypeOK, FrameOK, PinSteps
<1>12. ASSUME NEW t \in Threads, ScanLRU(t) PROVE PageLockOwned(g, u)'
  BY <1>12, <1>0 DEF ScanLRU, PageLockOwned, TypeOK, FrameOK, PinSteps
<1>13. ASSUME NEW t \in Threads, Raise(t) PROVE PageLockOwned(g, u)'
  BY <1>13, <1>0 DEF Raise, PageLockOwned, TypeOK, FrameOK, PinSteps
<1>14. ASSUME NEW t \in Threads, FindVictim(t) PROVE PageLockOwned(g, u)'
  BY <1>14, <1>0 DEF FindVictim, PageLockOwned, TypeOK, FrameOK, PinSteps
<1>15. ASSUME NEW t \in Threads, PinVictim(t) PROVE PageLockOwned(g, u)'
  BY <1>15, <1>0 DEF PinVictim, PageLockOwned, TypeOK, FrameOK, PinSteps
<1>16. ASSUME NEW t \in Threads, TestDirty(t) PROVE PageLockOwned(g, u)'
  BY <1>16, <1>0 DEF TestDirty, PageLockOwned, TypeOK, FrameOK, PinSteps
<1>17. ASSUME NEW t \in Threads, MarkClean(t) PROVE PageLockOwned(g, u)'
  BY <1>17, <1>0 DEF MarkClean, PageLockOwned, TypeOK, FrameOK, PinSteps
<1>18. ASSUME NEW t \in Threads, LockForSave(t) PROVE PageLockOwned(g, u)'
  <2>1. frame[t] \in Frames /\ CanLockPage(frame[t], FALSE)
        /\ pageWriter' = [pageWriter EXCEPT ![frame[t]] = None]
        /\ pageReaders' = [pageReaders EXCEPT ![frame[t]] = pageReaders[frame[t]] \cup {t}]
    BY <1>18, <1>0 DEF LockForSave, LockPage, FrameOK, PinSteps
  <2>2. UNCHANGED <<held, wrote, frame>>
        /\ pc[t] = "saveLock" /\ pc' = [pc EXCEPT ![t] = "save"]
    BY <1>18 DEF LockForSave
  <2> QED BY <1>0, <2>1, <2>2 DEF CanLockPage, PageLockOwned, TypeOK
<1>19. ASSUME NEW t \in Threads, Save(t) PROVE PageLockOwned(g, u)'
  BY <1>19, <1>0 DEF Save, UnlockPage, PageLockOwned, TypeOK, FrameOK,
      PinSteps
<1>20. ASSUME NEW t \in Threads, Relock(t) PROVE PageLockOwned(g, u)'
  BY <1>20, <1>0 DEF Relock, PageLockOwned, TypeOK, FrameOK, PinSteps
<1>21. ASSUME NEW t \in Threads, Recheck(t) PROVE PageLockOwned(g, u)'
  BY <1>21, <1>0 DEF Recheck, PageLockOwned, TypeOK, FrameOK, PinSteps
<1>22. ASSUME NEW t \in Threads, GiveUp(t) PROVE PageLockOwned(g, u)'
  BY <1>22, <1>0 DEF GiveUp, PageLockOwned, TypeOK, FrameOK, PinSteps
<1>23. ASSUME NEW t \in Threads, Evict(t) PROVE PageLockOwned(g, u)'
  BY <1>23, <1>0 DEF Evict, Claimed, PageLockOwned, TypeOK, FrameOK, PinSteps
<1>24. ASSUME NEW t \in Threads, ChooseMode(t) PROVE PageLockOwned(g, u)'
  BY <1>24, <1>0 DEF ChooseMode, PageLockOwned, TypeOK, FrameOK, PinSteps
<1>25. ASSUME NEW t \in Threads, EnterPage(t) PROVE PageLockOwned(g, u)'
  <2>1. frame[t] \in Frames /\ CanLockPage(frame[t], exclusive[t])
        /\ pageWriter' = [pageWriter EXCEPT ![frame[t]] = IF exclusive[t] THEN t ELSE None]
        /\ pageReaders' = [pageReaders EXCEPT ![frame[t]] =
                             IF exclusive[t] THEN {} ELSE pageReaders[frame[t]] \cup {t}]
    BY <1>25, <1>0 DEF EnterPage, LockPage, FrameOK, PinSteps
  <2>2. /\ wrote' = wrote /\ held' = [held EXCEPT ![t] = held[t] \cup {frame[t]}]
        /\ pc[t] = "lockPage" /\ pc' = [pc EXCEPT ![t] = "client"]
        /\ frame' = [frame EXCEPT ![t] = None]
    BY <1>25 DEF EnterPage
  <2>3. CASE exclusive[t]
    BY <1>0, <2>1, <2>2, <2>3 DEF CanLockPage, PageLockOwned, TypeOK
  <2>4. CASE ~exclusive[t]
    BY <1>0, <2>1, <2>2, <2>4 DEF CanLockPage, PageLockOwned, TypeOK
  <2> QED BY <2>3, <2>4
<1>26. ASSUME NEW t \in Threads, ReleasePage(t) PROVE PageLockOwned(g, u)'
  BY <1>26, <1>0 DEF ReleasePage, UnlockPage, PageLockOwned, TypeOK, FrameOK,
      PinSteps
<1>27. ASSUME NEW t \in Threads, DecPins(t) PROVE PageLockOwned(g, u)'
  BY <1>27, <1>0 DEF DecPins, PageLockOwned, TypeOK, FrameOK, PinSteps
<1>28. ASSUME NEW t \in Threads, NEW p \in Pages, NEW k \in Kinds, PinPage(t,
    p, k) PROVE PageLockOwned(g, u)'
  BY <1>28, <1>0 DEF PinPage, Call, PageLockOwned, TypeOK, FrameOK, PinSteps
<1>29. ASSUME NEW t \in Threads, NEW p \in Pages, CreatePage(t, p) PROVE
    PageLockOwned(g, u)'
  BY <1>29, <1>0 DEF CreatePage, Call, PageLockOwned, TypeOK, FrameOK,
      PinSteps
<1>30. ASSUME NEW t \in Threads, NEW f \in Frames, Write(t, f) PROVE
    PageLockOwned(g, u)'
  BY <1>30, <1>0 DEF Write, PageLockOwned, TypeOK, FrameOK, PinSteps
<1>31. ASSUME NEW t \in Threads, NEW f \in Frames, NEW d \in BOOLEAN,
    UnpinPage(t, f, d) PROVE PageLockOwned(g, u)'
  BY <1>31, <1>0 DEF UnpinPage, PageLockOwned, TypeOK, FrameOK, PinSteps
<1>32. ASSUME Flush PROVE PageLockOwned(g, u)'
  BY <1>32, <1>0 DEF Flush, PageLockOwned, TypeOK, FrameOK, PinSteps
<1>33. ASSUME FlushCutShort \/ Restart PROVE PageLockOwned(g, u)'
  <2>1. PICK pages \in SUBSET Pages : StartAgain(pages)
    BY <1>33, <1>0, EndFacts
  <2> QED BY <2>1, <1>0 DEF StartAgain, NewBuffer, ResetThreads, PageLockOwned, TypeOK,
      FrameOK, PinSteps
<1>34. ASSUME UNCHANGED vars PROVE PageLockOwned(g, u)'
  BY <1>34, <1>0 DEF vars, PageLockOwned, TypeOK, FrameOK, PinSteps
<1> QED
  BY <1>1, <1>2, <1>3, <1>4, <1>5, <1>6, <1>7, <1>8, <1>9, <1>10, <1>11,
      <1>12, <1>13, <1>14, <1>15, <1>16, <1>17, <1>18, <1>19, <1>20, <1>21,
      <1>22, <1>23, <1>24, <1>25, <1>26, <1>27, <1>28, <1>29, <1>30, <1>31,
      <1>32, <1>33, <1>34 DEF Next, Pin, Lookup, Eviction, Unpin, Caller

(***************************************************************************)
(* Every step preserves that a thread finds the page it asked for, and     *)
(* that it is alone when it is about to load it.                           *)
(***************************************************************************)
LEMMA ArrivalStep ==
  ASSUME BufferInv, \A v \in Threads : ArrivalOK(v), [Next]_vars, NEW u \in Threads
  PROVE  ArrivalOK(u)'
<1> USE NoneAssumption DEF table, tableLock, counters, contents, pageLock, request, search, modes,
            client, files, history,
            At, Go, EndTurn, EndCall, RetryWith, Pinned, LockTable, UnlockTable
<1>0. /\ TypeOK /\ \A v \in Threads : FrameOK(v) /\ ArrivalOK(v) /\ VictimOK(v)
  BY DEF BufferInv, LocalsOK
<1>1. ASSUME NEW t \in Threads, EnterTable(t) PROVE ArrivalOK(u)'
  BY <1>1, <1>0 DEF EnterTable, ArrivalOK, Arrived, LoadSteps, TypeOK
<1>2. ASSUME NEW t \in Threads, HitPinned(t) PROVE ArrivalOK(u)'
  <2> DEFINE g == pageTable[want[t]]
  <2>1. g \in Frames /\ id[g] = want[t] /\ pc[t] = "lookup"
    BY <1>2, WantedNotHeld, PageInOneFrame DEF HitPinned, Hit
  <2>2. PICK label \in {"undoPin", "mode", "lockPage"} : pc' = [pc EXCEPT ![t] = label]
    BY <1>2 DEF HitPinned, Hit
  <2>3. /\ pins' = [pins EXCEPT ![g] = pins[g] + 1] /\ frame' = [frame EXCEPT ![t] = g]
        /\ UNCHANGED <<id, want>>
    BY <1>2 DEF HitPinned, Hit
  <2>4. pc[u] # "loadLock"
    BY <1>0, <2>1, AloneAtLoad DEF InTable
  <2> HIDE DEF g
  <2> QED BY <1>0, <2>1, <2>2, <2>3, <2>4 DEF ArrivalOK, Arrived, LoadSteps, TypeOK
<1>3. ASSUME NEW t \in Threads, HitUnpinnedShared(t) PROVE ArrivalOK(u)'
  <2> DEFINE g == pageTable[want[t]]
  <2>1. g \in Frames /\ id[g] = want[t] /\ pc[t] = "lookup"
    BY <1>3, WantedNotHeld, PageInOneFrame DEF HitUnpinnedShared, Hit
  <2>2. PICK label \in {"undoPin", "mode", "lockPage"} : pc' = [pc EXCEPT ![t] = label]
    BY <1>3 DEF HitUnpinnedShared, Hit
  <2>3. /\ pins' = [pins EXCEPT ![g] = pins[g] + 1] /\ frame' = [frame EXCEPT ![t] = g]
        /\ UNCHANGED <<id, want>>
    BY <1>3 DEF HitUnpinnedShared, Hit
  <2>4. pc[u] # "loadLock"
    BY <1>0, <2>1, AloneAtLoad DEF InTable
  <2> HIDE DEF g
  <2> QED BY <1>0, <2>1, <2>2, <2>3, <2>4 DEF ArrivalOK, Arrived, LoadSteps, TypeOK
<1>4. ASSUME NEW t \in Threads, HitUnpinnedExclusive(t) PROVE ArrivalOK(u)'
  <2> DEFINE g == pageTable[want[t]]
  <2>1. g \in Frames /\ id[g] = want[t] /\ pc[t] = "lookup"
    BY <1>4, WantedNotHeld, PageInOneFrame DEF HitUnpinnedExclusive, Hit
  <2>2. PICK label \in {"undoPin", "mode", "lockPage"} : pc' = [pc EXCEPT ![t] = label]
    BY <1>4 DEF HitUnpinnedExclusive, Hit
  <2>3. /\ pins' = [pins EXCEPT ![g] = pins[g] + 1] /\ frame' = [frame EXCEPT ![t] = g]
        /\ UNCHANGED <<id, want>>
    BY <1>4 DEF HitUnpinnedExclusive, Hit
  <2>4. pc[u] # "loadLock"
    BY <1>0, <2>1, AloneAtLoad DEF InTable
  <2> HIDE DEF g
  <2> QED BY <1>0, <2>1, <2>2, <2>3, <2>4 DEF ArrivalOK, Arrived, LoadSteps, TypeOK
<1>5. ASSUME NEW t \in Threads, MissShared(t) PROVE ArrivalOK(u)'
  BY <1>5, <1>0 DEF MissShared, Miss, ArrivalOK, Arrived, LoadSteps, TypeOK
<1>6. ASSUME NEW t \in Threads, StartScan(t) PROVE ArrivalOK(u)'
  BY <1>6, <1>0 DEF StartScan, Miss, ArrivalOK, Arrived, LoadSteps, TypeOK
<1>7. ASSUME NEW t \in Threads, NEW f \in Frames, UseFreeSlot(t, f) PROVE
    ArrivalOK(u)'
  <2>1. PICK label \in {"loadLock", "mode", "lockPage"} : pc' = [pc EXCEPT ![t] = label]
    BY <1>7 DEF UseFreeSlot, Miss, Claimed
  <2>2. /\ f \in freeSlots /\ pins' = [pins EXCEPT ![f] = 1] /\ id' = [id EXCEPT ![f] = want[t]]
        /\ frame' = [frame EXCEPT ![t] = f] /\ want' = want
    BY <1>7 DEF UseFreeSlot
  <2> QED BY <1>0, <2>1, <2>2 DEF ArrivalOK, Arrived, LoadSteps, FrameOK, PinSteps, TypeOK
<1>8. ASSUME NEW t \in Threads, UndoPin(t) PROVE ArrivalOK(u)'
  <2>1. pc[t] \in PinSteps /\ pc[t] # "loadLock" /\ Uses(t, frame[t])
    BY <1>8 DEF UndoPin, PinSteps, Uses
  <2>2. u # t /\ pc[u] = "loadLock" => frame[u] # frame[t]
    BY <1>0, <2>1, AloneAtLoad
  <2>3. /\ pc' = [pc EXCEPT ![t] = IF pc[t] = "decPins" THEN "client" ELSE "lockTable"]
        /\ frame' = [frame EXCEPT ![t] = None] /\ id' = id
        /\ pins' = [pins EXCEPT ![frame[t]] = pins[frame[t]] - 1]
        /\ \A v \in Threads \ {t} : want'[v] = want[v]
    BY <1>8, <1>0 DEF UndoPin, TypeOK
  <2> QED BY <1>0, <2>1, <2>2, <2>3 DEF ArrivalOK, Arrived, LoadSteps, PinSteps, FrameOK, TypeOK
<1>9. ASSUME NEW t \in Threads, LockForLoad(t) PROVE ArrivalOK(u)'
  BY <1>9, <1>0 DEF LockForLoad, LockPage, ArrivalOK, Arrived, LoadSteps,
      TypeOK
<1>10. ASSUME NEW t \in Threads, Load(t) PROVE ArrivalOK(u)'
  BY <1>10, <1>0 DEF Load, UnlockPage, ArrivalOK, Arrived, LoadSteps, TypeOK
<1>11. ASSUME NEW t \in Threads, SkipEntry(t) PROVE ArrivalOK(u)'
  BY <1>11, <1>0 DEF SkipEntry, ArrivalOK, Arrived, LoadSteps, TypeOK
<1>12. ASSUME NEW t \in Threads, ScanLRU(t) PROVE ArrivalOK(u)'
  BY <1>12, <1>0 DEF ScanLRU, ArrivalOK, Arrived, LoadSteps, TypeOK
<1>13. ASSUME NEW t \in Threads, Raise(t) PROVE ArrivalOK(u)'
  BY <1>13, <1>0 DEF Raise, ArrivalOK, Arrived, LoadSteps, TypeOK
<1>14. ASSUME NEW t \in Threads, FindVictim(t) PROVE ArrivalOK(u)'
  BY <1>14, <1>0 DEF FindVictim, ArrivalOK, Arrived, LoadSteps, TypeOK
<1>15. ASSUME NEW t \in Threads, PinVictim(t) PROVE ArrivalOK(u)'
  <2>1. u # t => pc[u] # "loadLock"
    BY <1>15, <1>0, AloneAtLoad DEF PinVictim, InTable
  <2> QED BY <1>15, <1>0, <2>1 DEF PinVictim, ArrivalOK, Arrived, LoadSteps, TypeOK
<1>16. ASSUME NEW t \in Threads, TestDirty(t) PROVE ArrivalOK(u)'
  BY <1>16, <1>0 DEF TestDirty, ArrivalOK, Arrived, LoadSteps, TypeOK
<1>17. ASSUME NEW t \in Threads, MarkClean(t) PROVE ArrivalOK(u)'
  BY <1>17, <1>0 DEF MarkClean, ArrivalOK, Arrived, LoadSteps, TypeOK
<1>18. ASSUME NEW t \in Threads, LockForSave(t) PROVE ArrivalOK(u)'
  BY <1>18, <1>0 DEF LockForSave, LockPage, ArrivalOK, Arrived, LoadSteps,
      TypeOK
<1>19. ASSUME NEW t \in Threads, Save(t) PROVE ArrivalOK(u)'
  BY <1>19, <1>0 DEF Save, UnlockPage, ArrivalOK, Arrived, LoadSteps, TypeOK
<1>20. ASSUME NEW t \in Threads, Relock(t) PROVE ArrivalOK(u)'
  BY <1>20, <1>0 DEF Relock, ArrivalOK, Arrived, LoadSteps, TypeOK
<1>21. ASSUME NEW t \in Threads, Recheck(t) PROVE ArrivalOK(u)'
  BY <1>21, <1>0 DEF Recheck, ArrivalOK, Arrived, LoadSteps, TypeOK
<1>22. ASSUME NEW t \in Threads, GiveUp(t) PROVE ArrivalOK(u)'
  <2>1. pc[t] \in PinSteps /\ pc[t] # "loadLock" /\ Uses(t, frame[t])
    BY <1>22 DEF GiveUp, PinSteps, Uses
  <2>2. u # t /\ pc[u] = "loadLock" => frame[u] # frame[t]
    BY <1>0, <2>1, AloneAtLoad
  <2>3. /\ pc' = [pc EXCEPT ![t] = IF pc[t] = "decPins" THEN "client" ELSE "lockTable"]
        /\ frame' = [frame EXCEPT ![t] = None] /\ id' = id
        /\ pins' = [pins EXCEPT ![frame[t]] = pins[frame[t]] - 1]
        /\ \A v \in Threads \ {t} : want'[v] = want[v]
    BY <1>22, <1>0 DEF GiveUp, TypeOK
  <2> QED BY <1>0, <2>1, <2>2, <2>3 DEF ArrivalOK, Arrived, LoadSteps, PinSteps, FrameOK, TypeOK
<1>23. ASSUME NEW t \in Threads, Evict(t) PROVE ArrivalOK(u)'
  <2>1. PICK label \in {"loadLock", "mode", "lockPage"} : pc' = [pc EXCEPT ![t] = label]
    BY <1>23 DEF Evict, Claimed
  <2>2. /\ pc[t] = "recheckDirty" /\ pins[frame[t]] = 1 /\ frame[t] \in Frames
        /\ id' = [id EXCEPT ![frame[t]] = want[t]] /\ UNCHANGED <<frame, want, pins>>
    BY <1>23, <1>0 DEF Evict, FrameOK, VictimOK, PinSteps
  <2>3. u # t /\ pc[u] \in Arrived => frame[u] # frame[t]
    BY <2>2, AloneAtEvict DEF Uses, PinSteps, Arrived, LoadSteps
  <2> QED BY <1>0, <2>1, <2>2, <2>3 DEF ArrivalOK, Arrived, LoadSteps, TypeOK
<1>24. ASSUME NEW t \in Threads, ChooseMode(t) PROVE ArrivalOK(u)'
  BY <1>24, <1>0 DEF ChooseMode, ArrivalOK, Arrived, LoadSteps, TypeOK
<1>25. ASSUME NEW t \in Threads, EnterPage(t) PROVE ArrivalOK(u)'
  BY <1>25, <1>0 DEF EnterPage, LockPage, ArrivalOK, Arrived, LoadSteps,
      TypeOK
<1>26. ASSUME NEW t \in Threads, ReleasePage(t) PROVE ArrivalOK(u)'
  BY <1>26, <1>0 DEF ReleasePage, UnlockPage, ArrivalOK, Arrived, LoadSteps,
      TypeOK
<1>27. ASSUME NEW t \in Threads, DecPins(t) PROVE ArrivalOK(u)'
  <2>1. pc[t] \in PinSteps /\ pc[t] # "loadLock" /\ Uses(t, frame[t])
    BY <1>27 DEF DecPins, PinSteps, Uses
  <2>2. u # t /\ pc[u] = "loadLock" => frame[u] # frame[t]
    BY <1>0, <2>1, AloneAtLoad
  <2>3. /\ pc' = [pc EXCEPT ![t] = IF pc[t] = "decPins" THEN "client" ELSE "lockTable"]
        /\ frame' = [frame EXCEPT ![t] = None] /\ id' = id
        /\ pins' = [pins EXCEPT ![frame[t]] = pins[frame[t]] - 1]
        /\ \A v \in Threads \ {t} : want'[v] = want[v]
    BY <1>27, <1>0 DEF DecPins, TypeOK
  <2> QED BY <1>0, <2>1, <2>2, <2>3 DEF ArrivalOK, Arrived, LoadSteps, PinSteps, FrameOK, TypeOK
<1>28. ASSUME NEW t \in Threads, NEW p \in Pages, NEW k \in Kinds, PinPage(t,
    p, k) PROVE ArrivalOK(u)'
  BY <1>28, <1>0 DEF PinPage, Call, ArrivalOK, Arrived, LoadSteps, TypeOK
<1>29. ASSUME NEW t \in Threads, NEW p \in Pages, CreatePage(t, p) PROVE
    ArrivalOK(u)'
  BY <1>29, <1>0 DEF CreatePage, Call, ArrivalOK, Arrived, LoadSteps, TypeOK
<1>30. ASSUME NEW t \in Threads, NEW f \in Frames, Write(t, f) PROVE
    ArrivalOK(u)'
  BY <1>30, <1>0 DEF Write, ArrivalOK, Arrived, LoadSteps, TypeOK
<1>31. ASSUME NEW t \in Threads, NEW f \in Frames, NEW d \in BOOLEAN,
    UnpinPage(t, f, d) PROVE ArrivalOK(u)'
  BY <1>31, <1>0 DEF UnpinPage, ArrivalOK, Arrived, LoadSteps, TypeOK
<1>32. ASSUME Flush PROVE ArrivalOK(u)'
  BY <1>32, <1>0 DEF Flush, ArrivalOK, Arrived, LoadSteps, TypeOK
<1>33. ASSUME FlushCutShort \/ Restart PROVE ArrivalOK(u)'
  <2>1. PICK pages \in SUBSET Pages : StartAgain(pages)
    BY <1>33, <1>0, EndFacts
  <2> QED BY <2>1, <1>0 DEF StartAgain, NewBuffer, ResetThreads, ArrivalOK, Arrived,
      LoadSteps, TypeOK
<1>34. ASSUME UNCHANGED vars PROVE ArrivalOK(u)'
  BY <1>34, <1>0 DEF vars, ArrivalOK, Arrived, LoadSteps, TypeOK
<1> QED
  BY <1>1, <1>2, <1>3, <1>4, <1>5, <1>6, <1>7, <1>8, <1>9, <1>10, <1>11,
      <1>12, <1>13, <1>14, <1>15, <1>16, <1>17, <1>18, <1>19, <1>20, <1>21,
      <1>22, <1>23, <1>24, <1>25, <1>26, <1>27, <1>28, <1>29, <1>30, <1>31,
      <1>32, <1>33, <1>34 DEF Next, Pin, Lookup, Eviction, Unpin, Caller

(***************************************************************************)
(* Every step preserves that a page is its creator's alone until somebody  *)
(* has written it, and that it has no contents before.                     *)
(***************************************************************************)
LEMMA CreationStep ==
  ASSUME BufferInv, CreatedOK, \A v \in Threads : ArrivalOK(v) /\ CreationOK(v),
         [Next]_vars, NEW u \in Threads
  PROVE  CreationOK(u)'
<1> USE NoneAssumption DEF table, tableLock, counters, contents, pageLock, request, search, modes,
            client, files, history,
            At, Go, EndTurn, EndCall, RetryWith, Pinned, LockTable, UnlockTable
<1>0. /\ TypeOK /\ CreatedOK
      /\ \A v \in Threads : FrameOK(v) /\ HeldOK(v) /\ ArrivalOK(v) /\ CreationOK(v)
  BY DEF BufferInv, LocalsOK
<1>1. ASSUME NEW t \in Threads, EnterTable(t) PROVE CreationOK(u)'
  BY <1>1, <1>0 DEF EnterTable, CreationOK, Creating, InPin, Labels, TypeOK
<1>2. ASSUME NEW t \in Threads, HitPinned(t) PROVE CreationOK(u)'
  BY <1>2, <1>0 DEF HitPinned, Hit, CreationOK, Creating, InPin, Labels,
      TypeOK
<1>3. ASSUME NEW t \in Threads, HitUnpinnedShared(t) PROVE CreationOK(u)'
  BY <1>3, <1>0, SMTT(30) DEF HitUnpinnedShared, Hit, CreationOK, Creating, InPin,
      Labels, TypeOK
<1>4. ASSUME NEW t \in Threads, HitUnpinnedExclusive(t) PROVE CreationOK(u)'
  BY <1>4, <1>0, SMTT(30) DEF HitUnpinnedExclusive, Hit, CreationOK, Creating, InPin,
      Labels, TypeOK
<1>5. ASSUME NEW t \in Threads, MissShared(t) PROVE CreationOK(u)'
  BY <1>5, <1>0, SMTT(30) DEF MissShared, Miss, CreationOK, Creating, InPin, Labels,
      TypeOK
<1>6. ASSUME NEW t \in Threads, StartScan(t) PROVE CreationOK(u)'
  BY <1>6, <1>0, SMTT(30) DEF StartScan, Miss, CreationOK, Creating, InPin, Labels,
      TypeOK
<1>7. ASSUME NEW t \in Threads, NEW f \in Frames, UseFreeSlot(t, f) PROVE
    CreationOK(u)'
  <2>1. PICK label \in {"loadLock", "mode", "lockPage"} : pc' = [pc EXCEPT ![t] = label]
    BY <1>7 DEF UseFreeSlot, Miss, Claimed
  <2>2. /\ f \in freeSlots /\ id' = [id EXCEPT ![f] = want[t]] /\ pc[t] = "lookup"
        /\ UNCHANGED <<want, kind, created, known, held>>
    BY <1>7 DEF UseFreeSlot, Miss
  <2>3. \A v \in Threads : \A g \in held[v] : g \in Frames /\ id'[g] = id[g]
    BY <1>0, <2>2 DEF HeldOK, TypeOK
  <2> QED BY <1>0, <2>1, <2>2, <2>3 DEF CreationOK, Creating, InPin, Labels, TypeOK
<1>8. ASSUME NEW t \in Threads, UndoPin(t) PROVE CreationOK(u)'
  BY <1>8, <1>0 DEF UndoPin, CreationOK, Creating, InPin, Labels, TypeOK
<1>9. ASSUME NEW t \in Threads, LockForLoad(t) PROVE CreationOK(u)'
  BY <1>9, <1>0 DEF LockForLoad, LockPage, CreationOK, Creating, InPin,
      Labels, TypeOK
<1>10. ASSUME NEW t \in Threads, Load(t) PROVE CreationOK(u)'
  BY <1>10, <1>0 DEF Load, UnlockPage, CreationOK, Creating, InPin, Labels,
      TypeOK
<1>11. ASSUME NEW t \in Threads, SkipEntry(t) PROVE CreationOK(u)'
  BY <1>11, <1>0 DEF SkipEntry, CreationOK, Creating, InPin, Labels, TypeOK
<1>12. ASSUME NEW t \in Threads, ScanLRU(t) PROVE CreationOK(u)'
  BY <1>12, <1>0 DEF ScanLRU, CreationOK, Creating, InPin, Labels, TypeOK
<1>13. ASSUME NEW t \in Threads, Raise(t) PROVE CreationOK(u)'
  BY <1>13, <1>0 DEF Raise, CreationOK, Creating, InPin, Labels, TypeOK
<1>14. ASSUME NEW t \in Threads, FindVictim(t) PROVE CreationOK(u)'
  BY <1>14, <1>0 DEF FindVictim, CreationOK, Creating, InPin, Labels, TypeOK
<1>15. ASSUME NEW t \in Threads, PinVictim(t) PROVE CreationOK(u)'
  BY <1>15, <1>0 DEF PinVictim, CreationOK, Creating, InPin, Labels, TypeOK
<1>16. ASSUME NEW t \in Threads, TestDirty(t) PROVE CreationOK(u)'
  <2>1. PICK label \in {"markClean", "recheck", "relock"} : pc' = [pc EXCEPT ![t] = label]
    BY <1>16 DEF TestDirty
  <2>2. pc[t] = "testDirty" /\ UNCHANGED <<want, kind, created, known, held, id>>
    BY <1>16 DEF TestDirty
  <2> QED BY <1>0, <2>1, <2>2 DEF CreationOK, Creating, InPin, Labels, TypeOK
<1>17. ASSUME NEW t \in Threads, MarkClean(t) PROVE CreationOK(u)'
  BY <1>17, <1>0 DEF MarkClean, CreationOK, Creating, InPin, Labels, TypeOK
<1>18. ASSUME NEW t \in Threads, LockForSave(t) PROVE CreationOK(u)'
  BY <1>18, <1>0 DEF LockForSave, LockPage, CreationOK, Creating, InPin,
      Labels, TypeOK
<1>19. ASSUME NEW t \in Threads, Save(t) PROVE CreationOK(u)'
  BY <1>19, <1>0 DEF Save, UnlockPage, CreationOK, Creating, InPin, Labels,
      TypeOK
<1>20. ASSUME NEW t \in Threads, Relock(t) PROVE CreationOK(u)'
  BY <1>20, <1>0 DEF Relock, CreationOK, Creating, InPin, Labels, TypeOK
<1>21. ASSUME NEW t \in Threads, Recheck(t) PROVE CreationOK(u)'
  BY <1>21, <1>0 DEF Recheck, CreationOK, Creating, InPin, Labels, TypeOK
<1>22. ASSUME NEW t \in Threads, GiveUp(t) PROVE CreationOK(u)'
  BY <1>22, <1>0 DEF GiveUp, CreationOK, Creating, InPin, Labels, TypeOK
<1>23. ASSUME NEW t \in Threads, Evict(t) PROVE CreationOK(u)'
  <2>1. PICK label \in {"loadLock", "mode", "lockPage"} : pc' = [pc EXCEPT ![t] = label]
    BY <1>23 DEF Evict, Claimed
  <2>2. /\ id' = [id EXCEPT ![frame[t]] = want[t]] /\ pc[t] = "recheckDirty"
        /\ UNCHANGED <<want, kind, created, known, held>>
    BY <1>23 DEF Evict
  <2>3. \A v \in Threads : frame[t] \notin held[v]
    BY <1>0, <2>2, AloneAtEvict DEF FrameOK, PinSteps, Uses
  <2>4. \A v \in Threads : \A g \in held[v] : g \in Frames /\ id'[g] = id[g]
    BY <1>0, <2>2, <2>3 DEF TypeOK
  <2> QED BY <1>0, <2>1, <2>2, <2>4 DEF CreationOK, Creating, InPin, Labels, TypeOK
<1>24. ASSUME NEW t \in Threads, ChooseMode(t) PROVE CreationOK(u)'
  BY <1>24, <1>0 DEF ChooseMode, CreationOK, Creating, InPin, Labels, TypeOK
<1>25. ASSUME NEW t \in Threads, EnterPage(t) PROVE CreationOK(u)'
  <2>1. /\ pc[t] = "lockPage" /\ pc' = [pc EXCEPT ![t] = "client"]
        /\ held' = [held EXCEPT ![t] = held[t] \cup {frame[t]}]
        /\ \A v \in Threads \ {t} : want'[v] = want[v] /\ kind'[v] = kind[v]
        /\ UNCHANGED <<id, created, known>>
    BY <1>25, <1>0 DEF EnterPage, TypeOK
  <2>2. id[frame[t]] = want[t] /\ pc[t] \in InPin
    BY <1>0, <2>1 DEF ArrivalOK, Arrived, InPin, Labels
  <2> QED BY <1>0, <2>1, <2>2 DEF CreationOK, Creating, InPin, TypeOK
<1>26. ASSUME NEW t \in Threads, ReleasePage(t) PROVE CreationOK(u)'
  BY <1>26, <1>0 DEF ReleasePage, UnlockPage, CreationOK, Creating, InPin,
      Labels, TypeOK
<1>27. ASSUME NEW t \in Threads, DecPins(t) PROVE CreationOK(u)'
  BY <1>27, <1>0 DEF DecPins, CreationOK, Creating, InPin, Labels, TypeOK
<1>28. ASSUME NEW t \in Threads, NEW p \in Pages, NEW k \in Kinds, PinPage(t,
    p, k) PROVE CreationOK(u)'
  <2>1. /\ p \in known /\ k # "create"
        /\ pc[t] = "client" /\ pc' = [pc EXCEPT ![t] = "lockTable"]
        /\ want' = [want EXCEPT ![t] = p] /\ kind' = [kind EXCEPT ![t] = k]
        /\ UNCHANGED <<id, held, known, created>>
    BY <1>28 DEF PinPage, Call
  <2> QED BY <1>0, <2>1 DEF CreationOK, Creating, CreatedOK, InPin, TypeOK
<1>29. ASSUME NEW t \in Threads, NEW p \in Pages, CreatePage(t, p) PROVE
    CreationOK(u)'
  <2>1. /\ p \in Pages \ created /\ created' = created \cup {p}
        /\ pc[t] = "client" /\ pc' = [pc EXCEPT ![t] = "lockTable"]
        /\ want' = [want EXCEPT ![t] = p] /\ kind' = [kind EXCEPT ![t] = "create"]
        /\ UNCHANGED <<id, held, known>>
    BY <1>29 DEF CreatePage, Call
  <2>2. \A v \in Threads : \A g \in held[v] : id[g] \in created
    BY <1>0 DEF HeldOK, TypeOK, CreatedOK
  <2>3. p \notin known
    BY <1>0, <2>1 DEF CreatedOK
  <2> QED BY <1>0, <2>1, <2>2, <2>3 DEF CreationOK, Creating, InPin, TypeOK
<1>30. ASSUME NEW t \in Threads, NEW f \in Frames, Write(t, f) PROVE
    CreationOK(u)'
  <2>1. /\ f \in held[t] /\ pc[t] = "client" /\ known' = known \cup {id[f]}
        /\ UNCHANGED <<pc, want, kind, id, held, created>>
    BY <1>30 DEF Write
  <2> QED BY <1>0, <2>1 DEF CreationOK, Creating, InPin, TypeOK
<1>31. ASSUME NEW t \in Threads, NEW f \in Frames, NEW d \in BOOLEAN,
    UnpinPage(t, f, d) PROVE CreationOK(u)'
  BY <1>31, <1>0, SMTT(30) DEF UnpinPage, CreationOK, Creating, InPin, Labels, TypeOK
<1>32. ASSUME Flush PROVE CreationOK(u)'
  BY <1>32, <1>0 DEF Flush, CreationOK, Creating, InPin, Labels, TypeOK
<1>33. ASSUME FlushCutShort \/ Restart PROVE CreationOK(u)'
  <2>1. PICK pages \in SUBSET Pages : StartAgain(pages)
    BY <1>33, <1>0, EndFacts
  <2> QED BY <2>1, <1>0 DEF StartAgain, NewBuffer, ResetThreads, CreationOK, Creating,
      InPin, Labels, TypeOK
<1>34. ASSUME UNCHANGED vars PROVE CreationOK(u)'
  BY <1>34, <1>0 DEF vars, CreationOK, Creating, InPin, Labels, TypeOK
<1> QED
  BY <1>1, <1>2, <1>3, <1>4, <1>5, <1>6, <1>7, <1>8, <1>9, <1>10, <1>11,
      <1>12, <1>13, <1>14, <1>15, <1>16, <1>17, <1>18, <1>19, <1>20, <1>21,
      <1>22, <1>23, <1>24, <1>25, <1>26, <1>27, <1>28, <1>29, <1>30, <1>31,
      <1>32, <1>33, <1>34 DEF Next, Pin, Lookup, Eviction, Unpin, Caller

LEMMA CreatedStep ==
  ASSUME BufferInv, CreatedOK, \A v \in Threads : CreationOK(v), [Next]_vars
  PROVE  CreatedOK'
<1> USE NoneAssumption DEF table, tableLock, counters, contents, pageLock, request, search, modes,
            client, files, history,
            At, Go, EndTurn, EndCall, RetryWith, Pinned, LockTable, UnlockTable
<1>0. /\ TypeOK /\ CreatedOK
      /\ \A v \in Threads : FrameOK(v) /\ HeldOK(v) /\ CreationOK(v)
  BY DEF BufferInv, LocalsOK
<1>1. ASSUME NEW t \in Threads, EnterTable(t) PROVE CreatedOK'
  BY <1>1, <1>0 DEF EnterTable, CreatedOK, TypeOK
<1>2. ASSUME NEW t \in Threads, HitPinned(t) PROVE CreatedOK'
  BY <1>2, <1>0 DEF HitPinned, Hit, CreatedOK, TypeOK
<1>3. ASSUME NEW t \in Threads, HitUnpinnedShared(t) PROVE CreatedOK'
  BY <1>3, <1>0 DEF HitUnpinnedShared, Hit, CreatedOK, TypeOK
<1>4. ASSUME NEW t \in Threads, HitUnpinnedExclusive(t) PROVE CreatedOK'
  BY <1>4, <1>0 DEF HitUnpinnedExclusive, Hit, CreatedOK, TypeOK
<1>5. ASSUME NEW t \in Threads, MissShared(t) PROVE CreatedOK'
  BY <1>5, <1>0 DEF MissShared, Miss, CreatedOK, TypeOK
<1>6. ASSUME NEW t \in Threads, StartScan(t) PROVE CreatedOK'
  BY <1>6, <1>0 DEF StartScan, Miss, CreatedOK, TypeOK
<1>7. ASSUME NEW t \in Threads, NEW f \in Frames, UseFreeSlot(t, f) PROVE
    CreatedOK'
  <2>1. want[t] \in created
    BY <1>7, <1>0 DEF UseFreeSlot, Miss, CreationOK, InPin, Labels
  <2>2. /\ f \in freeSlots /\ id' = [id EXCEPT ![f] = want[t]] /\ freeSlots' = freeSlots \ {f}
        /\ UNCHANGED <<created, known, latest>>
    BY <1>7 DEF UseFreeSlot
  <2> QED BY <1>0, <2>1, <2>2 DEF CreatedOK, TypeOK
<1>8. ASSUME NEW t \in Threads, UndoPin(t) PROVE CreatedOK'
  BY <1>8, <1>0 DEF UndoPin, CreatedOK, TypeOK
<1>9. ASSUME NEW t \in Threads, LockForLoad(t) PROVE CreatedOK'
  BY <1>9, <1>0 DEF LockForLoad, LockPage, CreatedOK, TypeOK
<1>10. ASSUME NEW t \in Threads, Load(t) PROVE CreatedOK'
  BY <1>10, <1>0 DEF Load, UnlockPage, CreatedOK, TypeOK
<1>11. ASSUME NEW t \in Threads, SkipEntry(t) PROVE CreatedOK'
  BY <1>11, <1>0 DEF SkipEntry, CreatedOK, TypeOK
<1>12. ASSUME NEW t \in Threads, ScanLRU(t) PROVE CreatedOK'
  BY <1>12, <1>0 DEF ScanLRU, CreatedOK, TypeOK
<1>13. ASSUME NEW t \in Threads, Raise(t) PROVE CreatedOK'
  BY <1>13, <1>0 DEF Raise, CreatedOK, TypeOK
<1>14. ASSUME NEW t \in Threads, FindVictim(t) PROVE CreatedOK'
  BY <1>14, <1>0 DEF FindVictim, CreatedOK, TypeOK
<1>15. ASSUME NEW t \in Threads, PinVictim(t) PROVE CreatedOK'
  BY <1>15, <1>0 DEF PinVictim, CreatedOK, TypeOK
<1>16. ASSUME NEW t \in Threads, TestDirty(t) PROVE CreatedOK'
  BY <1>16, <1>0 DEF TestDirty, CreatedOK, TypeOK
<1>17. ASSUME NEW t \in Threads, MarkClean(t) PROVE CreatedOK'
  BY <1>17, <1>0 DEF MarkClean, CreatedOK, TypeOK
<1>18. ASSUME NEW t \in Threads, LockForSave(t) PROVE CreatedOK'
  BY <1>18, <1>0 DEF LockForSave, LockPage, CreatedOK, TypeOK
<1>19. ASSUME NEW t \in Threads, Save(t) PROVE CreatedOK'
  BY <1>19, <1>0 DEF Save, UnlockPage, CreatedOK, TypeOK
<1>20. ASSUME NEW t \in Threads, Relock(t) PROVE CreatedOK'
  BY <1>20, <1>0 DEF Relock, CreatedOK, TypeOK
<1>21. ASSUME NEW t \in Threads, Recheck(t) PROVE CreatedOK'
  BY <1>21, <1>0 DEF Recheck, CreatedOK, TypeOK
<1>22. ASSUME NEW t \in Threads, GiveUp(t) PROVE CreatedOK'
  BY <1>22, <1>0 DEF GiveUp, CreatedOK, TypeOK
<1>23. ASSUME NEW t \in Threads, Evict(t) PROVE CreatedOK'
  <2>1. want[t] \in created /\ frame[t] \in Frames \ freeSlots
    BY <1>23, <1>0 DEF Evict, CreationOK, InPin, Labels, FrameOK, PinSteps
  <2>2. id' = [id EXCEPT ![frame[t]] = want[t]] /\ UNCHANGED <<created, known, latest, freeSlots>>
    BY <1>23 DEF Evict
  <2> QED BY <1>0, <2>1, <2>2 DEF CreatedOK, TypeOK
<1>24. ASSUME NEW t \in Threads, ChooseMode(t) PROVE CreatedOK'
  BY <1>24, <1>0 DEF ChooseMode, CreatedOK, TypeOK
<1>25. ASSUME NEW t \in Threads, EnterPage(t) PROVE CreatedOK'
  BY <1>25, <1>0 DEF EnterPage, LockPage, CreatedOK, TypeOK
<1>26. ASSUME NEW t \in Threads, ReleasePage(t) PROVE CreatedOK'
  BY <1>26, <1>0 DEF ReleasePage, UnlockPage, CreatedOK, TypeOK
<1>27. ASSUME NEW t \in Threads, DecPins(t) PROVE CreatedOK'
  BY <1>27, <1>0 DEF DecPins, CreatedOK, TypeOK
<1>28. ASSUME NEW t \in Threads, NEW p \in Pages, NEW k \in Kinds, PinPage(t,
    p, k) PROVE CreatedOK'
  BY <1>28, <1>0 DEF PinPage, Call, CreatedOK, TypeOK
<1>29. ASSUME NEW t \in Threads, NEW p \in Pages, CreatePage(t, p) PROVE
    CreatedOK'
  BY <1>29, <1>0 DEF CreatePage, Call, CreatedOK, TypeOK
<1>30. ASSUME NEW t \in Threads, NEW f \in Frames, Write(t, f) PROVE
    CreatedOK'
  <2>1. f \in Frames \ freeSlots /\ id[f] \in created
    BY <1>30, <1>0 DEF Write, HeldOK, CreatedOK
  <2>2. /\ known' = known \cup {id[f]}
        /\ \A p \in Pages \ {id[f]} : latest'[p] = latest[p]
        /\ UNCHANGED <<created, freeSlots, id>>
    BY <1>30, <1>0 DEF Write, TypeOK
  <2> QED BY <1>0, <2>1, <2>2 DEF CreatedOK
<1>31. ASSUME NEW t \in Threads, NEW f \in Frames, NEW d \in BOOLEAN,
    UnpinPage(t, f, d) PROVE CreatedOK'
  BY <1>31, <1>0 DEF UnpinPage, CreatedOK, TypeOK
<1>32. ASSUME Flush PROVE CreatedOK'
  BY <1>32, <1>0 DEF Flush, CreatedOK, TypeOK
<1>33. ASSUME FlushCutShort \/ Restart PROVE CreatedOK'
  <2>1. PICK pages \in SUBSET Pages : StartAgain(pages)
    BY <1>33, <1>0, EndFacts
  <2> QED BY <2>1, <1>0 DEF StartAgain, NewBuffer, ResetThreads, CreatedOK, TypeOK
<1>34. ASSUME UNCHANGED vars PROVE CreatedOK'
  BY <1>34, <1>0 DEF vars, CreatedOK, TypeOK
<1> QED
  BY <1>1, <1>2, <1>3, <1>4, <1>5, <1>6, <1>7, <1>8, <1>9, <1>10, <1>11,
      <1>12, <1>13, <1>14, <1>15, <1>16, <1>17, <1>18, <1>19, <1>20, <1>21,
      <1>22, <1>23, <1>24, <1>25, <1>26, <1>27, <1>28, <1>29, <1>30, <1>31,
      <1>32, <1>33, <1>34 DEF Next, Pin, Lookup, Eviction, Unpin, Caller

(* A page that is in somebody's hands is loaded. *)
LEMMA HeldIsLoaded ==
  ASSUME BufferInv, PageLocksOwned, \A v \in Threads : ArrivalOK(v),
         NEW t \in Threads, NEW g \in held[t]
  PROVE  ~Loading(g)
<1> SUFFICES ASSUME NEW u \in Threads, pc[u] \in {"loadLock", "load"}, frame[u] = g
             PROVE  FALSE
  BY DEF Loading
<1>1. g \in Frames /\ g \notin held[u]
  BY DEF BufferInv, TypeOK, LocalsOK, FrameOK, PinSteps
<1>2. u # t
  BY <1>1
<1>3. CASE pc[u] = "loadLock"
  BY <1>2, <1>3, AloneAtLoad DEF Uses
<1>4. CASE pc[u] = "load"
  BY <1>1, <1>2, <1>4 DEF PageLocksOwned, PageLockOwned
<1> QED BY <1>3, <1>4

(* A page that somebody writes is not being saved. *)
LEMMA WrittenNotSaved ==
  ASSUME BufferInv, PageLocksOwned, NEW t \in Threads, NEW u \in Threads,
         pc[t] \in {"load", "save"}, frame[t] \in wrote[u]
  PROVE  FALSE
<1>1. frame[t] \in Frames /\ frame[t] \notin held[t]
  BY DEF BufferInv, LocalsOK, FrameOK, PinSteps
<1> QED BY <1>1 DEF PageLocksOwned, PageLockOwned

(***************************************************************************)
(* What a thread does to its own place leaves the others at theirs.        *)
(***************************************************************************)
OthersStay(t) == \A v \in Threads \ {t} : pc'[v] = pc[v] /\ frame'[v] = frame[v]

LEMMA SavingStays ==
  ASSUME NEW t \in Threads, OthersStay(t), pc[t] \notin {"saveLock", "save"}
  PROVE  \A g : Saving(g) => Saving(g)'
BY DEF OthersStay, Saving, SaveSteps

LEMMA LoadingStays ==
  ASSUME NEW t \in Threads, OthersStay(t), pc'[t] \notin LoadSteps
  PROVE  \A g : Loading(g)' => Loading(g)
BY DEF OthersStay, Loading, LoadSteps

(* A step that saves and loads nothing and gives nothing back. *)
LEMMA SavesStay ==
  ASSUME NEW t \in Threads, OthersStay(t), pc[t] \notin {"saveLock", "save"},
         pc'[t] \notin SaveSteps \cup LoadSteps \cup {"unlockPage"},
         UNCHANGED <<id, dirty, known, wrote>>,
         NEW u \in Threads, NEW g, SavesOK(g, u)
  PROVE  SavesOK(g, u)'
<1>1. CASE u = t
  BY <1>1 DEF SavesOK
<1>2. CASE u # t
  <2>1. pc'[u] = pc[u] /\ frame'[u] = frame[u]
    BY <1>2 DEF OthersStay
  <2>2. Saving(g) => Saving(g)'
    BY SavingStays
  <2>3. Loading(g)' => Loading(g)
    BY LoadingStays
  <2> QED BY <2>1, <2>2, <2>3 DEF SavesOK
<1> QED BY <1>1, <1>2

(***************************************************************************)
(* Every step preserves that frames are loaded before they are saved, and  *)
(* that a change is reported, or already on its way to the file, before    *)
(* the page is released.                                                   *)
(***************************************************************************)
LEMMA SavesStep ==
  ASSUME BufferInv, PageLocksOwned, DirtyKnown,
         \A v \in Threads : ArrivalOK(v),
         \A f \in Frames, v \in Threads : SavesOK(f, v), [Next]_vars, NEW g \in Frames, NEW u \in Threads
  PROVE  SavesOK(g, u)'
<1> USE NoneAssumption DEF table, tableLock, counters, contents, pageLock, request, search, modes,
            client, files, history,
            At, Go, EndTurn, EndCall, RetryWith, Pinned, LockTable, UnlockTable
<1>0. /\ TypeOK /\ DirtyKnown
      /\ \A v \in Threads : FrameOK(v) /\ HeldOK(v)
      /\ SavesOK(g, u) /\ \A f \in Frames, v \in Threads : SavesOK(f, v)
  BY DEF BufferInv, LocalsOK
<1>1. ASSUME NEW t \in Threads, EnterTable(t) PROVE SavesOK(g, u)'
  BY <1>1, <1>0 DEF EnterTable, SavesOK, SaveSteps, LoadSteps, Saving,
      Loading, TypeOK
<1>2. ASSUME NEW t \in Threads, HitPinned(t) PROVE SavesOK(g, u)'
  <2>1. /\ UNCHANGED <<id, dirty, known, wrote>> /\ pc[t] \notin {"saveLock", "save"}
        /\ pc'[t] \in {"mode", "lockPage"}
    BY <1>2, <1>0 DEF HitPinned, Hit, TypeOK
  <2>2. OthersStay(t)
    BY <1>2, <1>0 DEF HitPinned, Hit, OthersStay, TypeOK
  <2> QED BY <1>0, <2>1, <2>2, SavesStay DEF SaveSteps, LoadSteps
<1>3. ASSUME NEW t \in Threads, HitUnpinnedShared(t) PROVE SavesOK(g, u)'
  <2>1. /\ UNCHANGED <<id, dirty, known, wrote>> /\ pc[t] \notin {"saveLock", "save"}
        /\ pc'[t] \in {"undoPin"}
    BY <1>3, <1>0 DEF HitUnpinnedShared, Hit, TypeOK
  <2>2. OthersStay(t)
    BY <1>3, <1>0 DEF HitUnpinnedShared, Hit, OthersStay, TypeOK
  <2> QED BY <1>0, <2>1, <2>2, SavesStay DEF SaveSteps, LoadSteps
<1>4. ASSUME NEW t \in Threads, HitUnpinnedExclusive(t) PROVE SavesOK(g, u)'
  <2>1. /\ UNCHANGED <<id, dirty, known, wrote>> /\ pc[t] \notin {"saveLock", "save"}
        /\ pc'[t] \in {"mode", "lockPage"}
    BY <1>4, <1>0 DEF HitUnpinnedExclusive, Hit, TypeOK
  <2>2. OthersStay(t)
    BY <1>4, <1>0 DEF HitUnpinnedExclusive, Hit, OthersStay, TypeOK
  <2> QED BY <1>0, <2>1, <2>2, SavesStay DEF SaveSteps, LoadSteps
<1>5. ASSUME NEW t \in Threads, MissShared(t) PROVE SavesOK(g, u)'
  <2>1. /\ UNCHANGED <<id, dirty, known, wrote>> /\ pc[t] \notin {"saveLock", "save"}
        /\ pc'[t] \in {"lockTable"}
    BY <1>5, <1>0 DEF MissShared, Miss, TypeOK
  <2>2. OthersStay(t)
    BY <1>5, <1>0 DEF MissShared, Miss, OthersStay, TypeOK
  <2> QED BY <1>0, <2>1, <2>2, SavesStay DEF SaveSteps, LoadSteps
<1>6. ASSUME NEW t \in Threads, StartScan(t) PROVE SavesOK(g, u)'
  BY <1>6, <1>0 DEF StartScan, Miss, SavesOK, SaveSteps, LoadSteps, Saving,
      Loading, TypeOK
<1>7. ASSUME NEW t \in Threads, NEW f \in Frames, UseFreeSlot(t, f) PROVE
    SavesOK(g, u)'
  <2>1. PICK label \in {"loadLock", "mode", "lockPage"} : pc' = [pc EXCEPT ![t] = label]
    BY <1>7 DEF UseFreeSlot, Miss, Claimed
  <2>2. /\ f \in freeSlots /\ id' = [id EXCEPT ![f] = want[t]] /\ pc[t] = "lookup"
        /\ dirty' = [dirty EXCEPT ![f] = FALSE] /\ frame' = [frame EXCEPT ![t] = f]
        /\ UNCHANGED <<known, wrote>>
    BY <1>7 DEF UseFreeSlot, Miss
  <2>3. pc[u] \in SaveSteps \cup {"load", "loadLock", "unlockPage"} => frame[u] \in Frames \ freeSlots
    BY <1>0 DEF FrameOK, HeldOK, PinSteps, SaveSteps
  <2>4. OthersStay(t) /\ label = pc'[t] /\ frame'[t] = f
    BY <1>0, <2>1, <2>2 DEF OthersStay, TypeOK
  <2>5. CASE u = t
    BY <1>0, <2>1, <2>2, <2>4, <2>5 DEF SavesOK, SaveSteps, LoadSteps, TypeOK
  <2>6. CASE u # t
    <3>1. pc'[u] = pc[u] /\ frame'[u] = frame[u]
      BY <2>4, <2>6 DEF OthersStay
    <3>2. Saving(g) => Saving(g)'
      BY <2>2, <2>4, SavingStays
    <3>3. frame[u] = g /\ pc[u] \in SaveSteps \cup {"load", "loadLock", "unlockPage"} =>
            g # f /\ id'[g] = id[g] /\ dirty'[g] = dirty[g]
      BY <1>0, <2>2, <2>3, <2>6 DEF FrameOK, SaveSteps, PinSteps, HeldOK, TypeOK
    <3>4. g # f /\ Loading(g)' => Loading(g)
      BY <2>4, <3>3 DEF OthersStay, Loading
    <3>5. UNCHANGED <<known, wrote>> /\ SavesOK(g, u)
      BY <1>0, <2>2
    <3> QED BY <3>1, <3>2, <3>3, <3>4, <3>5 DEF SavesOK, LoadSteps, SaveSteps
  <2> QED BY <2>5, <2>6
<1>8. ASSUME NEW t \in Threads, UndoPin(t) PROVE SavesOK(g, u)'
  <2>1. /\ UNCHANGED <<id, dirty, known, wrote>> /\ pc[t] \notin {"saveLock", "save"}
        /\ pc'[t] \in {"lockTable"}
    BY <1>8, <1>0 DEF UndoPin, TypeOK
  <2>2. OthersStay(t)
    BY <1>8, <1>0 DEF UndoPin, OthersStay, TypeOK
  <2> QED BY <1>0, <2>1, <2>2, SavesStay DEF SaveSteps, LoadSteps
<1>9. ASSUME NEW t \in Threads, LockForLoad(t) PROVE SavesOK(g, u)'
  BY <1>9, <1>0 DEF LockForLoad, LockPage, SavesOK, SaveSteps, LoadSteps,
      Saving, Loading, TypeOK
<1>10. ASSUME NEW t \in Threads, Load(t) PROVE SavesOK(g, u)'
  BY <1>10, <1>0 DEF Load, UnlockPage, SavesOK, SaveSteps, LoadSteps, Saving,
      Loading, TypeOK
<1>11. ASSUME NEW t \in Threads, SkipEntry(t) PROVE SavesOK(g, u)'
  BY <1>11, <1>0 DEF SkipEntry, SavesOK, SaveSteps, LoadSteps, Saving,
      Loading, TypeOK
<1>12. ASSUME NEW t \in Threads, ScanLRU(t) PROVE SavesOK(g, u)'
  BY <1>12, <1>0 DEF ScanLRU, SavesOK, SaveSteps, LoadSteps, Saving, Loading,
      TypeOK
<1>13. ASSUME NEW t \in Threads, Raise(t) PROVE SavesOK(g, u)'
  BY <1>13, <1>0 DEF Raise, SavesOK, SaveSteps, LoadSteps, Saving, Loading,
      TypeOK
<1>14. ASSUME NEW t \in Threads, FindVictim(t) PROVE SavesOK(g, u)'
  <2>1. /\ UNCHANGED <<id, dirty, known, wrote>> /\ pc[t] \notin {"saveLock", "save"}
        /\ pc'[t] \in {"pinVictim"}
    BY <1>14, <1>0 DEF FindVictim, TypeOK
  <2>2. OthersStay(t)
    BY <1>14, <1>0 DEF FindVictim, OthersStay, TypeOK
  <2> QED BY <1>0, <2>1, <2>2, SavesStay DEF SaveSteps, LoadSteps
<1>15. ASSUME NEW t \in Threads, PinVictim(t) PROVE SavesOK(g, u)'
  BY <1>15, <1>0 DEF PinVictim, SavesOK, SaveSteps, LoadSteps, Saving,
      Loading, TypeOK
<1>16. ASSUME NEW t \in Threads, TestDirty(t) PROVE SavesOK(g, u)'
  <2>1. PICK label \in {"markClean", "recheck", "relock"} :
          pc' = [pc EXCEPT ![t] = label] /\ (label = "markClean" => dirty[frame[t]])
    BY <1>16 DEF TestDirty
  <2>2. pc[t] = "testDirty" /\ UNCHANGED <<id, known, frame, wrote, dirty>>
    BY <1>16 DEF TestDirty
  <2>3. dirty[frame[t]] => id[frame[t]] \in known /\ ~Loading(frame[t])
    BY <1>0, <2>2 DEF FrameOK, PinSteps, DirtyKnown, SavesOK, LoadSteps, Loading
  <2> QED BY <1>0, <2>1, <2>2, <2>3 DEF SavesOK, SaveSteps, LoadSteps, Saving, Loading, TypeOK
<1>17. ASSUME NEW t \in Threads, MarkClean(t) PROVE SavesOK(g, u)'
  <2>1. /\ pc[t] = "markClean" /\ pc' = [pc EXCEPT ![t] = "saveLock"]
        /\ dirty' = [dirty EXCEPT ![frame[t]] = FALSE] /\ UNCHANGED <<id, known, frame, wrote>>
    BY <1>17 DEF MarkClean
  <2> QED BY <1>0, <2>1 DEF SavesOK, SaveSteps, LoadSteps, Saving, Loading, TypeOK
<1>18. ASSUME NEW t \in Threads, LockForSave(t) PROVE SavesOK(g, u)'
  BY <1>18, <1>0, SMTT(30) DEF LockForSave, LockPage, SavesOK, SaveSteps, LoadSteps,
      Saving, Loading, TypeOK
<1>19. ASSUME NEW t \in Threads, Save(t) PROVE SavesOK(g, u)'
  <2>1. /\ pc[t] = "save" /\ pc' = [pc EXCEPT ![t] = "relock"]
        /\ UNCHANGED <<id, known, frame, wrote, dirty>>
    BY <1>19 DEF Save
  <2>2. g \in wrote[u] => g # frame[t]
    BY <2>1, WrittenNotSaved
  <2> QED BY <1>0, <2>1, <2>2 DEF SavesOK, SaveSteps, LoadSteps, Saving, Loading, TypeOK
<1>20. ASSUME NEW t \in Threads, Relock(t) PROVE SavesOK(g, u)'
  BY <1>20, <1>0 DEF Relock, SavesOK, SaveSteps, LoadSteps, Saving, Loading,
      TypeOK
<1>21. ASSUME NEW t \in Threads, Recheck(t) PROVE SavesOK(g, u)'
  BY <1>21, <1>0 DEF Recheck, SavesOK, SaveSteps, LoadSteps, Saving, Loading,
      TypeOK
<1>22. ASSUME NEW t \in Threads, GiveUp(t) PROVE SavesOK(g, u)'
  <2>1. /\ UNCHANGED <<id, dirty, known, wrote>> /\ pc[t] \notin {"saveLock", "save"}
        /\ pc'[t] \in {"lockTable"}
    BY <1>22, <1>0 DEF GiveUp, TypeOK
  <2>2. OthersStay(t)
    BY <1>22, <1>0 DEF GiveUp, OthersStay, TypeOK
  <2> QED BY <1>0, <2>1, <2>2, SavesStay DEF SaveSteps, LoadSteps
<1>23. ASSUME NEW t \in Threads, Evict(t) PROVE SavesOK(g, u)'
  <2>1. PICK label \in {"loadLock", "mode", "lockPage"} : pc' = [pc EXCEPT ![t] = label]
    BY <1>23 DEF Evict, Claimed
  <2>2. /\ id' = [id EXCEPT ![frame[t]] = want[t]] /\ pc[t] = "recheckDirty"
        /\ dirty' = [dirty EXCEPT ![frame[t]] = FALSE] /\ UNCHANGED <<frame, known, wrote>>
    BY <1>23 DEF Evict
  <2>3. u # t /\ pc[u] \in SaveSteps \cup {"load", "loadLock", "unlockPage"} => frame[u] # frame[t]
    BY <1>0, <2>2, AloneAtEvict DEF Uses, PinSteps, SaveSteps, FrameOK
  <2>4. OthersStay(t) /\ label = pc'[t] /\ frame'[t] = frame[t]
    BY <1>0, <2>1, <2>2 DEF OthersStay, TypeOK
  <2>5. CASE u = t
    BY <1>0, <2>1, <2>2, <2>4, <2>5 DEF SavesOK, SaveSteps, LoadSteps, TypeOK
  <2>6. CASE u # t
    <3>1. pc'[u] = pc[u] /\ frame'[u] = frame[u]
      BY <2>4, <2>6 DEF OthersStay
    <3>2. Saving(g) => Saving(g)'
      BY <2>2, <2>4, SavingStays
    <3>3. frame[u] = g /\ pc[u] \in SaveSteps \cup {"load", "loadLock", "unlockPage"} =>
            g # frame[t] /\ id'[g] = id[g] /\ dirty'[g] = dirty[g]
      BY <1>0, <2>2, <2>3, <2>6 DEF FrameOK, SaveSteps, PinSteps, HeldOK, TypeOK
    <3>4. g # frame[t] /\ Loading(g)' => Loading(g)
      BY <2>4, <3>3 DEF OthersStay, Loading
    <3>5. UNCHANGED <<known, wrote>> /\ SavesOK(g, u)
      BY <1>0, <2>2
    <3> QED BY <3>1, <3>2, <3>3, <3>4, <3>5 DEF SavesOK, LoadSteps, SaveSteps
  <2> QED BY <2>5, <2>6
<1>24. ASSUME NEW t \in Threads, ChooseMode(t) PROVE SavesOK(g, u)'
  BY <1>24, <1>0 DEF ChooseMode, SavesOK, SaveSteps, LoadSteps, Saving,
      Loading, TypeOK
<1>25. ASSUME NEW t \in Threads, EnterPage(t) PROVE SavesOK(g, u)'
  <2>1. /\ UNCHANGED <<id, dirty, known, wrote>> /\ pc[t] \notin {"saveLock", "save"}
        /\ pc'[t] \in {"client"}
    BY <1>25, <1>0 DEF EnterPage, TypeOK
  <2>2. OthersStay(t)
    BY <1>25, <1>0 DEF EnterPage, OthersStay, TypeOK
  <2> QED BY <1>0, <2>1, <2>2, SavesStay DEF SaveSteps, LoadSteps
<1>26. ASSUME NEW t \in Threads, ReleasePage(t) PROVE SavesOK(g, u)'
  BY <1>26, <1>0 DEF ReleasePage, UnlockPage, SavesOK, SaveSteps, LoadSteps,
      Saving, Loading, TypeOK
<1>27. ASSUME NEW t \in Threads, DecPins(t) PROVE SavesOK(g, u)'
  <2>1. /\ UNCHANGED <<id, dirty, known, wrote>> /\ pc[t] \notin {"saveLock", "save"}
        /\ pc'[t] \in {"client"}
    BY <1>27, <1>0 DEF DecPins, TypeOK
  <2>2. OthersStay(t)
    BY <1>27, <1>0 DEF DecPins, OthersStay, TypeOK
  <2> QED BY <1>0, <2>1, <2>2, SavesStay DEF SaveSteps, LoadSteps
<1>28. ASSUME NEW t \in Threads, NEW p \in Pages, NEW k \in Kinds, PinPage(t,
    p, k) PROVE SavesOK(g, u)'
  BY <1>28, <1>0, SMTT(30) DEF PinPage, Call, SavesOK, SaveSteps, LoadSteps, Saving,
      Loading, TypeOK
<1>29. ASSUME NEW t \in Threads, NEW p \in Pages, CreatePage(t, p) PROVE
    SavesOK(g, u)'
  BY <1>29, <1>0 DEF CreatePage, Call, SavesOK, SaveSteps, LoadSteps, Saving,
      Loading, TypeOK
<1>30. ASSUME NEW t \in Threads, NEW f \in Frames, Write(t, f) PROVE
    SavesOK(g, u)'
  BY <1>30, <1>0, SMTT(30) DEF Write, SavesOK, SaveSteps, LoadSteps, Saving, Loading,
      TypeOK
<1>31. ASSUME NEW t \in Threads, NEW f \in Frames, NEW d \in BOOLEAN,
    UnpinPage(t, f, d) PROVE SavesOK(g, u)'
  <2>1. /\ pc[t] = "client" /\ pc' = [pc EXCEPT ![t] = "unlockPage"]
        /\ f \in held[t] /\ frame' = [frame EXCEPT ![t] = f] /\ (f \in wrote[t] => d)
        /\ dirty' = [dirty EXCEPT ![f] = dirty[f] \/ d] /\ UNCHANGED <<id, known, wrote>>
    BY <1>31 DEF UnpinPage
  <2>2. ~Loading(f)
    BY <2>1, HeldIsLoaded
  <2>3. OthersStay(t) /\ pc'[t] = "unlockPage" /\ frame'[t] = f /\ dirty'[f] = (dirty[f] \/ d)
    BY <1>0, <2>1 DEF OthersStay, TypeOK
  <2>4. CASE u = t
    BY <2>1, <2>3, <2>4 DEF SavesOK, SaveSteps, LoadSteps
  <2>5. CASE u # t
    <3>1. pc'[u] = pc[u] /\ frame'[u] = frame[u]
      BY <2>3, <2>5 DEF OthersStay
    <3>2. /\ Saving(g) => Saving(g)'
          /\ Loading(g)' => Loading(g)
      BY <2>1, <2>3, SavingStays, LoadingStays DEF LoadSteps
    <3>3. frame[u] = g /\ pc[u] \in LoadSteps => g # f
      BY <2>2 DEF Loading, LoadSteps
    <3>4. dirty[g] => dirty'[g]
      BY <1>0, <2>1 DEF TypeOK
    <3>5. frame[u] = g /\ pc[u] \in LoadSteps => dirty'[g] = dirty[g]
      BY <1>0, <2>1, <3>3 DEF TypeOK
    <3> QED BY <1>0, <2>1, <3>1, <3>2, <3>4, <3>5 DEF SavesOK
  <2> QED BY <2>4, <2>5
<1>32. ASSUME Flush PROVE SavesOK(g, u)'
  BY <1>32, <1>0 DEF Flush, SavesOK, SaveSteps, LoadSteps, Saving, Loading,
      TypeOK
<1>33. ASSUME FlushCutShort \/ Restart PROVE SavesOK(g, u)'
  <2>1. PICK pages \in SUBSET Pages : StartAgain(pages)
    BY <1>33, <1>0, EndFacts
  <2> QED BY <2>1, <1>0 DEF StartAgain, NewBuffer, ResetThreads, SavesOK, SaveSteps,
      LoadSteps, Saving, Loading, TypeOK
<1>34. ASSUME UNCHANGED vars PROVE SavesOK(g, u)'
  BY <1>34, <1>0 DEF vars, SavesOK, SaveSteps, LoadSteps, Saving, Loading,
      TypeOK
<1> QED
  BY <1>1, <1>2, <1>3, <1>4, <1>5, <1>6, <1>7, <1>8, <1>9, <1>10, <1>11,
      <1>12, <1>13, <1>14, <1>15, <1>16, <1>17, <1>18, <1>19, <1>20, <1>21,
      <1>22, <1>23, <1>24, <1>25, <1>26, <1>27, <1>28, <1>29, <1>30, <1>31,
      <1>32, <1>33, <1>34 DEF Next, Pin, Lookup, Eviction, Unpin, Caller

LEMMA DirtyStep ==
  ASSUME BufferInv, DirtyKnown, [Next]_vars
  PROVE  DirtyKnown'
<1> USE NoneAssumption DEF table, tableLock, counters, contents, pageLock, request, search, modes,
            client, files, history,
            At, Go, EndTurn, EndCall, RetryWith, Pinned, LockTable, UnlockTable
<1>0. TypeOK /\ DirtyKnown
  BY DEF BufferInv
<1>1. ASSUME NEW t \in Threads, EnterTable(t) PROVE DirtyKnown'
  BY <1>1, <1>0 DEF EnterTable, DirtyKnown, TypeOK
<1>2. ASSUME NEW t \in Threads, HitPinned(t) PROVE DirtyKnown'
  BY <1>2, <1>0 DEF HitPinned, Hit, DirtyKnown, TypeOK
<1>3. ASSUME NEW t \in Threads, HitUnpinnedShared(t) PROVE DirtyKnown'
  BY <1>3, <1>0 DEF HitUnpinnedShared, Hit, DirtyKnown, TypeOK
<1>4. ASSUME NEW t \in Threads, HitUnpinnedExclusive(t) PROVE DirtyKnown'
  BY <1>4, <1>0 DEF HitUnpinnedExclusive, Hit, DirtyKnown, TypeOK
<1>5. ASSUME NEW t \in Threads, MissShared(t) PROVE DirtyKnown'
  BY <1>5, <1>0 DEF MissShared, Miss, DirtyKnown, TypeOK
<1>6. ASSUME NEW t \in Threads, StartScan(t) PROVE DirtyKnown'
  BY <1>6, <1>0 DEF StartScan, Miss, DirtyKnown, TypeOK
<1>7. ASSUME NEW t \in Threads, NEW f \in Frames, UseFreeSlot(t, f) PROVE
    DirtyKnown'
  <2>1. /\ dirty' = [dirty EXCEPT ![f] = FALSE] /\ id' = [id EXCEPT ![f] = want[t]]
        /\ known' = known /\ freeSlots' = freeSlots \ {f}
    BY <1>7 DEF UseFreeSlot
  <2> QED BY <1>0, <2>1 DEF DirtyKnown, TypeOK
<1>8. ASSUME NEW t \in Threads, UndoPin(t) PROVE DirtyKnown'
  BY <1>8, <1>0 DEF UndoPin, DirtyKnown, TypeOK
<1>9. ASSUME NEW t \in Threads, LockForLoad(t) PROVE DirtyKnown'
  BY <1>9, <1>0 DEF LockForLoad, LockPage, DirtyKnown, TypeOK
<1>10. ASSUME NEW t \in Threads, Load(t) PROVE DirtyKnown'
  BY <1>10, <1>0 DEF Load, UnlockPage, DirtyKnown, TypeOK
<1>11. ASSUME NEW t \in Threads, SkipEntry(t) PROVE DirtyKnown'
  BY <1>11, <1>0 DEF SkipEntry, DirtyKnown, TypeOK
<1>12. ASSUME NEW t \in Threads, ScanLRU(t) PROVE DirtyKnown'
  BY <1>12, <1>0 DEF ScanLRU, DirtyKnown, TypeOK
<1>13. ASSUME NEW t \in Threads, Raise(t) PROVE DirtyKnown'
  BY <1>13, <1>0 DEF Raise, DirtyKnown, TypeOK
<1>14. ASSUME NEW t \in Threads, FindVictim(t) PROVE DirtyKnown'
  BY <1>14, <1>0 DEF FindVictim, DirtyKnown, TypeOK
<1>15. ASSUME NEW t \in Threads, PinVictim(t) PROVE DirtyKnown'
  BY <1>15, <1>0 DEF PinVictim, DirtyKnown, TypeOK
<1>16. ASSUME NEW t \in Threads, TestDirty(t) PROVE DirtyKnown'
  BY <1>16, <1>0 DEF TestDirty, DirtyKnown, TypeOK
<1>17. ASSUME NEW t \in Threads, MarkClean(t) PROVE DirtyKnown'
  BY <1>17, <1>0 DEF MarkClean, DirtyKnown, TypeOK
<1>18. ASSUME NEW t \in Threads, LockForSave(t) PROVE DirtyKnown'
  BY <1>18, <1>0 DEF LockForSave, LockPage, DirtyKnown, TypeOK
<1>19. ASSUME NEW t \in Threads, Save(t) PROVE DirtyKnown'
  BY <1>19, <1>0 DEF Save, UnlockPage, DirtyKnown, TypeOK
<1>20. ASSUME NEW t \in Threads, Relock(t) PROVE DirtyKnown'
  BY <1>20, <1>0 DEF Relock, DirtyKnown, TypeOK
<1>21. ASSUME NEW t \in Threads, Recheck(t) PROVE DirtyKnown'
  BY <1>21, <1>0 DEF Recheck, DirtyKnown, TypeOK
<1>22. ASSUME NEW t \in Threads, GiveUp(t) PROVE DirtyKnown'
  BY <1>22, <1>0 DEF GiveUp, DirtyKnown, TypeOK
<1>23. ASSUME NEW t \in Threads, Evict(t) PROVE DirtyKnown'
  <2>1. dirty' = [dirty EXCEPT ![frame[t]] = FALSE] /\ UNCHANGED <<known, freeSlots>>
        /\ id' = [id EXCEPT ![frame[t]] = want[t]]
    BY <1>23 DEF Evict
  <2> QED BY <1>0, <2>1 DEF DirtyKnown, TypeOK
<1>24. ASSUME NEW t \in Threads, ChooseMode(t) PROVE DirtyKnown'
  BY <1>24, <1>0 DEF ChooseMode, DirtyKnown, TypeOK
<1>25. ASSUME NEW t \in Threads, EnterPage(t) PROVE DirtyKnown'
  BY <1>25, <1>0 DEF EnterPage, LockPage, DirtyKnown, TypeOK
<1>26. ASSUME NEW t \in Threads, ReleasePage(t) PROVE DirtyKnown'
  BY <1>26, <1>0 DEF ReleasePage, UnlockPage, DirtyKnown, TypeOK
<1>27. ASSUME NEW t \in Threads, DecPins(t) PROVE DirtyKnown'
  BY <1>27, <1>0 DEF DecPins, DirtyKnown, TypeOK
<1>28. ASSUME NEW t \in Threads, NEW p \in Pages, NEW k \in Kinds, PinPage(t,
    p, k) PROVE DirtyKnown'
  BY <1>28, <1>0 DEF PinPage, Call, DirtyKnown, TypeOK
<1>29. ASSUME NEW t \in Threads, NEW p \in Pages, CreatePage(t, p) PROVE
    DirtyKnown'
  BY <1>29, <1>0 DEF CreatePage, Call, DirtyKnown, TypeOK
<1>30. ASSUME NEW t \in Threads, NEW f \in Frames, Write(t, f) PROVE
    DirtyKnown'
  BY <1>30, <1>0 DEF Write, DirtyKnown, TypeOK
<1>31. ASSUME NEW t \in Threads, NEW f \in Frames, NEW d \in BOOLEAN,
    UnpinPage(t, f, d) PROVE DirtyKnown'
  BY <1>31, <1>0 DEF UnpinPage, DirtyKnown, TypeOK
<1>32. ASSUME Flush PROVE DirtyKnown'
  BY <1>32, <1>0 DEF Flush, DirtyKnown, TypeOK
<1>33. ASSUME FlushCutShort \/ Restart PROVE DirtyKnown'
  <2>1. PICK pages \in SUBSET Pages : StartAgain(pages)
    BY <1>33, <1>0, EndFacts
  <2> QED BY <2>1, <1>0 DEF StartAgain, NewBuffer, ResetThreads, DirtyKnown, TypeOK
<1>34. ASSUME UNCHANGED vars PROVE DirtyKnown'
  BY <1>34, <1>0 DEF vars, DirtyKnown, TypeOK
<1> QED
  BY <1>1, <1>2, <1>3, <1>4, <1>5, <1>6, <1>7, <1>8, <1>9, <1>10, <1>11,
      <1>12, <1>13, <1>14, <1>15, <1>16, <1>17, <1>18, <1>19, <1>20, <1>21,
      <1>22, <1>23, <1>24, <1>25, <1>26, <1>27, <1>28, <1>29, <1>30, <1>31,
      <1>32, <1>33, <1>34 DEF Next, Pin, Lookup, Eviction, Unpin, Caller

(***************************************************************************)
(* Where the newest versions are.                                          *)
(***************************************************************************)
LEMMA LoadingKept ==
  ASSUME NEW t \in Threads, OthersStay(t), NEW g,
         pc[t] \in LoadSteps /\ frame[t] = g => pc'[t] \in LoadSteps /\ frame'[t] = g
  PROVE  Loading(g) => Loading(g)'
BY DEF OthersStay, Loading, LoadSteps

LEMMA SavingKept ==
  ASSUME NEW t \in Threads, OthersStay(t), NEW g,
         pc[t] \in {"saveLock", "save"} /\ frame[t] = g =>
           pc'[t] \in {"saveLock", "save"} /\ frame'[t] = g
  PROVE  Saving(g) => Saving(g)'
BY DEF OthersStay, Saving, SaveSteps

(* A frame that a step does not touch. *)
FrameUntouched(g) ==
  /\ id'[g] = id[g] /\ data'[g] = data[g] /\ (dirty[g] => dirty'[g])
  /\ g \in freeSlots => g \in freeSlots'
  /\ id[g] \in known' => id[g] \in known
  /\ disk'[id[g]] = disk[id[g]] /\ latest'[id[g]] = latest[id[g]]
  /\ Written(g) => Written(g)'

LEMMA FrameContentsStay ==
  ASSUME NEW g \in Frames, FrameContentsOK(g), FrameUntouched(g),
         Loading(g) => Loading(g)', Saving(g) => Saving(g)'
  PROVE  FrameContentsOK(g)'
BY DEF FrameContentsOK, FrameUntouched, FrameNewest, FileNewest, Newest

(* A step that touches no contents, and saves and loads nothing. *)
LEMMA ContentsStay ==
  ASSUME ContentsOK, NEW t \in Threads, OthersStay(t),
         pc[t] \notin LoadSteps \cup {"saveLock", "save"},
         UNCHANGED <<id, data, dirty, freeSlots, known, disk, latest, wrote, pageTable>>
  PROVE  ContentsOK'
<1>1. ASSUME NEW g \in Frames PROVE FrameContentsOK(g)'
  <2>1. (Loading(g) => Loading(g)') /\ (Saving(g) => Saving(g)')
    BY LoadingKept, SavingKept
  <2>2. FrameUntouched(g)
    BY DEF FrameUntouched, Written
  <2> QED BY <2>1, <2>2, FrameContentsStay DEF ContentsOK
<1>2. ASSUME NEW p \in Pages PROVE PageContentsOK(p)'
  BY DEF ContentsOK, PageContentsOK, Newest
<1> QED BY <1>1, <1>2 DEF ContentsOK

(* While a frame is being loaded, the file has the newest version. *)
LEMMA LoadsNewest ==
  ASSUME BufferInv, PageLocksOwned, ContentsOK, NEW t \in Threads,
         \A v \in Threads : ArrivalOK(v),
         \A f \in Frames, v \in Threads : SavesOK(f, v),
         pc[t] \in LoadSteps, id[frame[t]] \in known
  PROVE  disk[id[frame[t]]] = Newest(id[frame[t]])
<1> DEFINE g == frame[t]
<1>1. g \in Frames \ freeSlots
  BY DEF BufferInv, LocalsOK, FrameOK, PinSteps, LoadSteps
<1>2. ~dirty[g] /\ Loading(g)
  BY <1>1 DEF SavesOK, Loading, LoadSteps
<1>3. ~Saving(g)
  BY <1>1, <1>2 DEF Saving, SavesOK
<1>4. ~Written(g)
  <2> SUFFICES ASSUME NEW v \in Threads, g \in wrote[v] PROVE FALSE
    BY DEF Written
  <2>1. g \in held[v]
    BY <1>1 DEF PageLocksOwned, PageLockOwned
  <2> QED BY <1>2, <2>1, HeldIsLoaded
<1> QED BY <1>1, <1>2, <1>3, <1>4 DEF ContentsOK, FrameContentsOK, FileNewest

(* Saving some of the pages that are to be saved gives them their newest    *)
(* version, and saving all of them brings every page up to date.            *)
LEMMA SavesNewest ==
  ASSUME BufferInv, PageLocksOwned, DirtyKnown, ContentsOK, Quiet,
         NEW frames \in SUBSET {f \in Frames : ToSave(f)}, NEW p \in Pages
  PROVE  /\ Saved(frames)[p] = disk[p] \/ (p \in known /\ Saved(frames)[p] = Newest(p))
         /\ p \in known /\ frames = {f \in Frames : ToSave(f)} => Saved(frames)[p] = Newest(p)
<1>0. TypeOK
  BY DEF BufferInv
<1>1. \A v \in Threads : pc[v] = "client" /\ held[v] = {}
  BY DEF Quiet
<1>2. \A f \in Frames : ~Loading(f) /\ ~Saving(f) /\ ~Written(f)
  BY <1>1 DEF Loading, Saving, SaveSteps, Written, PageLocksOwned, PageLockOwned
<1>3. \A f \in Frames \ freeSlots : id[f] \in known =>
        data[f] = Newest(id[f]) /\ (dirty[f] \/ disk[id[f]] = Newest(id[f]))
  BY <1>2 DEF ContentsOK, FrameContentsOK, FrameNewest, FileNewest
<1>4. CASE \E f \in frames : id[f] = p
  <2> DEFINE g == CHOOSE f \in frames : id[f] = p
  <2>1. g \in frames /\ id[g] = p
    BY <1>4
  <2>2. Saved(frames)[p] = data[g]
    BY <1>4 DEF Saved
  <2> HIDE DEF g
  <2>3. g \in Frames \ freeSlots /\ id[g] \in known
    BY <2>1 DEF ToSave, DirtyKnown
  <2> QED BY <1>3, <2>1, <2>2, <2>3
<1>5. CASE ~\E f \in frames : id[f] = p
  <2>1. Saved(frames)[p] = disk[p]
    BY <1>5 DEF Saved
  <2> SUFFICES ASSUME p \in known, frames = {f \in Frames : ToSave(f)}
               PROVE  disk[p] = Newest(p)
    BY <2>1
  <2>2. CASE pageTable[p] = None
    BY <1>0, <2>2 DEF ContentsOK, PageContentsOK
  <2>3. CASE pageTable[p] # None
    <3>1. pageTable[p] \in Frames \ freeSlots /\ id[pageTable[p]] = p
      BY <1>0, <2>3, PageInOneFrame
    <3>2. ~dirty[pageTable[p]]
      BY <1>5, <3>1 DEF ToSave
    <3> QED BY <1>3, <3>1, <3>2
  <2> QED BY <2>2, <2>3
<1> QED BY <1>4, <1>5

(* flush leaves the newest version of every page in the file. *)
LEMMA FlushSavesAll ==
  ASSUME BufferInv, PageLocksOwned, DirtyKnown, ContentsOK, Flush, NEW p \in known
  PROVE  disk'[p] = Newest(p)
<1>1. p \in Pages
  BY DEF BufferInv, TypeOK
<1> QED BY <1>1, SavesNewest DEF Flush

(* A process that starts again finds the pages that were flushed, and of    *)
(* the others those that a flush had saved before it wrote their header.    *)
LEMMA EndContents ==
  ASSUME BufferInv, PageLocksOwned, DirtyKnown, ContentsOK, FlushCutShort \/ Restart
  PROVE  /\ \A p \in Pages : disk'[p] = disk[p] \/ disk'[p] = Newest(p)
         /\ \E pages \in SUBSET Pages :
              /\ StartAgain(pages) /\ Synced \subseteq pages /\ pages \subseteq Synced \cup known
              /\ \A p \in pages : disk'[p] = Newest(p) \/ (p \in Synced /\ disk'[p] = disk[p])
<1>1. known \subseteq Pages /\ Synced \subseteq Pages
  BY DEF BufferInv, TypeOK, Synced
<1>2. CASE Restart
  BY <1>1, <1>2 DEF Restart
<1>3. CASE FlushCutShort
  <2>1. PICK frames \in SUBSET {f \in Frames : ToSave(f)}, more \in SUBSET known :
          /\ Quiet /\ (frames = {f \in Frames : ToSave(f)} \/ more = {})
          /\ disk' = Saved(frames) /\ StartAgain(Synced \cup more)
    BY <1>3 DEF FlushCutShort
  <2>2. \A p \in Pages :
          /\ disk'[p] = disk[p] \/ disk'[p] = Newest(p)
          /\ p \in more => disk'[p] = Newest(p)
    BY <2>1, SavesNewest
  <2>3. Synced \cup more \in SUBSET Pages
    BY <1>1, <2>1
  <2> QED BY <1>1, <2>1, <2>2, <2>3
<1> QED BY <1>2, <1>3

(***************************************************************************)
(* Every step preserves where the newest versions are.                     *)
(***************************************************************************)
LEMMA ContentsStep ==
  ASSUME BufferInv, PageLocksOwned, CreatedOK, DirtyKnown, ContentsOK, FileOK,
         \A v \in Threads : ArrivalOK(v) /\ CreationOK(v),
         \A f \in Frames, v \in Threads : SavesOK(f, v),
         [Next]_vars
  PROVE  ContentsOK'
<1> USE NoneAssumption DEF table, tableLock, counters, contents, pageLock, request, search, modes,
            client, files, history,
            At, Go, EndTurn, EndCall, RetryWith, Pinned, LockTable, UnlockTable
<1>0. /\ TypeOK /\ PageLocksOwned /\ FileOK
      /\ \A v \in Threads : FrameOK(v) /\ HeldOK(v) /\ VictimOK(v) /\ ArrivalOK(v) /\ CreationOK(v)
      /\ \A f \in Frames, v \in Threads : SavesOK(f, v)
      /\ \A f \in Frames : FrameContentsOK(f)
      /\ \A p \in Pages : PageContentsOK(p)
  BY DEF BufferInv, LocalsOK, ContentsOK
<1>1. ASSUME NEW t \in Threads, EnterTable(t) PROVE ContentsOK'
  <2>1. /\ pc[t] \notin LoadSteps \cup {"saveLock", "save"}
        /\ UNCHANGED <<id, data, dirty, freeSlots, known, disk, latest, wrote, pageTable>>
    BY <1>1 DEF EnterTable, LoadSteps
  <2>2. OthersStay(t)
    BY <1>1, <1>0 DEF EnterTable, OthersStay, TypeOK
  <2> QED BY <2>1, <2>2, ContentsStay
<1>2. ASSUME NEW t \in Threads, HitPinned(t) PROVE ContentsOK'
  <2>1. /\ pc[t] \notin LoadSteps \cup {"saveLock", "save"}
        /\ UNCHANGED <<id, data, dirty, freeSlots, known, disk, latest, wrote, pageTable>>
    BY <1>2 DEF HitPinned, Hit, LoadSteps
  <2>2. OthersStay(t)
    BY <1>2, <1>0 DEF HitPinned, Hit, OthersStay, TypeOK
  <2> QED BY <2>1, <2>2, ContentsStay
<1>3. ASSUME NEW t \in Threads, HitUnpinnedShared(t) PROVE ContentsOK'
  <2>1. /\ pc[t] \notin LoadSteps \cup {"saveLock", "save"}
        /\ UNCHANGED <<id, data, dirty, freeSlots, known, disk, latest, wrote, pageTable>>
    BY <1>3 DEF HitUnpinnedShared, Hit, LoadSteps
  <2>2. OthersStay(t)
    BY <1>3, <1>0 DEF HitUnpinnedShared, Hit, OthersStay, TypeOK
  <2> QED BY <2>1, <2>2, ContentsStay
<1>4. ASSUME NEW t \in Threads, HitUnpinnedExclusive(t) PROVE ContentsOK'
  <2>1. /\ pc[t] \notin LoadSteps \cup {"saveLock", "save"}
        /\ UNCHANGED <<id, data, dirty, freeSlots, known, disk, latest, wrote, pageTable>>
    BY <1>4 DEF HitUnpinnedExclusive, Hit, LoadSteps
  <2>2. OthersStay(t)
    BY <1>4, <1>0 DEF HitUnpinnedExclusive, Hit, OthersStay, TypeOK
  <2> QED BY <2>1, <2>2, ContentsStay
<1>5. ASSUME NEW t \in Threads, MissShared(t) PROVE ContentsOK'
  <2>1. /\ pc[t] \notin LoadSteps \cup {"saveLock", "save"}
        /\ UNCHANGED <<id, data, dirty, freeSlots, known, disk, latest, wrote, pageTable>>
    BY <1>5 DEF MissShared, Miss, LoadSteps
  <2>2. OthersStay(t)
    BY <1>5, <1>0 DEF MissShared, Miss, OthersStay, TypeOK
  <2> QED BY <2>1, <2>2, ContentsStay
<1>6. ASSUME NEW t \in Threads, StartScan(t) PROVE ContentsOK'
  <2>1. /\ pc[t] \notin LoadSteps \cup {"saveLock", "save"}
        /\ UNCHANGED <<id, data, dirty, freeSlots, known, disk, latest, wrote, pageTable>>
    BY <1>6 DEF StartScan, Miss, LoadSteps
  <2>2. OthersStay(t)
    BY <1>6, <1>0 DEF StartScan, Miss, OthersStay, TypeOK
  <2> QED BY <2>1, <2>2, ContentsStay
<1>7. ASSUME NEW t \in Threads, NEW f \in Frames, UseFreeSlot(t, f) PROVE
    ContentsOK'
  <2>1. PICK label \in {"loadLock", "mode", "lockPage"} :
          /\ pc' = [pc EXCEPT ![t] = label]
          /\ label # "loadLock" => kind[t] = "create"
    BY <1>7 DEF UseFreeSlot, Miss, Claimed, SkipLoad
  <2>2. /\ f \in freeSlots /\ id' = [id EXCEPT ![f] = want[t]] /\ pc[t] = "lookup"
        /\ frame' = [frame EXCEPT ![t] = f] /\ dirty' = [dirty EXCEPT ![f] = FALSE]
        /\ pageTable' = [pageTable EXCEPT ![want[t]] = f] /\ pageTable[want[t]] = None
        /\ freeSlots' = freeSlots \ {f}
        /\ UNCHANGED <<data, known, disk, latest, wrote>>
    BY <1>7 DEF UseFreeSlot, Miss
  <2>3. OthersStay(t) /\ pc'[t] = label /\ frame'[t] = f /\ want[t] \in Pages
    BY <1>0, <2>1, <2>2 DEF OthersStay, TypeOK, FrameOK, InPin, Labels
  <2>4. want[t] \in known => label = "loadLock"
    BY <1>0, <2>1, <2>2 DEF CreationOK, Creating, InPin, Labels
  <2>8. ASSUME NEW g \in Frames PROVE FrameContentsOK(g)'
    <3>1. CASE g = f
      <4>1. id'[f] = want[t]
        BY <1>0, <2>2 DEF TypeOK
      <4>2. label = "loadLock" => Loading(f)'
        BY <2>3 DEF Loading
      <4>3. want[t] \in known => disk[want[t]] = Newest(want[t])
        BY <1>0, <2>2, <2>3 DEF PageContentsOK
      <4> QED BY <2>2, <2>4, <3>1, <4>1, <4>2, <4>3
            DEF FrameContentsOK, FrameNewest, FileNewest, Newest
    <3>2. CASE g # f
      <4>1. (Loading(g) => Loading(g)') /\ (Saving(g) => Saving(g)')
        BY <2>2, <2>3, LoadingKept, SavingKept DEF LoadSteps
      <4>2. FrameUntouched(g)
        BY <1>0, <2>2, <3>2 DEF FrameUntouched, Written, TypeOK
      <4> QED BY <1>0, <4>1, <4>2, FrameContentsStay
    <3> QED BY <3>1, <3>2
  <2>9. ASSUME NEW p \in Pages PROVE PageContentsOK(p)'
    BY <1>0, <2>2, <2>3, NoneAssumption DEF PageContentsOK, Newest, TypeOK
  <2> QED BY <2>8, <2>9 DEF ContentsOK
<1>8. ASSUME NEW t \in Threads, UndoPin(t) PROVE ContentsOK'
  <2>1. /\ pc[t] \notin LoadSteps \cup {"saveLock", "save"}
        /\ UNCHANGED <<id, data, dirty, freeSlots, known, disk, latest, wrote, pageTable>>
    BY <1>8 DEF UndoPin, LoadSteps
  <2>2. OthersStay(t)
    BY <1>8, <1>0 DEF UndoPin, OthersStay, TypeOK
  <2> QED BY <2>1, <2>2, ContentsStay
<1>9. ASSUME NEW t \in Threads, LockForLoad(t) PROVE ContentsOK'
  <2>1. /\ pc[t] = "loadLock" /\ pc' = [pc EXCEPT ![t] = "load"] /\ frame' = frame
        /\ UNCHANGED <<id, data, dirty, freeSlots, known, disk, latest, wrote, pageTable>>
    BY <1>9 DEF LockForLoad
  <2>2. OthersStay(t) /\ pc'[t] = "load"
    BY <1>0, <2>1 DEF OthersStay, TypeOK
  <2>8. ASSUME NEW g \in Frames PROVE FrameContentsOK(g)'
    <3>1. (Loading(g) => Loading(g)') /\ (Saving(g) => Saving(g)')
      BY <2>1, <2>2, LoadingKept, SavingKept DEF LoadSteps
    <3>2. FrameUntouched(g)
      BY <2>1 DEF FrameUntouched, Written
    <3> QED BY <1>0, <3>1, <3>2, FrameContentsStay
  <2>9. ASSUME NEW p \in Pages PROVE PageContentsOK(p)'
    BY <1>0, <2>1 DEF PageContentsOK, Newest
  <2> QED BY <2>8, <2>9 DEF ContentsOK
<1>10. ASSUME NEW t \in Threads, Load(t) PROVE ContentsOK'
  <2> DEFINE h == frame[t]
  <2>1. /\ pc[t] = "load" /\ data' = [data EXCEPT ![h] = disk[want[t]]]
        /\ UNCHANGED <<id, dirty, freeSlots, known, disk, latest, wrote, pageTable, frame>>
    BY <1>10 DEF Load
  <2>2. OthersStay(t)
    BY <1>10, <1>0 DEF Load, OthersStay, TypeOK
  <2>3. h \in Frames /\ id[h] = want[t]
    BY <1>0, <2>1 DEF FrameOK, PinSteps, ArrivalOK, Arrived, LoadSteps
  <2>4. id[h] \in known => disk[id[h]] = Newest(id[h])
    BY <1>0, <2>1, LoadsNewest DEF LoadSteps
  <2>8. ASSUME NEW g \in Frames PROVE FrameContentsOK(g)'
    <3>1. CASE g = h
      <4>1. data'[g] = disk[id[g]]
        BY <1>0, <2>1, <2>3, <3>1 DEF TypeOK
      <4> HIDE DEF h
      <4> QED BY <2>1, <2>4, <3>1, <4>1 DEF FrameContentsOK, FrameNewest, FileNewest, Newest
    <3>2. CASE g # h
      <4>1. (Loading(g) => Loading(g)') /\ (Saving(g) => Saving(g)')
        BY <2>1, <2>2, <3>2, LoadingKept, SavingKept
      <4>2. FrameUntouched(g)
        BY <1>0, <2>1, <3>2 DEF FrameUntouched, Written, TypeOK
      <4> QED BY <1>0, <4>1, <4>2, FrameContentsStay
    <3> QED BY <3>1, <3>2
  <2>9. ASSUME NEW p \in Pages PROVE PageContentsOK(p)'
    BY <1>0, <2>1 DEF PageContentsOK, Newest
  <2> QED BY <2>8, <2>9 DEF ContentsOK
<1>11. ASSUME NEW t \in Threads, SkipEntry(t) PROVE ContentsOK'
  <2>1. /\ pc[t] \notin LoadSteps \cup {"saveLock", "save"}
        /\ UNCHANGED <<id, data, dirty, freeSlots, known, disk, latest, wrote, pageTable>>
    BY <1>11 DEF SkipEntry, LoadSteps
  <2>2. OthersStay(t)
    BY <1>11, <1>0 DEF SkipEntry, OthersStay, TypeOK
  <2> QED BY <2>1, <2>2, ContentsStay
<1>12. ASSUME NEW t \in Threads, ScanLRU(t) PROVE ContentsOK'
  <2>1. /\ pc[t] \notin LoadSteps \cup {"saveLock", "save"}
        /\ UNCHANGED <<id, data, dirty, freeSlots, known, disk, latest, wrote, pageTable>>
    BY <1>12 DEF ScanLRU, LoadSteps
  <2>2. OthersStay(t)
    BY <1>12, <1>0 DEF ScanLRU, OthersStay, TypeOK
  <2> QED BY <2>1, <2>2, ContentsStay
<1>13. ASSUME NEW t \in Threads, Raise(t) PROVE ContentsOK'
  <2>1. /\ pc[t] \notin LoadSteps \cup {"saveLock", "save"}
        /\ UNCHANGED <<id, data, dirty, freeSlots, known, disk, latest, wrote, pageTable>>
    BY <1>13 DEF Raise, LoadSteps
  <2>2. OthersStay(t)
    BY <1>13, <1>0 DEF Raise, OthersStay, TypeOK
  <2> QED BY <2>1, <2>2, ContentsStay
<1>14. ASSUME NEW t \in Threads, FindVictim(t) PROVE ContentsOK'
  <2>1. /\ pc[t] \notin LoadSteps \cup {"saveLock", "save"}
        /\ UNCHANGED <<id, data, dirty, freeSlots, known, disk, latest, wrote, pageTable>>
    BY <1>14 DEF FindVictim, LoadSteps
  <2>2. OthersStay(t)
    BY <1>14, <1>0 DEF FindVictim, OthersStay, TypeOK
  <2> QED BY <2>1, <2>2, ContentsStay
<1>15. ASSUME NEW t \in Threads, PinVictim(t) PROVE ContentsOK'
  <2>1. /\ pc[t] \notin LoadSteps \cup {"saveLock", "save"}
        /\ UNCHANGED <<id, data, dirty, freeSlots, known, disk, latest, wrote, pageTable>>
    BY <1>15 DEF PinVictim, LoadSteps
  <2>2. OthersStay(t)
    BY <1>15, <1>0 DEF PinVictim, OthersStay, TypeOK
  <2> QED BY <2>1, <2>2, ContentsStay
<1>16. ASSUME NEW t \in Threads, TestDirty(t) PROVE ContentsOK'
  <2>1. /\ pc[t] \notin LoadSteps \cup {"saveLock", "save"}
        /\ UNCHANGED <<id, data, dirty, freeSlots, known, disk, latest, wrote, pageTable>>
    BY <1>16 DEF TestDirty, LoadSteps
  <2>2. OthersStay(t)
    BY <1>16, <1>0 DEF TestDirty, OthersStay, TypeOK
  <2> QED BY <2>1, <2>2, ContentsStay
<1>17. ASSUME NEW t \in Threads, MarkClean(t) PROVE ContentsOK'
  <2> DEFINE h == frame[t]
  <2>1. /\ pc[t] = "markClean" /\ pc' = [pc EXCEPT ![t] = "saveLock"] /\ frame' = frame
        /\ dirty' = [dirty EXCEPT ![h] = FALSE]
        /\ UNCHANGED <<id, data, freeSlots, known, disk, latest, wrote, pageTable>>
    BY <1>17 DEF MarkClean
  <2>2. OthersStay(t) /\ pc'[t] = "saveLock"
    BY <1>0, <2>1 DEF OthersStay, TypeOK
  <2>8. ASSUME NEW g \in Frames PROVE FrameContentsOK(g)'
    <3>0. (Loading(g) => Loading(g)') /\ (Saving(g) => Saving(g)')
      BY <2>1, <2>2, LoadingKept, SavingKept DEF LoadSteps
    <3>1. CASE g = h
      <4>1. Saving(g)'
        BY <2>1, <2>2, <3>1 DEF Saving, SaveSteps
      <4> QED BY <1>0, <2>1, <3>0, <4>1 DEF FrameContentsOK, FrameNewest, FileNewest, Newest
    <3>2. CASE g # h
      <4>1. FrameUntouched(g)
        BY <1>0, <2>1, <3>2 DEF FrameUntouched, Written, TypeOK
      <4> QED BY <1>0, <3>0, <4>1, FrameContentsStay
    <3> QED BY <3>1, <3>2
  <2>9. ASSUME NEW p \in Pages PROVE PageContentsOK(p)'
    BY <1>0, <2>1 DEF PageContentsOK, Newest
  <2> QED BY <2>8, <2>9 DEF ContentsOK
<1>18. ASSUME NEW t \in Threads, LockForSave(t) PROVE ContentsOK'
  <2>1. /\ pc[t] = "saveLock" /\ pc' = [pc EXCEPT ![t] = "save"] /\ frame' = frame
        /\ UNCHANGED <<id, data, dirty, freeSlots, known, disk, latest, wrote, pageTable>>
    BY <1>18 DEF LockForSave
  <2>2. OthersStay(t) /\ pc'[t] = "save"
    BY <1>0, <2>1 DEF OthersStay, TypeOK
  <2>8. ASSUME NEW g \in Frames PROVE FrameContentsOK(g)'
    <3>1. (Loading(g) => Loading(g)') /\ (Saving(g) => Saving(g)')
      BY <2>1, <2>2, LoadingKept, SavingKept DEF LoadSteps
    <3>2. FrameUntouched(g)
      BY <2>1 DEF FrameUntouched, Written
    <3> QED BY <1>0, <3>1, <3>2, FrameContentsStay
  <2>9. ASSUME NEW p \in Pages PROVE PageContentsOK(p)'
    BY <1>0, <2>1 DEF PageContentsOK, Newest
  <2> QED BY <2>8, <2>9 DEF ContentsOK
<1>19. ASSUME NEW t \in Threads, Save(t) PROVE ContentsOK'
  <2> DEFINE h == frame[t]
  <2>1. /\ pc[t] = "save" /\ frame' = frame
        /\ disk' = [disk EXCEPT ![id[h]] = data[h]]
        /\ UNCHANGED <<id, data, dirty, freeSlots, known, latest, wrote, pageTable>>
    BY <1>19 DEF Save
  <2>2. OthersStay(t)
    BY <1>19, <1>0 DEF Save, OthersStay, TypeOK
  <2>3. h \in Frames \ freeSlots /\ id[h] \in known /\ ~Loading(h)
    BY <1>0, <2>1 DEF FrameOK, PinSteps, SavesOK, SaveSteps
  <2>4. data[h] = Newest(id[h]) /\ id[h] \in Pages /\ pageTable[id[h]] = h
    BY <1>0, <2>3, PageInOneFrame DEF FrameContentsOK, FrameNewest
  <2>5. disk'[id[h]] = Newest(id[h]) /\ \A p \in Pages \ {id[h]} : disk'[p] = disk[p]
    BY <1>0, <2>1, <2>4 DEF TypeOK
  <2> HIDE DEF h
  <2>8. ASSUME NEW g \in Frames PROVE FrameContentsOK(g)'
    <3>0. Loading(g) => Loading(g)'
      BY <2>1, <2>2, LoadingKept DEF LoadSteps
    <3>1. CASE g = h
      BY <1>0, <2>1, <2>3, <2>5, <3>0, <3>1 DEF FrameContentsOK, FrameNewest, FileNewest, Newest
    <3>2. CASE g # h /\ g \notin freeSlots
      <4>1. Saving(g) => Saving(g)'
        BY <2>1, <2>2, <3>2, SavingKept DEF h
      <4>2. id[g] \in Pages /\ id[g] # id[h]
        BY <2>3, <3>2, PageInOneFrame
      <4>3. FrameUntouched(g)
        BY <2>1, <2>5, <4>2 DEF FrameUntouched, Written
      <4> QED BY <1>0, <3>0, <4>1, <4>3, FrameContentsStay
    <3>3. CASE g \in freeSlots
      BY <2>1, <3>3 DEF FrameContentsOK
    <3> QED BY <3>1, <3>2, <3>3
  <2>9. ASSUME NEW p \in Pages PROVE PageContentsOK(p)'
    BY <1>0, <2>1, <2>3, <2>4, <2>5, NoneAssumption DEF PageContentsOK, Newest
  <2> QED BY <2>8, <2>9 DEF ContentsOK
<1>20. ASSUME NEW t \in Threads, Relock(t) PROVE ContentsOK'
  <2>1. /\ pc[t] \notin LoadSteps \cup {"saveLock", "save"}
        /\ UNCHANGED <<id, data, dirty, freeSlots, known, disk, latest, wrote, pageTable>>
    BY <1>20 DEF Relock, LoadSteps
  <2>2. OthersStay(t)
    BY <1>20, <1>0 DEF Relock, OthersStay, TypeOK
  <2> QED BY <2>1, <2>2, ContentsStay
<1>21. ASSUME NEW t \in Threads, Recheck(t) PROVE ContentsOK'
  <2>1. /\ pc[t] \notin LoadSteps \cup {"saveLock", "save"}
        /\ UNCHANGED <<id, data, dirty, freeSlots, known, disk, latest, wrote, pageTable>>
    BY <1>21 DEF Recheck, LoadSteps
  <2>2. OthersStay(t)
    BY <1>21, <1>0 DEF Recheck, OthersStay, TypeOK
  <2> QED BY <2>1, <2>2, ContentsStay
<1>22. ASSUME NEW t \in Threads, GiveUp(t) PROVE ContentsOK'
  <2>1. /\ pc[t] \notin LoadSteps \cup {"saveLock", "save"}
        /\ UNCHANGED <<id, data, dirty, freeSlots, known, disk, latest, wrote, pageTable>>
    BY <1>22 DEF GiveUp, LoadSteps
  <2>2. OthersStay(t)
    BY <1>22, <1>0 DEF GiveUp, OthersStay, TypeOK
  <2> QED BY <2>1, <2>2, ContentsStay
<1>23. ASSUME NEW t \in Threads, Evict(t) PROVE ContentsOK'
  <2>1. PICK label \in {"loadLock", "mode", "lockPage"} :
          /\ pc' = [pc EXCEPT ![t] = label]
          /\ label # "loadLock" => kind[t] = "create"
    BY <1>23 DEF Evict, Claimed, SkipLoad
  <2>2. /\ id' = [id EXCEPT ![frame[t]] = want[t]] /\ pc[t] = "recheckDirty"
        /\ ~dirty[frame[t]] /\ dirty' = [dirty EXCEPT ![frame[t]] = FALSE]
        /\ pageTable' = [pageTable EXCEPT ![Victim(t)] = None, ![want[t]] = frame[t]]
        /\ UNCHANGED <<data, known, disk, latest, wrote, frame, freeSlots>>
    BY <1>23 DEF Evict, Redirtied
  <2>3. OthersStay(t) /\ pc'[t] = label
    BY <1>0, <2>1, <2>2 DEF OthersStay, TypeOK
  <2>4. want[t] \in known => label = "loadLock"
    BY <1>0, <2>1, <2>2 DEF CreationOK, Creating, InPin, Labels
  <2>5. /\ frame[t] \in Frames \ freeSlots /\ want[t] \in Pages /\ pageTable[want[t]] = None
        /\ Victim(t) \in Pages /\ id[frame[t]] = Victim(t)
        /\ \A u \in Threads \ {t} : ~Uses(u, frame[t])
    BY <1>0, <2>2, AloneAtEvict, VictimInFrame DEF VictimOK, VictimSteps
  <2>6. Victim(t) \in known => disk[Victim(t)] = Newest(Victim(t))
    <3>1. ~Saving(frame[t])
      BY <2>2, <2>5 DEF Saving, SaveSteps, Uses, PinSteps
    <3>2. ~Written(frame[t])
      <4> SUFFICES ASSUME NEW v \in Threads, frame[t] \in wrote[v] PROVE FALSE
        BY DEF Written
      <4>1. frame[t] \in held[v]
        BY <1>0, <2>5 DEF PageLocksOwned, PageLockOwned
      <4> QED BY <1>0, <2>2, <2>5, <4>1 DEF Uses, FrameOK, PinSteps
    <3> QED BY <1>0, <2>2, <2>5, <3>1, <3>2 DEF FrameContentsOK, FileNewest
  <2>8. ASSUME NEW g \in Frames PROVE FrameContentsOK(g)'
    <3>1. CASE g = frame[t]
      <4>1. id'[g] = want[t]
        BY <1>0, <2>2, <3>1 DEF TypeOK
      <4>2. label = "loadLock" => Loading(g)'
        BY <2>2, <2>3, <3>1 DEF Loading
      <4>3. want[t] \in known => disk[want[t]] = Newest(want[t])
        BY <1>0, <2>5 DEF PageContentsOK
      <4> QED BY <2>2, <2>4, <4>1, <4>2, <4>3
            DEF FrameContentsOK, FrameNewest, FileNewest, Newest
    <3>2. CASE g # frame[t]
      <4>1. (Loading(g) => Loading(g)') /\ (Saving(g) => Saving(g)')
        BY <2>2, <2>3, LoadingKept, SavingKept DEF LoadSteps
      <4>2. FrameUntouched(g)
        BY <1>0, <2>2, <3>2 DEF FrameUntouched, Written, TypeOK
      <4> QED BY <1>0, <4>1, <4>2, FrameContentsStay
    <3> QED BY <3>1, <3>2
  <2>9. ASSUME NEW p \in Pages PROVE PageContentsOK(p)'
    <3>1. CASE p = want[t]
      <4>1. pageTable'[p] = frame[t]
        BY <1>0, <2>2, <2>5, <3>1 DEF TypeOK
      <4> QED BY <2>5, <4>1, NoneAssumption DEF PageContentsOK
    <3>2. CASE p # want[t] /\ p = Victim(t)
      BY <2>2, <2>6, <3>2 DEF PageContentsOK, Newest
    <3>3. CASE p # want[t] /\ p # Victim(t)
      <4>1. pageTable'[p] = pageTable[p]
        BY <1>0, <2>2, <3>3 DEF TypeOK
      <4> QED BY <1>0, <2>2, <4>1 DEF PageContentsOK, Newest
    <3> QED BY <3>1, <3>2, <3>3
  <2> QED BY <2>8, <2>9 DEF ContentsOK
<1>24. ASSUME NEW t \in Threads, ChooseMode(t) PROVE ContentsOK'
  <2>1. /\ pc[t] \notin LoadSteps \cup {"saveLock", "save"}
        /\ UNCHANGED <<id, data, dirty, freeSlots, known, disk, latest, wrote, pageTable>>
    BY <1>24 DEF ChooseMode, LoadSteps
  <2>2. OthersStay(t)
    BY <1>24, <1>0 DEF ChooseMode, OthersStay, TypeOK
  <2> QED BY <2>1, <2>2, ContentsStay
<1>25. ASSUME NEW t \in Threads, EnterPage(t) PROVE ContentsOK'
  <2>1. /\ pc[t] \notin LoadSteps \cup {"saveLock", "save"}
        /\ UNCHANGED <<id, data, dirty, freeSlots, known, disk, latest, wrote, pageTable>>
    BY <1>25 DEF EnterPage, LockPage, LoadSteps
  <2>2. OthersStay(t)
    BY <1>25, <1>0 DEF EnterPage, LockPage, OthersStay, TypeOK
  <2> QED BY <2>1, <2>2, ContentsStay
<1>26. ASSUME NEW t \in Threads, ReleasePage(t) PROVE ContentsOK'
  <2> DEFINE h == frame[t]
  <2>1. /\ pc[t] = "unlockPage" /\ frame' = frame
        /\ wrote' = [wrote EXCEPT ![t] = wrote[t] \ {h}]
        /\ UNCHANGED <<id, data, dirty, freeSlots, known, disk, latest, pageTable>>
    BY <1>26 DEF ReleasePage
  <2>2. OthersStay(t)
    BY <1>26, <1>0 DEF ReleasePage, OthersStay, TypeOK
  <2>3. h \in wrote[t] => dirty[h] \/ Saving(h)
    BY <1>0, <2>1 DEF SavesOK, FrameOK
  <2>8. ASSUME NEW g \in Frames PROVE FrameContentsOK(g)'
    <3>1. (Loading(g) => Loading(g)') /\ (Saving(g) => Saving(g)')
      BY <2>1, <2>2, LoadingKept, SavingKept DEF LoadSteps
    <3>2. Written(g) => Written(g)' \/ dirty[g] \/ Saving(g)
      BY <1>0, <2>1, <2>3 DEF Written, TypeOK
    <3> QED BY <1>0, <2>1, <3>1, <3>2 DEF FrameContentsOK, FrameNewest, FileNewest, Newest
  <2>9. ASSUME NEW p \in Pages PROVE PageContentsOK(p)'
    BY <1>0, <2>1 DEF PageContentsOK, Newest
  <2> QED BY <2>8, <2>9 DEF ContentsOK
<1>27. ASSUME NEW t \in Threads, DecPins(t) PROVE ContentsOK'
  <2>1. /\ pc[t] \notin LoadSteps \cup {"saveLock", "save"}
        /\ UNCHANGED <<id, data, dirty, freeSlots, known, disk, latest, wrote, pageTable>>
    BY <1>27 DEF DecPins, LoadSteps
  <2>2. OthersStay(t)
    BY <1>27, <1>0 DEF DecPins, OthersStay, TypeOK
  <2> QED BY <2>1, <2>2, ContentsStay
<1>28. ASSUME NEW t \in Threads, NEW p \in Pages, NEW k \in Kinds, PinPage(t,
    p, k) PROVE ContentsOK'
  <2>1. /\ pc[t] \notin LoadSteps \cup {"saveLock", "save"}
        /\ UNCHANGED <<id, data, dirty, freeSlots, known, disk, latest, wrote, pageTable>>
    BY <1>28 DEF PinPage, Call, LoadSteps
  <2>2. OthersStay(t)
    BY <1>28, <1>0 DEF PinPage, Call, OthersStay, TypeOK
  <2> QED BY <2>1, <2>2, ContentsStay
<1>29. ASSUME NEW t \in Threads, NEW p \in Pages, CreatePage(t, p) PROVE
    ContentsOK'
  <2>1. /\ pc[t] \notin LoadSteps \cup {"saveLock", "save"}
        /\ UNCHANGED <<id, data, dirty, freeSlots, known, disk, latest, wrote, pageTable>>
    BY <1>29 DEF CreatePage, Call, LoadSteps
  <2>2. OthersStay(t)
    BY <1>29, <1>0 DEF CreatePage, Call, OthersStay, TypeOK
  <2> QED BY <2>1, <2>2, ContentsStay
<1>30. ASSUME NEW t \in Threads, NEW f \in Frames, Write(t, f) PROVE
    ContentsOK'
  <2> DEFINE q == id[f]
  <2>1. /\ f \in held[t] /\ UNCHANGED <<id, dirty, freeSlots, disk, pageTable, pc, frame>>
        /\ latest' = [latest EXCEPT ![q] = latest[q] + 1] /\ known' = known \cup {q}
        /\ data' = [data EXCEPT ![f] = [page |-> q, version |-> latest'[q]]]
        /\ wrote' = [wrote EXCEPT ![t] = wrote[t] \cup {f}]
    BY <1>30 DEF Write
  <2>2. f \in Frames \ freeSlots /\ q \in Pages /\ pageTable[q] = f
    BY <1>0, <2>1, PageInOneFrame DEF HeldOK
  <2>3. \A g : (Loading(g) => Loading(g)') /\ (Saving(g) => Saving(g)')
    BY <2>1 DEF Loading, Saving
  <2>4. \A v \in Threads : wrote[v] \subseteq wrote'[v]
    BY <1>0, <2>1 DEF TypeOK
  <2>8. ASSUME NEW g \in Frames PROVE FrameContentsOK(g)'
    <3>1. CASE g = f
      <4>1. data'[g] = [page |-> q, version |-> latest'[q]] /\ f \in wrote'[t]
        BY <1>0, <2>1, <3>1 DEF TypeOK
      <4> QED BY <2>1, <3>1, <4>1 DEF FrameContentsOK, FrameNewest, FileNewest, Newest, Written
    <3>2. CASE g # f /\ g \notin freeSlots
      <4>1. id[g] \in Pages /\ id[g] # q
        BY <2>2, <3>2, PageInOneFrame
      <4>2. Written(g) => Written(g)'
        BY <2>4 DEF Written
      <4>3. FrameUntouched(g)
        BY <1>0, <2>1, <2>2, <3>2, <4>1, <4>2 DEF FrameUntouched, TypeOK
      <4> QED BY <1>0, <2>3, <4>3, FrameContentsStay
    <3>3. CASE g \in freeSlots
      BY <2>1, <3>3 DEF FrameContentsOK
    <3> QED BY <3>1, <3>2, <3>3
  <2>9. ASSUME NEW p \in Pages PROVE PageContentsOK(p)'
    <3>1. CASE p = q
      BY <2>1, <2>2, <3>1, NoneAssumption DEF PageContentsOK
    <3>2. CASE p # q
      <4>1. latest'[p] = latest[p] /\ (p \in known' => p \in known)
        BY <1>0, <2>1, <3>2 DEF TypeOK
      <4> QED BY <1>0, <2>1, <4>1 DEF PageContentsOK, Newest
    <3> QED BY <3>1, <3>2
  <2> QED BY <2>8, <2>9 DEF ContentsOK
<1>31. ASSUME NEW t \in Threads, NEW f \in Frames, NEW d \in BOOLEAN,
    UnpinPage(t, f, d) PROVE ContentsOK'
  <2>1. /\ pc[t] = "client" /\ dirty' = [dirty EXCEPT ![f] = dirty[f] \/ d]
        /\ UNCHANGED <<id, data, freeSlots, known, disk, latest, wrote, pageTable>>
    BY <1>31 DEF UnpinPage
  <2>2. OthersStay(t)
    BY <1>31, <1>0 DEF UnpinPage, OthersStay, TypeOK
  <2>8. ASSUME NEW g \in Frames PROVE FrameContentsOK(g)'
    <3>1. (Loading(g) => Loading(g)') /\ (Saving(g) => Saving(g)')
      BY <2>1, <2>2, LoadingKept, SavingKept DEF LoadSteps
    <3>2. FrameUntouched(g)
      BY <1>0, <2>1 DEF FrameUntouched, Written, TypeOK
    <3> QED BY <1>0, <3>1, <3>2, FrameContentsStay
  <2>9. ASSUME NEW p \in Pages PROVE PageContentsOK(p)'
    BY <1>0, <2>1 DEF PageContentsOK, Newest
  <2> QED BY <2>8, <2>9 DEF ContentsOK
<1>32. ASSUME Flush PROVE ContentsOK'
  <2>1. UNCHANGED <<id, data, dirty, freeSlots, known, latest, wrote, pageTable, pc, frame>>
    BY <1>32 DEF Flush
  <2>2. \A p \in known : disk'[p] = Newest(p)
    BY <1>32, FlushSavesAll
  <2>3. known \subseteq Pages
    BY <1>0 DEF TypeOK
  <2>8. ASSUME NEW g \in Frames PROVE FrameContentsOK(g)'
    <3>1. Loading(g) => Loading(g)'
      BY <2>1 DEF Loading
    <3> QED BY <1>0, <2>1, <2>2, <3>1 DEF FrameContentsOK, FrameNewest, FileNewest, Newest
  <2>9. ASSUME NEW p \in Pages PROVE PageContentsOK(p)'
    BY <2>1, <2>2 DEF PageContentsOK, Newest
  <2> QED BY <2>8, <2>9 DEF ContentsOK
<1>33. ASSUME FlushCutShort \/ Restart PROVE ContentsOK'
  <2>0. PICK pages \in SUBSET Pages :
          /\ StartAgain(pages) /\ Synced \subseteq pages /\ pages \subseteq Synced \cup known
          /\ \A p \in pages : disk'[p] = Newest(p) \/ (p \in Synced /\ disk'[p] = disk[p])
    BY <1>33, <1>0, EndContents
  <2>1. /\ freeSlots' = Frames /\ known' = pages
        /\ latest' = [p \in Pages |-> IF p \in pages THEN disk'[p].version ELSE 0]
    BY <2>0 DEF StartAgain, NewBuffer
  <2>8. ASSUME NEW g \in Frames PROVE FrameContentsOK(g)'
    BY <2>1 DEF FrameContentsOK
  <2>9. ASSUME NEW p \in Pages PROVE PageContentsOK(p)'
    <3> SUFFICES ASSUME p \in pages PROVE disk'[p] = [page |-> p, version |-> latest'[p]]
      BY <2>1 DEF PageContentsOK, Newest
    <3>1. latest'[p] = disk'[p].version
      BY <2>1
    <3>2. CASE disk'[p] = Newest(p)
      BY <3>1, <3>2 DEF Newest
    <3>3. CASE p \in Synced /\ disk'[p] = disk[p]
      <4>1. disk[p] \in Content /\ synced[p] \in Nat /\ synced[p] > 0
        BY <1>0, <3>3 DEF TypeOK, Synced
      <4>2. disk[p].page = p
        BY <1>0, <4>1 DEF FileOK, Content
      <4> QED BY <3>1, <3>3, <4>1, <4>2 DEF Content
    <3> QED BY <2>0, <3>2, <3>3
  <2> QED BY <2>8, <2>9 DEF ContentsOK
<1>34. ASSUME UNCHANGED vars PROVE ContentsOK'
  <2>1. UNCHANGED <<id, data, dirty, freeSlots, known, disk, latest, wrote, pageTable, pc, frame>>
    BY <1>34 DEF vars
  <2>8. ASSUME NEW g \in Frames PROVE FrameContentsOK(g)'
    <3>1. (Loading(g) => Loading(g)') /\ (Saving(g) => Saving(g)')
      BY <2>1 DEF Loading, Saving
    <3>2. FrameUntouched(g)
      BY <2>1 DEF FrameUntouched, Written
    <3> QED BY <1>0, <3>1, <3>2, FrameContentsStay
  <2>9. ASSUME NEW p \in Pages PROVE PageContentsOK(p)'
    BY <1>0, <2>1 DEF PageContentsOK, Newest
  <2> QED BY <2>8, <2>9 DEF ContentsOK
<1> QED
  BY <1>1, <1>2, <1>3, <1>4, <1>5, <1>6, <1>7, <1>8, <1>9, <1>10, <1>11,
      <1>12, <1>13, <1>14, <1>15, <1>16, <1>17, <1>18, <1>19, <1>20, <1>21,
      <1>22, <1>23, <1>24, <1>25, <1>26, <1>27, <1>28, <1>29, <1>30, <1>31,
      <1>32, <1>33, <1>34 DEF Next, Pin, Lookup, Eviction, Unpin, Caller

(***************************************************************************)
(* Every step preserves what the file has of the pages.                    *)
(***************************************************************************)
LEMMA FileStep ==
  ASSUME BufferInv, PageLocksOwned, CreatedOK, DirtyKnown, ContentsOK, FileOK,
         \A f \in Frames, v \in Threads : SavesOK(f, v),
         [Next]_vars
  PROVE  FileOK'
<1> USE NoneAssumption DEF table, tableLock, counters, contents, pageLock, request, search, modes,
            client, files, history,
            At, Go, EndTurn, EndCall, RetryWith, Pinned, LockTable, UnlockTable
<1>0. /\ TypeOK /\ CreatedOK /\ FileOK
      /\ \A v \in Threads : FrameOK(v)
      /\ \A f \in Frames, v \in Threads : SavesOK(f, v)
      /\ \A f \in Frames : FrameContentsOK(f)
  BY DEF BufferInv, LocalsOK, ContentsOK
<1>1. ASSUME NEW t \in Threads, EnterTable(t) PROVE FileOK'
  BY <1>1, <1>0 DEF EnterTable, FileOK
<1>2. ASSUME NEW t \in Threads, HitPinned(t) PROVE FileOK'
  BY <1>2, <1>0 DEF HitPinned, Hit, FileOK
<1>3. ASSUME NEW t \in Threads, HitUnpinnedShared(t) PROVE FileOK'
  BY <1>3, <1>0 DEF HitUnpinnedShared, Hit, FileOK
<1>4. ASSUME NEW t \in Threads, HitUnpinnedExclusive(t) PROVE FileOK'
  BY <1>4, <1>0 DEF HitUnpinnedExclusive, Hit, FileOK
<1>5. ASSUME NEW t \in Threads, MissShared(t) PROVE FileOK'
  BY <1>5, <1>0 DEF MissShared, Miss, FileOK
<1>6. ASSUME NEW t \in Threads, StartScan(t) PROVE FileOK'
  BY <1>6, <1>0 DEF StartScan, Miss, FileOK
<1>7. ASSUME NEW t \in Threads, NEW f \in Frames, UseFreeSlot(t, f) PROVE
    FileOK'
  BY <1>7, <1>0 DEF UseFreeSlot, Miss, Claimed, FileOK
<1>8. ASSUME NEW t \in Threads, UndoPin(t) PROVE FileOK'
  BY <1>8, <1>0 DEF UndoPin, FileOK
<1>9. ASSUME NEW t \in Threads, LockForLoad(t) PROVE FileOK'
  BY <1>9, <1>0 DEF LockForLoad, LockPage, FileOK
<1>10. ASSUME NEW t \in Threads, Load(t) PROVE FileOK'
  BY <1>10, <1>0 DEF Load, UnlockPage, FileOK
<1>11. ASSUME NEW t \in Threads, SkipEntry(t) PROVE FileOK'
  BY <1>11, <1>0 DEF SkipEntry, FileOK
<1>12. ASSUME NEW t \in Threads, ScanLRU(t) PROVE FileOK'
  BY <1>12, <1>0 DEF ScanLRU, FileOK
<1>13. ASSUME NEW t \in Threads, Raise(t) PROVE FileOK'
  BY <1>13, <1>0 DEF Raise, FileOK
<1>14. ASSUME NEW t \in Threads, FindVictim(t) PROVE FileOK'
  BY <1>14, <1>0 DEF FindVictim, FileOK
<1>15. ASSUME NEW t \in Threads, PinVictim(t) PROVE FileOK'
  BY <1>15, <1>0 DEF PinVictim, FileOK
<1>16. ASSUME NEW t \in Threads, TestDirty(t) PROVE FileOK'
  BY <1>16, <1>0 DEF TestDirty, FileOK
<1>17. ASSUME NEW t \in Threads, MarkClean(t) PROVE FileOK'
  BY <1>17, <1>0 DEF MarkClean, FileOK
<1>18. ASSUME NEW t \in Threads, LockForSave(t) PROVE FileOK'
  BY <1>18, <1>0 DEF LockForSave, LockPage, FileOK
<1>19. ASSUME NEW t \in Threads, Save(t) PROVE FileOK'
  <2> DEFINE h == frame[t]
  <2>1. /\ pc[t] = "save" /\ UNCHANGED <<latest, synced>>
        /\ disk' = [disk EXCEPT ![id[h]] = data[h]]
    BY <1>19 DEF Save
  <2>2. h \in Frames \ freeSlots /\ id[h] \in known /\ ~Loading(h)
    BY <1>0, <2>1 DEF SavesOK, SaveSteps, FrameOK, PinSteps
  <2>3. id[h] \in Pages /\ data[h] = Newest(id[h])
    BY <1>0, <2>2 DEF TypeOK, FrameContentsOK, FrameNewest
  <2> QED BY <1>0, <2>1, <2>3 DEF FileOK, Newest, TypeOK
<1>20. ASSUME NEW t \in Threads, Relock(t) PROVE FileOK'
  BY <1>20, <1>0 DEF Relock, FileOK
<1>21. ASSUME NEW t \in Threads, Recheck(t) PROVE FileOK'
  BY <1>21, <1>0 DEF Recheck, FileOK
<1>22. ASSUME NEW t \in Threads, GiveUp(t) PROVE FileOK'
  BY <1>22, <1>0 DEF GiveUp, FileOK
<1>23. ASSUME NEW t \in Threads, Evict(t) PROVE FileOK'
  BY <1>23, <1>0 DEF Evict, Claimed, FileOK
<1>24. ASSUME NEW t \in Threads, ChooseMode(t) PROVE FileOK'
  BY <1>24, <1>0 DEF ChooseMode, FileOK
<1>25. ASSUME NEW t \in Threads, EnterPage(t) PROVE FileOK'
  BY <1>25, <1>0 DEF EnterPage, LockPage, FileOK
<1>26. ASSUME NEW t \in Threads, ReleasePage(t) PROVE FileOK'
  BY <1>26, <1>0 DEF ReleasePage, UnlockPage, FileOK
<1>27. ASSUME NEW t \in Threads, DecPins(t) PROVE FileOK'
  BY <1>27, <1>0 DEF DecPins, FileOK
<1>28. ASSUME NEW t \in Threads, NEW p \in Pages, NEW k \in Kinds, PinPage(t,
    p, k) PROVE FileOK'
  BY <1>28, <1>0 DEF PinPage, Call, FileOK
<1>29. ASSUME NEW t \in Threads, NEW p \in Pages, CreatePage(t, p) PROVE
    FileOK'
  BY <1>29, <1>0 DEF CreatePage, Call, FileOK
<1>30. ASSUME NEW t \in Threads, NEW f \in Frames, Write(t, f) PROVE FileOK'
  <2>1. /\ latest' = [latest EXCEPT ![id[f]] = latest[id[f]] + 1]
        /\ UNCHANGED <<disk, synced>>
    BY <1>30 DEF Write
  <2>2. \A p \in Pages : /\ disk[p].version \in Nat /\ synced[p] \in Nat
                         /\ latest[p] \in Nat /\ latest'[p] \in {latest[p], latest[p] + 1}
    BY <1>0, <2>1 DEF TypeOK, Content
  <2> QED BY <1>0, <2>1, <2>2 DEF FileOK
<1>31. ASSUME NEW t \in Threads, NEW f \in Frames, NEW d \in BOOLEAN,
    UnpinPage(t, f, d) PROVE FileOK'
  BY <1>31, <1>0 DEF UnpinPage, FileOK
<1>32. ASSUME Flush PROVE FileOK'
  <2>1. synced' = latest /\ latest' = latest
    BY <1>32 DEF Flush
  <2>2. \A p \in known : disk'[p] = Newest(p)
    BY <1>32, FlushSavesAll
  <2>3. ASSUME NEW p \in Pages \ known PROVE disk'[p] = disk[p]
    BY <1>32, <1>0, <2>3, SavesNewest DEF Flush
  <2>4. ASSUME NEW p \in Pages
        PROVE  /\ disk'[p].version > 0 => disk'[p].page = p
               /\ synced'[p] <= latest'[p] /\ disk'[p].version >= synced'[p]
               /\ synced'[p] > 0 => disk'[p].version <= latest'[p]
    <3>0. latest[p] \in Nat /\ disk[p].version \in Nat
      BY <1>0 DEF TypeOK, Content
    <3>1. CASE p \in known
      <4>1. disk'[p] = [page |-> p, version |-> latest[p]]
        BY <2>2, <3>1 DEF Newest
      <4> QED BY <2>1, <3>0, <4>1
    <3>2. CASE p \notin known
      <4>1. disk'[p] = disk[p] /\ latest[p] = 0
        BY <1>0, <2>3, <3>2 DEF CreatedOK
      <4> QED BY <1>0, <2>1, <3>0, <4>1 DEF FileOK
    <3> QED BY <3>1, <3>2
  <2> QED BY <2>4 DEF FileOK
<1>33. ASSUME FlushCutShort \/ Restart PROVE FileOK'
  <2>0. PICK pages \in SUBSET Pages : StartAgain(pages)
    BY <1>33, <1>0, EndFacts
  <2>1. /\ synced' = latest'
        /\ latest' = [p \in Pages |-> IF p \in pages THEN disk'[p].version ELSE 0]
    BY <2>0 DEF StartAgain
  <2>2. \A p \in Pages : disk'[p] = disk[p] \/ disk'[p] = Newest(p)
    BY <1>33, <1>0, EndContents
  <2>3. ASSUME NEW p \in Pages
        PROVE  disk'[p].version \in Nat /\ (disk'[p].version > 0 => disk'[p].page = p)
    <3>1. disk[p].version \in Nat /\ latest[p] \in Nat
      BY <1>0 DEF TypeOK, Content
    <3>2. CASE disk'[p] = disk[p]
      BY <1>0, <3>1, <3>2 DEF FileOK
    <3>3. CASE disk'[p] = Newest(p)
      BY <3>1, <3>3 DEF Newest
    <3> QED BY <2>2, <3>2, <3>3
  <2>4. ASSUME NEW p \in Pages PROVE latest'[p] = 0 \/ latest'[p] = disk'[p].version
    BY <2>1
  <2> QED BY <2>1, <2>3, <2>4 DEF FileOK
<1>34. ASSUME UNCHANGED vars PROVE FileOK'
  BY <1>34, <1>0 DEF vars, FileOK
<1> QED
  BY <1>1, <1>2, <1>3, <1>4, <1>5, <1>6, <1>7, <1>8, <1>9, <1>10, <1>11,
      <1>12, <1>13, <1>14, <1>15, <1>16, <1>17, <1>18, <1>19, <1>20, <1>21,
      <1>22, <1>23, <1>24, <1>25, <1>26, <1>27, <1>28, <1>29, <1>30, <1>31,
      <1>32, <1>33, <1>34 DEF Next, Pin, Lookup, Eviction, Unpin, Caller

(***************************************************************************)
(* DataInv holds at the start and every step preserves it.                 *)
(***************************************************************************)
LEMMA DataInit == Init => DataInv
<1> SUFFICES ASSUME Init PROVE DataInv
  OBVIOUS
<1> USE NoneAssumption, PagesAssumption
    DEF Init, EmptyBuffer, NewThreads
<1>1. PageLocksOwned
  BY DEF PageLocksOwned, PageLockOwned
<1>2. \A t \in Threads : ArrivalOK(t) /\ CreationOK(t)
  BY DEF ArrivalOK, CreationOK, Creating, Arrived, LoadSteps, InPin
<1>3. \A f \in Frames, t \in Threads : SavesOK(f, t)
  BY DEF SavesOK
<1>4. CreatedOK /\ DirtyKnown
  BY DEF CreatedOK, DirtyKnown
<1>5. ContentsOK
  BY DEF ContentsOK, FrameContentsOK, PageContentsOK, Newest
<1>6. FileOK
  BY DEF FileOK, Zeros
<1> QED BY <1>1, <1>2, <1>3, <1>4, <1>5, <1>6 DEF DataInv

LEMMA DataStep ==
  ASSUME BufferInv, DataInv, [Next]_vars
  PROVE  DataInv'
<1> USE DEF DataInv
<1>1. PageLocksOwned'
  BY PageLocksStep
<1>2. (\A t \in Threads : ArrivalOK(t) /\ CreationOK(t))'
  BY ArrivalStep, CreationStep
<1>3. (\A f \in Frames, t \in Threads : SavesOK(f, t))'
  BY SavesStep
<1>4. CreatedOK' /\ DirtyKnown'
  BY CreatedStep, DirtyStep
<1>5. ContentsOK'
  BY ContentsStep
<1>6. FileOK'
  BY FileStep
<1> QED BY <1>1, <1>2, <1>3, <1>4, <1>5, <1>6

LEMMA DataInvariant == Spec => []DataInv
<1>1. BufferInv /\ DataInv /\ [Next]_vars => DataInv'
  BY DataStep
<1> QED BY <1>1, DataInit, Invariant, PTL DEF Spec

(***************************************************************************)
(* The theorems.                                                           *)
(***************************************************************************)

(* The lock that a thread takes to load a page while it holds the table is  *)
(* free, so that no thread ever waits for a page with the table locked for  *)
(* a load: "lock the page (instant)", PageBuffer.h:188 and :256.            *)
THEOREM LoadLockInstant == Spec => []InstantLoadLock
<1>1. ASSUME BufferInv, DataInv, NEW t \in Threads, pc[t] = "loadLock"
      PROVE  CanLockPage(frame[t], TRUE)
  <2> DEFINE g == frame[t]
  <2>1. g \in Frames /\ g \notin held[t]
    BY <1>1 DEF BufferInv, LocalsOK, FrameOK, PinSteps
  <2>2. \A u \in Threads : g \notin held[u] /\ ~(pc[u] \in {"load", "save"} /\ frame[u] = g)
    <3> SUFFICES ASSUME NEW u \in Threads, u # t
                 PROVE  g \notin held[u] /\ ~(pc[u] \in {"load", "save"} /\ frame[u] = g)
      BY <1>1, <2>1
    <3>1. ~Uses(u, g)
      BY <1>1, AloneAtLoad DEF DataInv
    <3> QED BY <3>1 DEF Uses, PinSteps
  <2>3. pageWriter[g] \in Threads \cup {None} /\ pageReaders[g] \subseteq Threads
    BY <1>1, <2>1 DEF BufferInv, TypeOK
  <2>4. \A u \in Threads : pageWriter[g] # u /\ u \notin pageReaders[g]
    BY <1>1, <2>1, <2>2 DEF DataInv, PageLocksOwned, PageLockOwned
  <2> QED BY <2>3, <2>4 DEF CanLockPage
<1>2. BufferInv /\ DataInv => InstantLoadLock
  BY <1>1 DEF InstantLoadLock, At
<1> QED BY <1>2, Invariant, DataInvariant, PTL

(* A thread that holds a page sees it as the last writer left it, however   *)
(* often the page was saved, evicted and loaded in between.                 *)
THEOREM HoldersCurrent == Spec => []HoldersSeeNewest
<1>1. ASSUME BufferInv, DataInv, NEW t \in Threads, NEW f \in held[t], id[f] \in known
      PROVE  data[f] = Newest(id[f])
  <2>1. f \in Frames /\ f \notin freeSlots
    BY <1>1 DEF BufferInv, TypeOK, LocalsOK, HeldOK
  <2>2. ~Loading(f)
    BY <1>1, HeldIsLoaded DEF DataInv
  <2> QED BY <1>1, <2>1, <2>2 DEF DataInv, ContentsOK, FrameContentsOK, FrameNewest
<1>2. BufferInv /\ DataInv => HoldersSeeNewest
  BY <1>1 DEF HoldersSeeNewest
<1> QED BY <1>2, Invariant, DataInvariant, PTL

(* A page that is in no frame, or in a clean one that nobody uses, is on    *)
(* disk as last written: dropping it from memory loses nothing.             *)
THEOREM NothingLost == Spec => []NoLostUpdate
<1>1. ASSUME BufferInv, DataInv, NEW p \in known,
             pageTable[p] = None \/ (~dirty[pageTable[p]] /\ Users(pageTable[p]) = {})
      PROVE  disk[p] = Newest(p)
  <2>0. p \in Pages
    BY <1>1 DEF BufferInv, TypeOK
  <2>1. CASE pageTable[p] = None
    BY <1>1, <2>0, <2>1 DEF DataInv, ContentsOK, PageContentsOK
  <2>2. CASE pageTable[p] # None
    <3> DEFINE f == pageTable[p]
    <3>1. f \in Frames \ freeSlots /\ id[f] = p
      BY <1>1, <2>0, <2>2, PageInOneFrame
    <3>2. ~dirty[f] /\ \A u \in Threads : ~Uses(u, f)
      BY <1>1, <2>2 DEF Users
    <3>3. ~Saving(f)
      BY <3>2 DEF Saving, SaveSteps, Uses, PinSteps
    <3>4. ~Written(f)
      <4>1. \A u \in Threads : f \in wrote[u] => f \in held[u]
        BY <1>1, <3>1 DEF DataInv, PageLocksOwned, PageLockOwned
      <4> QED BY <3>2, <4>1 DEF Written, Uses
    <3> QED BY <1>1, <3>1, <3>2, <3>3, <3>4 DEF DataInv, ContentsOK, FrameContentsOK, FileNewest
  <2> QED BY <2>1, <2>2
<1>2. BufferInv /\ DataInv => NoLostUpdate
  BY <1>1 DEF NoLostUpdate
<1> QED BY <1>2, Invariant, DataInvariant, PTL

(* The file never holds a page older than at the last flush, whatever is    *)
(* saved, evicted or changed after it and whenever the process ends.        *)
THEOREM FlushedStays == Spec => []FlushedSurvives
<1>1. DataInv => FlushedSurvives
  BY DEF DataInv, FileOK, FlushedSurvives
<1> QED BY <1>1, DataInvariant, PTL

(***************************************************************************)
(* The page buffer implements PageStore: under BufferInv and DataInv the   *)
(* version a user can see is the newest one, so that only Write and        *)
(* Restart change it, and only EnterPage, ReleasePage and Restart change   *)
(* who may see it.                                                         *)
(***************************************************************************)
(* The substitution of Store in PageBuffer. *)
SeenVersion == [p \in Pages |-> StoredVersion(p)]
SeenAccess  == [t \in Threads |-> [p \in Pages |-> StoredAccess(t, p)]]
SeesNewest  == SeenVersion = latest
StoreMove   == [Store!StoreNext]_(Store!storeVars)

LEMMA VersionNewest == BufferInv /\ DataInv => SeesNewest
<1> SUFFICES ASSUME BufferInv, DataInv, NEW p \in Pages
             PROVE  StoredVersion(p) = latest[p]
  BY DEF SeesNewest, SeenVersion, BufferInv, TypeOK
<1> USE NoneAssumption
<1>1. CASE p \notin known
  BY <1>1 DEF StoredVersion, DataInv, CreatedOK
<1>2. CASE p \in known /\ pageTable[p] = None
  <2>1. disk[p] = Newest(p)
    BY <1>2 DEF DataInv, ContentsOK, PageContentsOK
  <2> QED BY <1>2, <2>1 DEF StoredVersion, Newest
<1>3. CASE p \in known /\ pageTable[p] # None
  <2> DEFINE f == pageTable[p]
  <2>1. f \in Frames \ freeSlots /\ id[f] = p
    BY <1>3, PageInOneFrame
  <2>2. CASE Loading(f)
    <3>1. PICK t \in Threads : pc[t] \in LoadSteps /\ frame[t] = f
      BY <2>2 DEF Loading, LoadSteps
    <3>2. disk[p] = Newest(p)
      BY <1>3, <2>1, <3>1, LoadsNewest DEF DataInv
    <3> QED BY <1>3, <2>2, <3>2 DEF StoredVersion, Newest
  <2>3. CASE ~Loading(f)
    <3>1. data[f] = Newest(p)
      BY <1>3, <2>1, <2>3 DEF DataInv, ContentsOK, FrameContentsOK, FrameNewest
    <3> QED BY <1>3, <2>3, <3>1 DEF StoredVersion, Newest
  <2> QED BY <2>2, <2>3
<1> QED BY <1>1, <1>2, <1>3

(* What a thread may do with a page depends on the frames it holds only. *)
LEMMA AccessStays ==
  ASSUME held' = held,
         \A u \in Threads : \A f \in held[u] :
           id'[f] = id[f] /\ (pageWriter'[f] = u <=> pageWriter[f] = u)
  PROVE  SeenAccess' = SeenAccess
<1>1. ASSUME NEW u \in Threads, NEW p \in Pages
      PROVE  StoredAccess(u, p)' = StoredAccess(u, p)
  BY DEF StoredAccess
<1> QED BY <1>1 DEF SeenAccess

LEMMA Unseen ==
  ASSUME SeesNewest, SeesNewest', UNCHANGED <<latest, synced>>, SeenAccess' = SeenAccess
  PROVE  StoreMove
BY DEF StoreMove, SeesNewest, SeenVersion, SeenAccess, Store!storeVars

LEMMA UnseenStep ==
  ASSUME SeesNewest, SeesNewest', UNCHANGED <<latest, synced, held, id, pageWriter>>
  PROVE  StoreMove
BY AccessStays, Unseen

(* A page that a thread holds is in one of its frames only. *)
LEMMA AccessOfHeld ==
  ASSUME BufferInv, NEW u \in Threads, NEW g \in Frames \ freeSlots, id[g] \in Pages
  PROVE  StoredAccess(u, id[g]) =
           IF g \notin held[u] THEN "none"
           ELSE IF pageWriter[g] = u THEN "write" ELSE "read"
<1>1. \A f \in held[u] : f \in Frames \ freeSlots
  BY DEF BufferInv, TypeOK, LocalsOK, HeldOK
<1>2. \A f \in held[u] : id[f] = id[g] => f = g
  BY <1>1, PageInOneFrame
<1> QED BY <1>2 DEF StoredAccess

(***************************************************************************)
(* Every step of the buffer is a step of the store or one it does not see. *)
(***************************************************************************)
LEMMA StoreStep ==
  ASSUME BufferInv, DataInv, SeesNewest, SeesNewest', [Next]_vars
  PROVE  StoreMove
<1> USE NoneAssumption DEF table, tableLock, counters, contents, pageLock, request, search, modes,
            client, files, history,
            At, Go, EndTurn, EndCall, RetryWith, Pinned, LockTable, UnlockTable
<1>0. /\ TypeOK /\ PageLocksOwned /\ FileOK /\ SeesNewest /\ SeesNewest'
      /\ \A v \in Threads : FrameOK(v) /\ HeldOK(v) /\ ArrivalOK(v)
  BY DEF BufferInv, LocalsOK, DataInv
<1>1. ASSUME NEW t \in Threads, EnterTable(t) PROVE StoreMove
  BY <1>1, UnseenStep DEF EnterTable
<1>2. ASSUME NEW t \in Threads, HitPinned(t) PROVE StoreMove
  BY <1>2, UnseenStep DEF HitPinned, Hit
<1>3. ASSUME NEW t \in Threads, HitUnpinnedShared(t) PROVE StoreMove
  BY <1>3, UnseenStep DEF HitUnpinnedShared, Hit
<1>4. ASSUME NEW t \in Threads, HitUnpinnedExclusive(t) PROVE StoreMove
  BY <1>4, UnseenStep DEF HitUnpinnedExclusive, Hit
<1>5. ASSUME NEW t \in Threads, MissShared(t) PROVE StoreMove
  BY <1>5, UnseenStep DEF MissShared, Miss
<1>6. ASSUME NEW t \in Threads, StartScan(t) PROVE StoreMove
  BY <1>6, UnseenStep DEF StartScan, Miss
<1>7. ASSUME NEW t \in Threads, NEW f \in Frames, UseFreeSlot(t, f) PROVE
    StoreMove
  <2>1. /\ f \in freeSlots /\ id' = [id EXCEPT ![f] = want[t]]
        /\ UNCHANGED <<latest, synced, held, pageWriter>>
    BY <1>7 DEF UseFreeSlot
  <2>2. \A u \in Threads : f \notin held[u]
    BY <1>0, <2>1 DEF HeldOK
  <2>3. SeenAccess' = SeenAccess
    BY <1>0, <2>1, <2>2, AccessStays DEF TypeOK
  <2> QED BY <2>1, <2>3, Unseen
<1>8. ASSUME NEW t \in Threads, UndoPin(t) PROVE StoreMove
  BY <1>8, UnseenStep DEF UndoPin
<1>9. ASSUME NEW t \in Threads, LockForLoad(t) PROVE StoreMove
  <2>1. /\ pc[t] = "loadLock" /\ pageWriter' = [pageWriter EXCEPT ![frame[t]] = t]
        /\ UNCHANGED <<latest, synced, held, id>>
    BY <1>9 DEF LockForLoad, LockPage
  <2>2. frame[t] \in Frames /\ \A u \in Threads : frame[t] \notin held[u]
    BY <1>0, <2>1, AloneAtLoad DEF FrameOK, PinSteps, Uses
  <2>3. SeenAccess' = SeenAccess
    BY <1>0, <2>1, <2>2, AccessStays DEF TypeOK
  <2> QED BY <2>1, <2>3, Unseen
<1>10. ASSUME NEW t \in Threads, Load(t) PROVE StoreMove
  <2> DEFINE g == frame[t]
  <2>1. /\ pc[t] = "load" /\ UNCHANGED <<latest, synced, held, id>>
        /\ pageWriter' = [pageWriter EXCEPT ![g] = IF pageWriter[g] = t THEN None ELSE pageWriter[g]]
    BY <1>10 DEF Load, UnlockPage
  <2>2. g \in Frames /\ g \notin held[t]
    BY <1>0, <2>1 DEF FrameOK, PinSteps
  <2>3. SeenAccess' = SeenAccess
    BY <1>0, <2>1, <2>2, AccessStays DEF TypeOK
  <2> QED BY <2>1, <2>3, Unseen
<1>11. ASSUME NEW t \in Threads, SkipEntry(t) PROVE StoreMove
  BY <1>11, UnseenStep DEF SkipEntry
<1>12. ASSUME NEW t \in Threads, ScanLRU(t) PROVE StoreMove
  BY <1>12, UnseenStep DEF ScanLRU
<1>13. ASSUME NEW t \in Threads, Raise(t) PROVE StoreMove
  BY <1>13, UnseenStep DEF Raise
<1>14. ASSUME NEW t \in Threads, FindVictim(t) PROVE StoreMove
  BY <1>14, UnseenStep DEF FindVictim
<1>15. ASSUME NEW t \in Threads, PinVictim(t) PROVE StoreMove
  BY <1>15, UnseenStep DEF PinVictim
<1>16. ASSUME NEW t \in Threads, TestDirty(t) PROVE StoreMove
  BY <1>16, UnseenStep DEF TestDirty
<1>17. ASSUME NEW t \in Threads, MarkClean(t) PROVE StoreMove
  BY <1>17, UnseenStep DEF MarkClean
<1>18. ASSUME NEW t \in Threads, LockForSave(t) PROVE StoreMove
  <2> DEFINE g == frame[t]
  <2>1. /\ pc[t] = "saveLock" /\ UNCHANGED <<latest, synced, held, id>>
        /\ pageWriter[g] = None /\ pageWriter' = [pageWriter EXCEPT ![g] = None]
    BY <1>18 DEF LockForSave, LockPage, CanLockPage
  <2>2. pageWriter' = pageWriter
    BY <1>0, <2>1 DEF TypeOK, FrameOK, PinSteps
  <2> QED BY <2>1, <2>2, UnseenStep
<1>19. ASSUME NEW t \in Threads, Save(t) PROVE StoreMove
  <2> DEFINE g == frame[t]
  <2>1. /\ pc[t] = "save" /\ UNCHANGED <<latest, synced, held, id>>
        /\ pageWriter' = [pageWriter EXCEPT ![g] = IF pageWriter[g] = t THEN None ELSE pageWriter[g]]
    BY <1>19 DEF Save, UnlockPage
  <2>2. g \in Frames /\ g \notin held[t]
    BY <1>0, <2>1 DEF FrameOK, PinSteps
  <2>3. SeenAccess' = SeenAccess
    BY <1>0, <2>1, <2>2, AccessStays DEF TypeOK
  <2> QED BY <2>1, <2>3, Unseen
<1>20. ASSUME NEW t \in Threads, Relock(t) PROVE StoreMove
  BY <1>20, UnseenStep DEF Relock
<1>21. ASSUME NEW t \in Threads, Recheck(t) PROVE StoreMove
  BY <1>21, UnseenStep DEF Recheck
<1>22. ASSUME NEW t \in Threads, GiveUp(t) PROVE StoreMove
  BY <1>22, UnseenStep DEF GiveUp
<1>23. ASSUME NEW t \in Threads, Evict(t) PROVE StoreMove
  <2>1. /\ pc[t] = "recheckDirty" /\ id' = [id EXCEPT ![frame[t]] = want[t]]
        /\ UNCHANGED <<latest, synced, held, pageWriter>>
    BY <1>23 DEF Evict
  <2>2. frame[t] \in Frames /\ \A u \in Threads : frame[t] \notin held[u]
    BY <1>0, <2>1, AloneAtEvict DEF FrameOK, PinSteps, Uses
  <2>3. SeenAccess' = SeenAccess
    BY <1>0, <2>1, <2>2, AccessStays DEF TypeOK
  <2> QED BY <2>1, <2>3, Unseen
<1>24. ASSUME NEW t \in Threads, ChooseMode(t) PROVE StoreMove
  BY <1>24, UnseenStep DEF ChooseMode
<1>25. ASSUME NEW t \in Threads, EnterPage(t) PROVE StoreMove
  <2> DEFINE g == frame[t]
             q == id[g]
             a == IF exclusive[t] THEN "write" ELSE "read"
  <2>1. /\ pc[t] = "lockPage" /\ UNCHANGED <<latest, synced, id>>
        /\ held' = [held EXCEPT ![t] = held[t] \cup {g}]
        /\ pageWriter[g] = None /\ (exclusive[t] => pageReaders[g] = {})
        /\ pageWriter' = [pageWriter EXCEPT ![g] = IF exclusive[t] THEN t ELSE None]
    BY <1>25 DEF EnterPage, LockPage, CanLockPage
  <2>2. g \in Frames \ freeSlots /\ g \notin held[t] /\ q \in Pages
    BY <1>0, <2>1, PageInOneFrame DEF FrameOK, PinSteps
  <2>3. StoredAccess(t, q) = "none"
    BY <2>2, AccessOfHeld
  <2>4. ASSUME NEW u \in Threads \ {t}
        PROVE  /\ StoredAccess(u, q) # "write"
               /\ exclusive[t] => StoredAccess(u, q) = "none"
    <3>1. StoredAccess(u, q) = IF g \notin held[u] THEN "none"
                               ELSE IF pageWriter[g] = u THEN "write" ELSE "read"
      BY <2>2, AccessOfHeld
    <3>2. exclusive[t] => g \notin held[u]
      BY <1>0, <2>1, <2>2 DEF PageLocksOwned, PageLockOwned
    <3> QED BY <2>1, <3>1, <3>2
  <2>5. ASSUME NEW u \in Threads, NEW p \in Pages
        PROVE  StoredAccess(u, p)' = IF u = t /\ p = q THEN a ELSE StoredAccess(u, p)
    <3>1. CASE u = t /\ p = q
      <4>1. g \in held'[t] /\ id'[g] = p
        BY <1>0, <2>1, <2>2, <3>1 DEF TypeOK
      <4>2. \A f \in held'[t] : id'[f] = p => f = g
        <5>1. \A f \in held[t] : f \in Frames \ freeSlots
          BY <1>0 DEF TypeOK, HeldOK
        <5> QED BY <1>0, <2>1, <2>2, <3>1, <5>1, PageInOneFrame DEF TypeOK
      <4>3. pageWriter'[g] = t <=> exclusive[t]
        BY <1>0, <2>1, <2>2 DEF TypeOK
      <4> QED BY <3>1, <4>1, <4>2, <4>3 DEF StoredAccess
    <3>2. CASE u = t /\ p # q
      <4>1. /\ \A f : id[f] = p => (f \in held'[t] <=> f \in held[t])
            /\ \A f \in held[t] : pageWriter'[f] = pageWriter[f]
        BY <1>0, <2>1, <2>2, <3>2 DEF TypeOK
      <4> QED BY <2>1, <3>2, <4>1 DEF StoredAccess
    <3>3. CASE u # t
      <4>1. /\ held'[u] = held[u]
            /\ \A f \in held[u] : pageWriter'[f] = u <=> pageWriter[f] = u
        BY <1>0, <2>1, <2>2, <3>3 DEF TypeOK
      <4> QED BY <2>1, <3>3, <4>1 DEF StoredAccess
    <3> QED BY <3>1, <3>2, <3>3
  <2>6. SeenAccess' = [SeenAccess EXCEPT ![t][q] = a]
    BY <2>2, <2>5 DEF SeenAccess
  <2>7. SeenVersion' = SeenVersion /\ synced' = synced
    BY <1>0, <2>1 DEF SeesNewest
  <2>8. a \in {"read", "write"} /\ Store!Acquire(t, q, a)
    BY <2>2, <2>3, <2>4, <2>6, <2>7 DEF Store!Acquire, Store!Compatible, SeenAccess, SeenVersion
  <2> QED BY <2>2, <2>8 DEF StoreMove, Store!StoreNext
<1>26. ASSUME NEW t \in Threads, ReleasePage(t) PROVE StoreMove
  <2> DEFINE g == frame[t]
             q == id[g]
  <2>1. /\ pc[t] = "unlockPage" /\ UNCHANGED <<latest, synced, id>>
        /\ held' = [held EXCEPT ![t] = held[t] \ {g}]
        /\ pageWriter' = [pageWriter EXCEPT ![g] = IF pageWriter[g] = t THEN None ELSE pageWriter[g]]
    BY <1>26 DEF ReleasePage, UnlockPage
  <2>2. g \in Frames \ freeSlots /\ g \in held[t] /\ q \in Pages
    BY <1>0, <2>1, PageInOneFrame DEF FrameOK, HeldOK
  <2>3. StoredAccess(t, q) # "none"
    BY <2>2, AccessOfHeld
  <2>4. ASSUME NEW u \in Threads, NEW p \in Pages
        PROVE  StoredAccess(u, p)' = IF u = t /\ p = q THEN "none" ELSE StoredAccess(u, p)
    <3>1. CASE u = t /\ p = q
      <4>1. \A f \in held'[t] : id'[f] # p
        <5>1. \A f \in held[t] : f \in Frames \ freeSlots
          BY <1>0 DEF TypeOK, HeldOK
        <5> QED BY <1>0, <2>1, <2>2, <3>1, <5>1, PageInOneFrame DEF TypeOK
      <4> QED BY <3>1, <4>1 DEF StoredAccess
    <3>2. CASE u = t /\ p # q
      <4>1. /\ \A f : id[f] = p => (f \in held'[t] <=> f \in held[t])
            /\ \A f \in held'[t] : pageWriter'[f] = pageWriter[f]
        BY <1>0, <2>1, <2>2, <3>2 DEF TypeOK
      <4> QED BY <2>1, <3>2, <4>1 DEF StoredAccess
    <3>3. CASE u # t
      <4>1. /\ held'[u] = held[u]
            /\ \A f \in held[u] : pageWriter'[f] = u <=> pageWriter[f] = u
        BY <1>0, <2>1, <2>2, <3>3 DEF TypeOK
      <4> QED BY <2>1, <3>3, <4>1 DEF StoredAccess
    <3> QED BY <3>1, <3>2, <3>3
  <2>6. SeenAccess' = [SeenAccess EXCEPT ![t][q] = "none"]
    BY <2>2, <2>4 DEF SeenAccess
  <2>7. SeenVersion' = SeenVersion /\ synced' = synced
    BY <1>0, <2>1 DEF SeesNewest
  <2>8. Store!Release(t, q)
    BY <2>2, <2>3, <2>6, <2>7 DEF Store!Release, SeenAccess, SeenVersion
  <2> QED BY <2>2, <2>8 DEF StoreMove, Store!StoreNext
<1>27. ASSUME NEW t \in Threads, DecPins(t) PROVE StoreMove
  BY <1>27, UnseenStep DEF DecPins
<1>28. ASSUME NEW t \in Threads, NEW p \in Pages, NEW k \in Kinds, PinPage(t,
    p, k) PROVE StoreMove
  BY <1>28, UnseenStep DEF PinPage, Call
<1>29. ASSUME NEW t \in Threads, NEW p \in Pages, CreatePage(t, p) PROVE
    StoreMove
  BY <1>29, UnseenStep DEF CreatePage, Call
<1>30. ASSUME NEW t \in Threads, NEW f \in Frames, Write(t, f) PROVE StoreMove
  <2> DEFINE q == id[f]
  <2>1. /\ f \in held[t] /\ pageWriter[f] = t /\ UNCHANGED <<id, held, pageWriter, synced>>
        /\ latest' = [latest EXCEPT ![q] = latest[q] + 1]
    BY <1>30 DEF Write
  <2>2. f \in Frames \ freeSlots /\ q \in Pages
    BY <1>0, <2>1, PageInOneFrame DEF HeldOK
  <2>3. StoredAccess(t, q) = "write"
    BY <2>1, <2>2, AccessOfHeld
  <2>4. SeenAccess' = SeenAccess
    BY <2>1, AccessStays
  <2>5. SeenVersion' = [SeenVersion EXCEPT ![q] = SeenVersion[q] + 1]
    BY <1>0, <2>1 DEF SeesNewest
  <2>6. Store!Update(t, q)
    BY <2>1, <2>2, <2>3, <2>4, <2>5 DEF Store!Update, SeenAccess, SeenVersion
  <2> QED BY <2>2, <2>6 DEF StoreMove, Store!StoreNext
<1>31. ASSUME NEW t \in Threads, NEW f \in Frames, NEW d \in BOOLEAN,
    UnpinPage(t, f, d) PROVE StoreMove
  BY <1>31, UnseenStep DEF UnpinPage
<1>32. ASSUME Flush PROVE StoreMove
  <2>1. /\ UNCHANGED <<id, held, pageWriter, latest>> /\ synced' = latest
        /\ \A u \in Threads : held[u] = {}
    BY <1>32 DEF Flush, Quiet
  <2>2. \A u \in Threads, p \in Pages : StoredAccess(u, p) = "none"
    BY <2>1 DEF StoredAccess
  <2>3. SeenAccess' = SeenAccess
    BY <2>1, AccessStays
  <2>4. SeenVersion' = SeenVersion /\ synced' = SeenVersion
    BY <1>0, <2>1 DEF SeesNewest
  <2>5. Store!Sync
    BY <2>2, <2>3, <2>4 DEF Store!Sync, SeenAccess, SeenVersion
  <2> QED BY <2>5 DEF StoreMove, Store!StoreNext
<1>33. ASSUME FlushCutShort \/ Restart PROVE StoreMove
  <2>0. PICK pages \in SUBSET Pages :
          /\ StartAgain(pages) /\ Synced \subseteq pages /\ pages \subseteq Synced \cup known
          /\ \A p \in pages : disk'[p] = Newest(p) \/ (p \in Synced /\ disk'[p] = disk[p])
    BY <1>33, <1>0, EndContents DEF DataInv
  <2>1. /\ synced' = latest'
        /\ latest' = [p \in Pages |-> IF p \in pages THEN disk'[p].version ELSE 0]
        /\ \A u \in Threads : held'[u] = {}
    BY <2>0 DEF StartAgain, ResetThreads
  <2>2. ASSUME NEW p \in Pages PROVE latest'[p] \in synced[p] .. latest[p]
    <3>1. /\ latest[p] \in Nat /\ synced[p] \in Nat /\ disk[p].version \in Nat
          /\ synced[p] <= latest[p] /\ disk[p].version >= synced[p]
          /\ synced[p] > 0 => disk[p].version <= latest[p]
      BY <1>0 DEF TypeOK, Content, DataInv, FileOK
    <3>2. CASE p \in pages /\ disk'[p] = Newest(p)
      BY <2>1, <3>1, <3>2 DEF Newest
    <3>3. CASE p \in pages /\ p \in Synced /\ disk'[p] = disk[p]
      BY <2>1, <3>1, <3>3 DEF Synced
    <3>4. CASE p \notin pages
      BY <2>0, <2>1, <3>1, <3>4 DEF Synced
    <3> QED BY <2>0, <3>2, <3>3, <3>4
  <2>3. \A u \in Threads, p \in Pages : StoredAccess(u, p)' = "none"
    BY <2>1 DEF StoredAccess
  <2>4. SeenVersion' = latest' /\ SeenVersion = latest
    BY <1>0 DEF SeesNewest
  <2>5. Store!Crash
    <3>1. \A p \in Pages : SeenVersion'[p] \in synced[p] .. SeenVersion[p]
      BY <2>2, <2>4
    <3>2. DOMAIN SeenVersion' = Pages
      BY DEF SeenVersion
    <3>3. synced' = SeenVersion'
      BY <2>1, <2>4
    <3>4. SeenAccess' = [u \in Threads |-> [p \in Pages |-> "none"]]
      BY <2>3 DEF SeenAccess
    <3> QED BY <3>1, <3>2, <3>3, <3>4 DEF Store!Crash, SeenAccess, SeenVersion
  <2> QED BY <2>5 DEF StoreMove, Store!StoreNext
<1>34. ASSUME UNCHANGED vars PROVE StoreMove
  BY <1>34, UnseenStep DEF vars
<1> QED
  BY <1>1, <1>2, <1>3, <1>4, <1>5, <1>6, <1>7, <1>8, <1>9, <1>10, <1>11,
      <1>12, <1>13, <1>14, <1>15, <1>16, <1>17, <1>18, <1>19, <1>20, <1>21,
      <1>22, <1>23, <1>24, <1>25, <1>26, <1>27, <1>28, <1>29, <1>30, <1>31,
      <1>32, <1>33, <1>34 DEF Next, Pin, Lookup, Eviction, Unpin, Caller

LEMMA StoreStart == Init => Store!StoreInit
<1> SUFFICES ASSUME Init PROVE Store!StoreInit
  OBVIOUS
<1>1. /\ pageTable = [p \in Pages |-> None] /\ known = OnDisk /\ OnDisk \subseteq Pages
      /\ latest = [p \in Pages |-> IF p \in OnDisk THEN 1 ELSE 0] /\ synced = latest
      /\ disk = [p \in Pages |-> IF p \in OnDisk
                                 THEN [page |-> p, version |-> 1] ELSE Zeros]
      /\ held = [t \in Threads |-> {}]
  BY PagesAssumption DEF Init, EmptyBuffer, NewThreads
<1>2. \A p \in Pages : StoredVersion(p) = latest[p]
  BY <1>1 DEF StoredVersion
<1>3. \A t \in Threads, p \in Pages : StoredAccess(t, p) = "none"
  BY <1>1 DEF StoredAccess
<1> QED BY <1>1, <1>2, <1>3 DEF Store!StoreInit

(* The buffer is a store of versioned pages under one readers-writer lock   *)
(* per page, with a flush and crashes: whatever pinPage loads, saves and    *)
(* evicts, and in whatever order threads do it, a user sees nothing else.   *)
THEOREM BufferImplementsStore == Spec => ImplementsStore
<1>1. BufferInv /\ DataInv /\ SeesNewest /\ SeesNewest' /\ [Next]_vars
        => [Store!StoreNext]_(Store!storeVars)
  BY StoreStep DEF StoreMove
<1> QED
  BY <1>1, StoreStart, VersionNewest, Invariant, DataInvariant, PTL
     DEF Spec, ImplementsStore, Store!StoreSpec
=============================================================================
