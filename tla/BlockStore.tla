----------------------------- MODULE BlockStore -----------------------------
(***************************************************************************)
(* What the segment manager promises: a set of blocks, each of which is    *)
(* owned by the callers or not.  A block is created only when nobody owns  *)
(* it, and what was written to it stays in it until it is deleted, however *)
(* the other blocks come and go.  A new start gives the callers back the   *)
(* blocks they owned at the last flush, with their contents.               *)
(***************************************************************************)
VARIABLES
  owned,     \* the blocks the callers own
  intact,    \* those among them that hold what was written to them
  kept       \* the blocks owned at the last flush, and ever since

storeVars == <<owned, intact, kept>>

StoreInit == owned = {} /\ intact = {} /\ kept = {}

(* The contents of a block that was just created are arbitrary. *)
Create(b) ==
  /\ b \notin owned
  /\ owned' = owned \cup {b}
  /\ intact' \in {intact, intact \cup {b}}
  /\ UNCHANGED kept

Put(b) ==
  /\ b \in owned
  /\ intact' = intact \cup {b}
  /\ UNCHANGED <<owned, kept>>

Delete(b) ==
  /\ b \in owned
  /\ owned' = owned \ {b}
  /\ intact' = intact \ {b}
  /\ kept' = kept \ {b}

Sync == kept' = owned /\ UNCHANGED <<owned, intact>>

Reopen ==
  /\ owned' = kept
  /\ intact' = intact \cap kept
  /\ UNCHANGED kept

StoreNext ==
  \/ \E b \in owned \cup owned' : Create(b) \/ Put(b) \/ Delete(b)
  \/ Sync
  \/ Reopen

StoreSpec == StoreInit /\ [][StoreNext]_storeVars
=============================================================================
