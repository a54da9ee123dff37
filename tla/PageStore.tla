------------------------------ MODULE PageStore ------------------------------
(***************************************************************************)
(* What the page buffer promises to its users: a store of versioned pages  *)
(* under one readers-writer lock per page.  Frames, queues, pins and files *)
(* do not appear: whatever the buffer loads, saves or evicts, the contents *)
(* of a page change only when a thread that has the page for writing       *)
(* updates it.  After a crash a page is at least as new as at the last     *)
(* flush.                                                                  *)
(***************************************************************************)
EXTENDS Integers

CONSTANTS Threads, Pages, OnDisk

VARIABLES
  version,   \* the version of a page a reader sees; 0 for no contents
  durable,   \* the version of a page the last flush made durable
  access     \* what a thread may do with a page

storeVars == <<version, durable, access>>

Access == {"none", "read", "write"}

StoreInit ==
  /\ version = [p \in Pages |-> IF p \in OnDisk THEN 1 ELSE 0]
  /\ durable = version
  /\ access = [t \in Threads |-> [p \in Pages |-> "none"]]

Compatible(t, p, a) ==
  \A u \in Threads \ {t} :
    /\ access[u][p] # "write"
    /\ a = "write" => access[u][p] = "none"

Acquire(t, p, a) ==
  /\ access[t][p] = "none" /\ Compatible(t, p, a)
  /\ access' = [access EXCEPT ![t][p] = a]
  /\ UNCHANGED <<version, durable>>

Update(t, p) ==
  /\ access[t][p] = "write"
  /\ version' = [version EXCEPT ![p] = @ + 1]
  /\ UNCHANGED <<durable, access>>

Release(t, p) ==
  /\ access[t][p] # "none"
  /\ access' = [access EXCEPT ![t][p] = "none"]
  /\ UNCHANGED <<version, durable>>

Sync ==
  /\ \A t \in Threads, p \in Pages : access[t][p] = "none"
  /\ durable' = version
  /\ UNCHANGED <<version, access>>

(* A crash may lose updates, but never one that was flushed before. *)
Crash ==
  /\ \A p \in Pages : version'[p] \in durable[p] .. version[p]
  /\ DOMAIN version' = Pages
  /\ durable' = version'
  /\ access' = [t \in Threads |-> [p \in Pages |-> "none"]]

StoreNext ==
  \/ \E t \in Threads, p \in Pages :
       \/ \E a \in {"read", "write"} : Acquire(t, p, a)
       \/ Update(t, p)
       \/ Release(t, p)
  \/ Sync
  \/ Crash

StoreSpec == StoreInit /\ [][StoreNext]_storeVars
=============================================================================
