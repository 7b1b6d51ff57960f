------------------------- MODULE LSMTreeProperties -------------------------
(***************************************************************************)
(* What the storage engine has to get right, stated over LSMTree.          *)
(***************************************************************************)
EXTENDS LSMTree

-----------------------------------------------------------------------------
(* What the log says.                                                      *)

Writes(i, c, k) ==
    /\ wal[i].op.type \in {"PUT", "DELETE"}
    /\ wal[i].op.coll = c /\ wal[i].op.key = k

(* Record i is part of what WriteAheadLog::recover returns. *)
Recoverable(i) == i \in DOMAIN wal /\ \A j \in 1..i : wal[j].readable

(* Among the first n records that recovery reads, the last one that writes *)
(* key k of collection c leaves v.                                         *)
LogSays(c, k, n, v) ==
    \/ /\ \E i \in 1..n :
            /\ Recoverable(i) /\ Writes(i, c, k) /\ wal[i].op.doc = v
            /\ \A j \in (i + 1)..n : ~(Recoverable(j) /\ Writes(j, c, k))
    \/ v = Nothing /\ \A i \in 1..n : ~(Recoverable(i) /\ Writes(i, c, k))

LogCreates(c) ==
    \E i \in DOMAIN wal : Recoverable(i) /\ wal[i].op = CollectionOp("CREATE_COLLECTION", c)

InFlight(c, k) ==
    \E t \in Threads : /\ pc[t] = "apply"
                       /\ CurrentOp(t).coll = c /\ CurrentOp(t).key = k

(* A document, or a tombstone, is in memory only if its record was handed  *)
(* to the log before (wal.h:47-49, "This must be called before the change  *)
(* is applied to the memtable").                                           *)
WriteAhead ==
    \A c \in Collections, k \in Keys :
        /\ data[c][k] \in Docs =>
               \E i \in DOMAIN wal : wal[i].op = PutOp(c, k, data[c][k])
        /\ data[c][k] = Tombstone =>
               \E i \in DOMAIN wal : wal[i].op = DeleteOp(c, k)

(* While the server runs, what a client reads is what a recovery would     *)
(* rebuild, except where a thread has logged a write it is about to apply: *)
(* a crash at any moment loses no write that was answered.                 *)
MemoryMatchesLog ==
    phase = "running" =>
        \A c \in Collections, k \in Keys :
            InFlight(c, k) \/ LogSays(c, k, Len(wal), Live(c, k))

(* During recovery the memory is the replay of the records read so far.    *)
ReplayMatchesLog ==
    phase = "recovering" =>
        \A c \in Collections, k \in Keys : LogSays(c, k, cursor - 1, Live(c, k))

(* No put record stands in the log before the record that creates its      *)
(* collection, so that replaying the log from the start never meets a      *)
(* document of an unknown collection.                                      *)
CreatedBeforeUse ==
    \A i \in DOMAIN wal : wal[i].op.type = "PUT" =>
        \E j \in 1..(i - 1) :
            wal[j].op = CollectionOp("CREATE_COLLECTION", wal[i].op.coll)

(* A restart succeeds: no exception leaves recover() and with it main.     *)
RecoverySucceeds == phase # "failed"

(* The only ways a restart can fail: the log holds a document of a         *)
(* collection it does not create before, or the collection's directory     *)
(* holds saved indexes.                                                    *)
FailureExplained ==
    phase = "failed" =>
        /\ Recoverable(cursor) /\ wal[cursor].op.type = "PUT"
        /\ LET c == wal[cursor].op.coll IN
           \/ c \in indexFiles
           \/ \A i \in 1..(cursor - 1) : wal[i].op # CollectionOp("CREATE_COLLECTION", c)

(* A commit works on the operations its transaction had when the commit    *)
(* took the mutex: the transaction stays in the table, and what is left to *)
(* do is a suffix of its operation list, which nobody extends meanwhile.   *)
CommitSeesFixedOperations ==
    \A t \in Threads : committing[t] # NoTxn =>
        LET all == ops[committing[t]] IN
        /\ committing[t] \in active
        /\ todo[t] # <<>> /\ Len(todo[t]) <= Len(all)
        /\ todo[t] = SubSeq(all, Len(all) - Len(todo[t]) + 1, Len(all))

(* A deleted collection is gone for good: once its deletion was answered   *)
(* it is back only if a client creates it again                            *)
(* (tissdb_api_guide.md, "Permanently deletes a collection and all         *)
(* documents within it").                                                  *)
DeletedStaysDeleted ==
    \A c \in Collections :
        LET changes == {i \in DOMAIN wal : wal[i].op.coll = c /\ wal[i].op.key = Nothing}
            last == CHOOSE i \in changes : \A j \in changes : j <= i
        IN  (/\ phase = "running" /\ changes # {}
             /\ wal[last].op.type = "DELETE_COLLECTION"
             /\ \A t \in Threads : pc[t] = "idle")
            => ~Exists(c)

(* Every request is answered, or the process ends.                         *)
RequestsEnd == \A t \in Threads : pc[t] # "idle" ~> pc[t] = "idle"

(* A process that went down serves again.                                  *)
Restarts == phase = "down" ~> phase = "running"

-----------------------------------------------------------------------------
(* The engine implements the durable store.  While the process runs, the   *)
(* store is the memory; while it is down or recovering, it is what the log *)
(* says, and the two must agree whenever one replaces the other.           *)

Down == phase \in {"down", "recovering", "failed"}

LogValue(c, k) == CHOOSE v \in Docs \cup {Nothing} : LogSays(c, k, Len(wal), v)

DurableMode ==
    CASE phase = "running" -> "serving"
      [] phase = "stopped" -> "closing"
      [] OTHER -> "down"
DurableExists == {c \in Collections : IF Down THEN LogCreates(c) \/ c \in dirs ELSE Exists(c)}
DurableContents ==
    [c \in Collections |-> [k \in Keys |-> IF Down THEN LogValue(c, k) ELSE Live(c, k)]]

Durable == INSTANCE DurableStore WITH
    mode <- DurableMode, exists <- DurableExists, store <- DurableContents,
    pending <- todo, batch <- [t \in Threads |-> committing[t] # NoTxn]

(* Every answered write survives crashes and restarts, and reads return it *)
(* (wal.h:40, README.md:9 of tissdb).                                      *)
ImplementsDurableStore == Durable!Spec

-----------------------------------------------------------------------------
(* Transactions against the ACID store.  A write counts from the moment it *)
(* is logged, a whole commit from the moment its first operation is; a     *)
(* commit that is bound to fail must not count at all.                     *)

Doomed(t) ==
    \E i \in DOMAIN todo[t] : todo[t][i].type = "PUT" /\ ~AcceptsDocs(todo[t][i].coll)

Begun(t) ==
    /\ committing[t] # NoTxn /\ ~Doomed(t)
    /\ pc[t] = "apply" \/ Len(todo[t]) < Len(ops[committing[t]])

Open == active \ {committing[t] : t \in {u \in Threads : Begun(u)}}

(* What thread t is bound to carry out. *)
Bound(t) ==
    CASE Begun(t) -> todo[t]
      [] committing[t] = NoTxn /\ pc[t] = "apply" /\ ~Doomed(t) -> <<CurrentOp(t)>>
      [] OTHER -> <<>>

BoundToCreate(c) ==
    \E t \in Threads :
        Bound(t) # <<>> /\ Head(Bound(t)) = CollectionOp("CREATE_COLLECTION", c)

(* The document on key k once every thread has done what it is bound to:   *)
(* meant for one thread at work at a time.                                 *)
Outcome(c, k) ==
    LET busy == {t \in Threads : Bound(t) # <<>>} IN
    IF busy = {} \/ ~AcceptsDocs(c) THEN Live(c, k)
    ELSE LatestIn(Bound(CHOOSE t \in busy : TRUE), c, k, Live(c, k))

AcidExists ==
    {c \in Collections : IF Down THEN LogCreates(c) \/ c \in dirs
                         ELSE Exists(c) \/ BoundToCreate(c)}
AcidContents ==
    [c \in Collections |-> [k \in Keys |-> IF Down THEN LogValue(c, k) ELSE Outcome(c, k)]]
AcidBuffer == [i \in Tids |-> IF i \in Open THEN ops[i] ELSE <<>>]
AcidRequest ==
    [t \in Threads |-> IF pc[t] = "idle" THEN "none"
                       ELSE IF committing[t] = NoTxn THEN "write" ELSE "commit"]

Acid == INSTANCE AcidStore WITH
    exists <- AcidExists, store <- AcidContents,
    active <- Open, buffer <- AcidBuffer, request <- AcidRequest

(* A commit is all or nothing, whatever happens during it                  *)
(* (tissdb_api_guide.md:111,120,125).                                      *)
ImplementsAcidStore == Acid!Spec
=============================================================================
