------------------------------ MODULE LSMTree ------------------------------
(***************************************************************************)
(* The storage engine of one TissDB database: the write-ahead log, the     *)
(* collections held in memory, the transaction manager, the request        *)
(* threads of the HTTP server that drive them without a common lock, and   *)
(* the recovery that rebuilds the memory from the log after a restart.     *)
(* Sources: src/tissdb/storage/{lsm_tree,wal,collection,transaction_manager}.cpp *)
(***************************************************************************)
EXTENDS Integers, Sequences, FiniteSets

CONSTANTS
    Collections,    \* collection names
    Keys,           \* document ids
    Docs,           \* document contents
    Threads,        \* request threads of the HTTP server
    Nothing,        \* no entry: std::nullopt, or an empty field of a log record
    Tombstone,      \* the nullptr that a deletion leaves in Collection::data
    NoTxn           \* the transaction id -1

CONSTANTS
    KeysOf,         \* KeysOf[t]: the keys whose writes thread t's client asks for
    Admins,         \* threads whose client creates, deletes or indexes collections
    Requests,       \* kinds of request the clients make
    StrayWrites,    \* do clients write to collections that do not exist?
    TornWrites,     \* may a crash leave a half-written record in the log?
    RacyAppends     \* may two unsynchronised appends garble each other?

CONSTANTS           \* bounds of the model
    MaxWal,         \* no request is accepted once the log has MaxWal records
    MaxCrashes,     \* crashes and shutdowns
    MaxTid,         \* transaction ids per run of the process
    MaxOps          \* operations buffered in one transaction

RequestKinds == {"put", "del", "create", "drop", "index", "txn", "shutdown"}

ASSUME ValuesAssumption ==
    /\ Nothing \notin Docs \cup Keys \cup {Tombstone}
    /\ Tombstone \notin Docs
    /\ NoTxn \notin Nat
ASSUME ClientsAssumption ==
    /\ KeysOf \in [Threads -> SUBSET Keys]
    /\ Admins \subseteq Threads
    /\ Requests \subseteq RequestKinds
    /\ StrayWrites \in BOOLEAN /\ TornWrites \in BOOLEAN /\ RacyAppends \in BOOLEAN
ASSUME BoundsAssumption ==
    MaxWal \in Nat /\ MaxCrashes \in Nat /\ MaxTid \in Nat /\ MaxOps \in Nat

VARIABLES
    wal,            \* the log file: records in the order they were appended
    dirs,           \* collection directories on disk
    indexFiles,     \* directories holding an indexes.meta with at least one index
    phase,          \* state of the server process
    cursor,         \* recovery: next log record to replay
    crashes,        \* crashes so far
    collections,    \* collections_: state of each collection object in memory
    data,           \* Collection::data of each collection
    nextTid,        \* next_transaction_id_
    active,         \* transactions in transactions_ (all of them ACTIVE)
    ops,            \* operations_ of each transaction
    pc,             \* what each request thread does next
    todo,           \* the operations its request has still to carry out
    committing,     \* the transaction it commits; it then holds mutex_
    answer          \* the last answer to a read, or to a write no transaction buffers

disk == <<wal, dirs, indexFiles>>
txns == <<nextTid, active, ops>>
store == <<collections, data>>
server == <<phase, cursor, crashes>>
threads == <<pc, todo, committing, answer>>
vars == <<disk, server, store, txns, threads>>

Tids == 1..MaxTid
Values == Docs \cup {Nothing, Tombstone}
Empty == [k \in Keys |-> Nothing]

DocOps ==
    [type : {"PUT"}, coll : Collections, key : Keys, doc : Docs] \cup
    [type : {"DELETE"}, coll : Collections, key : Keys, doc : {Nothing}]
Ops == DocOps \cup
    [type : {"CREATE_COLLECTION", "DELETE_COLLECTION"}, coll : Collections,
     key : {Nothing}, doc : {Nothing}]

PutOp(c, k, d) == [type |-> "PUT", coll |-> c, key |-> k, doc |-> d]
DeleteOp(c, k) == [type |-> "DELETE", coll |-> c, key |-> k, doc |-> Nothing]
CollectionOp(type, c) == [type |-> type, coll |-> c, key |-> Nothing, doc |-> Nothing]

(* A record of the log file.  It is readable when its length and its       *)
(* checksum fit its contents.                                              *)
Records == [op : Ops, readable : BOOLEAN]

(* "reloaded": the collection's indexes came from disk.  load_indexes does *)
(* not restore index_types_, so index_types_.at throws std::out_of_range   *)
(* on every write of a document.                                           *)
CollectionStates == {"none", "plain", "indexed", "reloaded"}

Exists(c) == collections[c] # "none"
AcceptsDocs(c) == collections[c] \in {"plain", "indexed"}

(* Collection::get as its callers read it: a tombstone is no document.     *)
Live(c, k) == IF data[c][k] \in Docs THEN data[c][k] ELSE Nothing

TypeOK ==
    /\ wal \in Seq(Records)
    /\ dirs \subseteq Collections
    /\ indexFiles \subseteq Collections
    /\ phase \in {"recovering", "running", "stopped", "down", "failed"}
    /\ cursor \in Nat \ {0}
    /\ crashes \in Nat
    /\ collections \in [Collections -> CollectionStates]
    /\ data \in [Collections -> [Keys -> Values]]
    /\ nextTid \in Nat \ {0}
    /\ active \subseteq Tids
    /\ ops \in [Tids -> Seq(DocOps)]
    /\ pc \in [Threads -> {"idle", "log", "apply", "rmdir"}]
    /\ todo \in [Threads -> Seq(Ops)]
    /\ committing \in [Threads -> Tids \cup {NoTxn}]
    /\ answer \in [Threads -> Docs \cup {"none", "ok", "error", "absent"}]

Init ==
    /\ wal = <<>> /\ dirs = {} /\ indexFiles = {}
    /\ phase = "recovering" /\ cursor = 1 /\ crashes = 0
    /\ collections = [c \in Collections |-> "none"]
    /\ data = [c \in Collections |-> Empty]
    /\ nextTid = 1 /\ active = {} /\ ops = [i \in Tids |-> <<>>]
    /\ pc = [t \in Threads |-> "idle"]
    /\ todo = [t \in Threads |-> <<>>]
    /\ committing = [t \in Threads |-> NoTxn]
    /\ answer = [t \in Threads |-> "none"]

-----------------------------------------------------------------------------
(* Requests.  A handler thread turns a request into the operations it has  *)
(* to log and apply; the checks it makes first are the guards here.        *)

Ready(t, kind) == phase = "running" /\ pc[t] = "idle" /\ kind \in Requests

Accept(t, kind, todoSeq) ==
    /\ Ready(t, kind)
    /\ Len(wal) < MaxWal
    /\ pc' = [pc EXCEPT ![t] = "log"]
    /\ todo' = [todo EXCEPT ![t] = todoSeq]
    /\ answer' = [answer EXCEPT ![t] = "none"]
    /\ UNCHANGED <<disk, server, store, txns>>

MayWrite(t, c, k) == k \in KeysOf[t] /\ (StrayWrites \/ Exists(c))

(* Faulty variant of Put: the document goes to memory without a record. *)
PutUnlogged(t, c, k, d) ==
    /\ MayWrite(t, c, k) /\ Ready(t, "put") /\ Len(wal) < MaxWal
    /\ pc' = [pc EXCEPT ![t] = "apply"]
    /\ todo' = [todo EXCEPT ![t] = <<PutOp(c, k, d)>>]
    /\ answer' = [answer EXCEPT ![t] = "none"]
    /\ UNCHANGED <<disk, server, store, txns, committing>>

Put(t, c, k, d) ==
    /\ MayWrite(t, c, k)
    /\ Accept(t, "put", <<PutOp(c, k, d)>>)
    /\ UNCHANGED committing

Delete(t, c, k) ==
    /\ MayWrite(t, c, k)
    /\ Accept(t, "del", <<DeleteOp(c, k)>>)
    /\ UNCHANGED committing

CreateCollection(t, c) ==
    /\ t \in Admins /\ ~Exists(c)
    /\ Accept(t, "create", <<CollectionOp("CREATE_COLLECTION", c)>>)
    /\ UNCHANGED committing

DeleteCollection(t, c) ==
    /\ t \in Admins /\ Exists(c)
    /\ Accept(t, "drop", <<CollectionOp("DELETE_COLLECTION", c)>>)
    /\ UNCHANGED committing

(* Faulty variant of Get: the tombstone is returned as if it were a document. *)
GetRaw(t, c, k) ==
    /\ phase = "running" /\ pc[t] = "idle"
    /\ answer' = [answer EXCEPT ![t] =
            IF Exists(c) /\ data[c][k] # Nothing THEN data[c][k] ELSE "absent"]
    /\ UNCHANGED <<disk, server, store, txns, pc, todo, committing>>

Get(t, c, k) ==
    /\ phase = "running" /\ pc[t] = "idle"
    /\ answer' = [answer EXCEPT ![t] =
            IF Exists(c) /\ Live(c, k) # Nothing THEN Live(c, k) ELSE "absent"]
    /\ UNCHANGED <<disk, server, store, txns, pc, todo, committing>>

(* create_index builds the index, bulk-loads the documents and saves it;   *)
(* nothing of it is logged.                                                *)
CreateIndex(t, c) ==
    /\ Ready(t, "index") /\ t \in Admins /\ Exists(c)
    /\ collections' = [collections EXCEPT ![c] = IF @ = "plain" THEN "indexed" ELSE @]
    /\ dirs' = dirs \cup {c}
    /\ indexFiles' = indexFiles \cup {c}
    /\ answer' = [answer EXCEPT ![t] = "ok"]
    /\ UNCHANGED <<wal, server, data, txns, pc, todo, committing>>

-----------------------------------------------------------------------------
(* The transaction manager.  Each of its methods takes mutex_; a thread in *)
(* commit_transaction keeps it until every operation has been carried out. *)

MutexFree == \A t \in Threads : committing[t] = NoTxn

BeginTransaction(t) ==
    /\ Ready(t, "txn") /\ MutexFree
    /\ nextTid \in Tids
    /\ nextTid' = nextTid + 1
    /\ active' = active \cup {nextTid}
    /\ ops' = [ops EXCEPT ![nextTid] = <<>>]
    /\ UNCHANGED <<disk, server, store, threads>>

(* Faulty variant of AddOperation: it does not take mutex_. *)
AddOperationUnlocked(t, tid, op) ==
    /\ Ready(t, "txn")
    /\ tid \in active /\ Len(ops[tid]) < MaxOps
    /\ MayWrite(t, op.coll, op.key)
    /\ ops' = [ops EXCEPT ![tid] = Append(@, op)]
    /\ UNCHANGED <<disk, server, store, nextTid, active, threads>>

AddOperation(t, tid, op) ==
    /\ Ready(t, "txn") /\ MutexFree
    /\ tid \in active /\ Len(ops[tid]) < MaxOps
    /\ MayWrite(t, op.coll, op.key)
    /\ ops' = [ops EXCEPT ![tid] = Append(@, op)]
    /\ UNCHANGED <<disk, server, store, nextTid, active, threads>>

(* LSMTree::get with a transaction id: the transaction's own latest        *)
(* operation on the key, if there is one, hides the collection.            *)
LatestIn(seq, c, k, old) ==
    LET own == {i \in DOMAIN seq : seq[i].coll = c /\ seq[i].key = k}
    IN  IF own = {} THEN old
        ELSE seq[CHOOSE i \in own : \A j \in own : j <= i].doc

TxnView(tid, c, k) ==
    LatestIn(ops[tid], c, k, IF Exists(c) THEN Live(c, k) ELSE Nothing)

TxnGet(t, tid, c, k) ==
    /\ Ready(t, "txn") /\ MutexFree /\ tid \in active
    /\ answer' = [answer EXCEPT ![t] =
            IF TxnView(tid, c, k) # Nothing THEN TxnView(tid, c, k) ELSE "absent"]
    /\ UNCHANGED <<disk, server, store, txns, pc, todo, committing>>

RollbackTransaction(t, tid) ==
    /\ Ready(t, "txn") /\ MutexFree /\ tid \in active
    /\ active' = active \ {tid}
    /\ ops' = [ops EXCEPT ![tid] = <<>>]
    /\ answer' = [answer EXCEPT ![t] = "ok"]
    /\ UNCHANGED <<disk, server, store, nextTid, pc, todo, committing>>

CommitEmpty(t, tid) ==
    /\ Ready(t, "txn") /\ MutexFree /\ tid \in active /\ ops[tid] = <<>>
    /\ active' = active \ {tid}
    /\ answer' = [answer EXCEPT ![t] = "ok"]
    /\ UNCHANGED <<disk, server, store, nextTid, ops, pc, todo, committing>>

(* Faulty variant of CommitTransaction: the last operation is carried out first. *)
CommitTransactionReversed(t, tid) ==
    LET n == Len(ops[tid]) IN
    /\ MutexFree /\ tid \in active /\ ops[tid] # <<>>
    /\ \A i \in DOMAIN ops[tid] : ops[tid][i].key \in KeysOf[t]
    /\ Accept(t, "txn", [i \in 1..n |-> ops[tid][n + 1 - i]])
    /\ committing' = [committing EXCEPT ![t] = tid]

CommitTransaction(t, tid) ==
    /\ MutexFree /\ tid \in active /\ ops[tid] # <<>>
    /\ \A i \in DOMAIN ops[tid] : ops[tid][i].key \in KeysOf[t]
    /\ Accept(t, "txn", ops[tid])
    /\ committing' = [committing EXCEPT ![t] = tid]

-----------------------------------------------------------------------------
(* Carrying out an operation: first append its record to the log, then     *)
(* apply it to the collections.                                            *)

CurrentOp(t) == Head(todo[t])

(* Faulty variant of Log: it waits for mutex_, which a commit already holds. *)
LogLocked(t) ==
    /\ MutexFree
    /\ phase = "running" /\ pc[t] = "log"
    /\ wal' = Append(wal, [op |-> CurrentOp(t), readable |-> TRUE])
    /\ pc' = [pc EXCEPT ![t] = "apply"]
    /\ UNCHANGED <<dirs, indexFiles, server, store, txns, todo, committing, answer>>

Log(t) ==
    /\ phase = "running" /\ pc[t] = "log"
    /\ wal' = Append(wal, [op |-> CurrentOp(t), readable |-> TRUE])
    /\ pc' = [pc EXCEPT ![t] = "apply"]
    /\ UNCHANGED <<dirs, indexFiles, server, store, txns, todo, committing, answer>>

(* log_file is shared and append takes no lock: two appends at the same    *)
(* time interleave their bytes, and neither checksum fits.                 *)
LogGarbled(t, u) ==
    /\ RacyAppends /\ t # u
    /\ phase = "running" /\ pc[t] = "log" /\ pc[u] = "log"
    /\ wal' = wal \o << [op |-> CurrentOp(t), readable |-> FALSE],
                        [op |-> CurrentOp(u), readable |-> FALSE] >>
    /\ pc' = [pc EXCEPT ![t] = "apply", ![u] = "apply"]
    /\ UNCHANGED <<dirs, indexFiles, server, store, txns, todo, committing, answer>>

(* An exception leaves the request: the mutex is released, a transaction   *)
(* stays ACTIVE with all its operations, and the client is told.           *)
Fail(t) ==
    /\ pc' = [pc EXCEPT ![t] = "idle"]
    /\ todo' = [todo EXCEPT ![t] = <<>>]
    /\ committing' = [committing EXCEPT ![t] = NoTxn]
    /\ answer' = [answer EXCEPT ![t] = "error"]
    /\ UNCHANGED txns

(* append throws when shutdown has closed the log file. *)
LogClosed(t) ==
    /\ phase = "stopped" /\ pc[t] = "log"
    /\ Fail(t)
    /\ UNCHANGED <<disk, server, store>>

(* The operation is done.  After the last one a commit erases its          *)
(* transaction and releases the mutex.                                     *)
Advance(t, result) ==
    LET rest == Tail(todo[t]) IN
    /\ todo' = [todo EXCEPT ![t] = rest]
    /\ IF rest # <<>>
       THEN /\ pc' = [pc EXCEPT ![t] = "log"]
            /\ UNCHANGED <<txns, committing, answer>>
       ELSE /\ pc' = [pc EXCEPT ![t] = "idle"]
            /\ active' = active \ {committing[t]}
            /\ committing' = [committing EXCEPT ![t] = NoTxn]
            /\ answer' = [answer EXCEPT ![t] =
                    IF committing[t] # NoTxn THEN "ok" ELSE result]
            /\ UNCHANGED <<nextTid, ops>>

Alive == phase \in {"running", "stopped"}
Applying(t, type) == Alive /\ pc[t] = "apply" /\ CurrentOp(t).type = type

ApplyPut(t) ==
    LET op == CurrentOp(t) IN
    /\ Applying(t, "PUT") /\ AcceptsDocs(op.coll)
    /\ data' = [data EXCEPT ![op.coll][op.key] = op.doc]
    /\ Advance(t, "ok")
    /\ UNCHANGED <<disk, server, collections>>

(* get_collection throws, or the collection's reloaded indexes do: the     *)
(* record is in the log, the document is not in memory.                    *)
ApplyPutFails(t) ==
    /\ Applying(t, "PUT") /\ ~AcceptsDocs(CurrentOp(t).coll)
    /\ Fail(t)
    /\ UNCHANGED <<disk, server, store>>

ApplyDelete(t) ==
    LET op == CurrentOp(t) IN
    /\ Applying(t, "DELETE")
    /\ IF Exists(op.coll) /\ Live(op.coll, op.key) # Nothing
       THEN /\ data' = [data EXCEPT ![op.coll][op.key] = Tombstone]
            /\ Advance(t, "ok")
       ELSE /\ UNCHANGED data
            /\ Advance(t, "absent")
    /\ UNCHANGED <<disk, server, collections>>

(* A fresh collection object replaces whatever the name stood for; its     *)
(* constructor loads the indexes saved in the directory.                   *)
Fresh(c) == IF c \in indexFiles THEN "reloaded" ELSE "plain"

ApplyCreate(t) ==
    LET c == CurrentOp(t).coll IN
    /\ Applying(t, "CREATE_COLLECTION")
    /\ dirs' = dirs \cup {c}
    /\ collections' = [collections EXCEPT ![c] = Fresh(c)]
    /\ data' = [data EXCEPT ![c] = Empty]
    /\ Advance(t, "ok")
    /\ UNCHANGED <<wal, indexFiles, server>>

ApplyDrop(t) ==
    LET c == CurrentOp(t).coll IN
    /\ Applying(t, "DELETE_COLLECTION")
    /\ collections' = [collections EXCEPT ![c] = "none"]
    /\ data' = [data EXCEPT ![c] = Empty]
    /\ pc' = [pc EXCEPT ![t] = "rmdir"]
    /\ UNCHANGED <<disk, server, txns, todo, committing, answer>>

RemoveDirectory(t) ==
    LET c == CurrentOp(t).coll IN
    /\ Alive /\ pc[t] = "rmdir"
    /\ dirs' = dirs \ {c}
    /\ indexFiles' = indexFiles \ {c}
    /\ Advance(t, "ok")
    /\ UNCHANGED <<wal, server, store>>

-----------------------------------------------------------------------------
(* Shutdown, crash, restart and recovery.                                  *)

(* server.stop() does not wait for the request threads; shutdown() saves   *)
(* the indexes of every collection and closes the log.                     *)
Shutdown ==
    /\ phase = "running" /\ "shutdown" \in Requests /\ crashes < MaxCrashes
    /\ phase' = "stopped"
    /\ dirs' = dirs \cup {c \in Collections : Exists(c)}
    /\ indexFiles' = indexFiles \cup
            {c \in Collections : collections[c] \in {"indexed", "reloaded"}}
    /\ UNCHANGED <<wal, cursor, crashes, store, txns, threads>>

LoseMemory ==
    /\ phase' = "down" /\ cursor' = 1 /\ crashes' = crashes + 1
    /\ collections' = [c \in Collections |-> "none"]
    /\ data' = [c \in Collections |-> Empty]
    /\ nextTid' = 1 /\ active' = {} /\ ops' = [i \in Tids |-> <<>>]
    /\ pc' = [t \in Threads |-> "idle"]
    /\ todo' = [t \in Threads |-> <<>>]
    /\ committing' = [t \in Threads |-> NoTxn]
    /\ answer' = [t \in Threads |-> "none"]

(* The process ends: killed at any moment, or main returning after         *)
(* shutdown while request threads still run.                               *)
Crash ==
    /\ phase \in {"recovering", "running", "stopped"}
    /\ crashes < MaxCrashes
    /\ LoseMemory
    /\ UNCHANGED disk

(* The process is killed while a thread writes its record. *)
CrashInAppend(t) ==
    /\ TornWrites
    /\ phase = "running" /\ pc[t] = "log" /\ crashes < MaxCrashes
    /\ wal' = Append(wal, [op |-> CurrentOp(t), readable |-> FALSE])
    /\ LoseMemory
    /\ UNCHANGED <<dirs, indexFiles>>

Restart ==
    /\ phase = "down"
    /\ phase' = "recovering"
    /\ UNCHANGED <<disk, cursor, crashes, store, txns, threads>>

(* WriteAheadLog::recover stops at the first record it cannot read.        *)
Replaying(type) ==
    /\ phase = "recovering"
    /\ cursor \in DOMAIN wal
    /\ wal[cursor].readable
    /\ wal[cursor].op.type = type

(* Faulty variant of Replayed: the next read starts at the same record. *)
ReplayedAgain ==
    /\ cursor' = cursor
    /\ UNCHANGED <<disk, phase, crashes, txns, threads>>

Replayed ==
    /\ cursor' = cursor + 1
    /\ UNCHANGED <<disk, phase, crashes, txns, threads>>

(* Faulty variant of ReplayPut: the first document of a key wins. *)
ReplayPutOnce ==
    LET op == wal[cursor].op IN
    /\ Replaying("PUT") /\ AcceptsDocs(op.coll)
    /\ data' = [data EXCEPT ![op.coll][op.key] = IF @ = Nothing THEN op.doc ELSE @]
    /\ Replayed
    /\ UNCHANGED collections

ReplayPut ==
    LET op == wal[cursor].op IN
    /\ Replaying("PUT") /\ AcceptsDocs(op.coll)
    /\ data' = [data EXCEPT ![op.coll][op.key] = op.doc]
    /\ Replayed
    /\ UNCHANGED collections

(* The exception leaves recover(), the constructor, load_manifest and main. *)
ReplayPutFails ==
    /\ Replaying("PUT") /\ ~AcceptsDocs(wal[cursor].op.coll)
    /\ phase' = "failed"
    /\ UNCHANGED <<disk, cursor, crashes, store, txns, threads>>

(* Faulty variant of ReplayDelete: the record is passed over. *)
ReplayDeleteSkipped ==
    /\ Replaying("DELETE")
    /\ Replayed
    /\ UNCHANGED store

ReplayDelete ==
    LET op == wal[cursor].op IN
    /\ Replaying("DELETE")
    /\ data' = IF Exists(op.coll) /\ Live(op.coll, op.key) # Nothing
               THEN [data EXCEPT ![op.coll][op.key] = Tombstone] ELSE data
    /\ Replayed
    /\ UNCHANGED collections

(* Faulty variant of ReplayCreate: a directory on disk counts as loaded. *)
ReplayCreateTrustsDisk ==
    LET c == wal[cursor].op.coll IN
    /\ Replaying("CREATE_COLLECTION")
    /\ IF Exists(c) \/ c \in dirs
       THEN UNCHANGED <<dirs, collections>>
       ELSE /\ dirs' = dirs \cup {c}
            /\ collections' = [collections EXCEPT ![c] = Fresh(c)]
    /\ cursor' = cursor + 1
    /\ UNCHANGED <<wal, indexFiles, phase, crashes, data, txns, threads>>

ReplayCreate ==
    LET c == wal[cursor].op.coll IN
    /\ Replaying("CREATE_COLLECTION")
    /\ IF Exists(c)
       THEN UNCHANGED <<dirs, collections>>
       ELSE /\ dirs' = dirs \cup {c}
            /\ collections' = [collections EXCEPT ![c] = Fresh(c)]
    /\ cursor' = cursor + 1
    /\ UNCHANGED <<wal, indexFiles, phase, crashes, data, txns, threads>>

(* The switch in recover() has no case for this record type. *)
ReplayDrop ==
    /\ Replaying("DELETE_COLLECTION")
    /\ Replayed
    /\ UNCHANGED store

(* Faulty variant of FinishRecovery: load_collections also replaces the    *)
(* collections that the replay has already made.                           *)
FinishRecoveryReloads ==
    /\ phase = "recovering"
    /\ cursor \in DOMAIN wal => ~wal[cursor].readable
    /\ phase' = "running"
    /\ collections' = [c \in Collections |-> IF c \in dirs THEN Fresh(c) ELSE collections[c]]
    /\ data' = [c \in Collections |-> IF c \in dirs THEN Empty ELSE data[c]]
    /\ UNCHANGED <<disk, cursor, crashes, txns, threads>>

(* The readable part of the log is replayed; load_collections adds an      *)
(* empty collection for every other directory, and the server starts.      *)
FinishRecovery ==
    /\ phase = "recovering"
    /\ cursor \in DOMAIN wal => ~wal[cursor].readable
    /\ phase' = "running"
    /\ collections' = [c \in Collections |->
            IF c \in dirs /\ ~Exists(c) THEN Fresh(c) ELSE collections[c]]
    /\ UNCHANGED <<disk, cursor, crashes, data, txns, threads>>

-----------------------------------------------------------------------------
Recover == \/ ReplayPut \/ ReplayPutFails \/ ReplayDelete
           \/ ReplayCreate \/ ReplayDrop \/ FinishRecovery

Work(t) ==
    \/ Log(t) \/ LogClosed(t)
    \/ ApplyPut(t) \/ ApplyPutFails(t) \/ ApplyDelete(t)
    \/ ApplyCreate(t) \/ ApplyDrop(t) \/ RemoveDirectory(t)

Request(t) ==
    \/ \E c \in Collections :
        \/ CreateCollection(t, c) \/ DeleteCollection(t, c) \/ CreateIndex(t, c)
        \/ \E k \in Keys :
            \/ \E d \in Docs : Put(t, c, k, d)
            \/ Delete(t, c, k) \/ Get(t, c, k)
    \/ BeginTransaction(t)
    \/ \E tid \in Tids :
        \/ RollbackTransaction(t, tid) \/ CommitEmpty(t, tid) \/ CommitTransaction(t, tid)
        \/ \E c \in Collections, k \in Keys :
            \/ \E d \in Docs : AddOperation(t, tid, PutOp(c, k, d))
            \/ AddOperation(t, tid, DeleteOp(c, k))
            \/ TxnGet(t, tid, c, k)

Next ==
    \/ \E t \in Threads : Request(t) \/ Work(t) \/ CrashInAppend(t)
    \/ \E t, u \in Threads : LogGarbled(t, u)
    \/ Shutdown \/ Crash \/ Restart \/ Recover

(* Handlers run on threads of their own and wait for nothing but mutex_;   *)
(* main recovers before it serves.  That an operator restarts the process  *)
(* is an assumption.                                                       *)
Fairness ==
    /\ \A t \in Threads : WF_vars(Work(t))
    /\ WF_vars(Recover)
    /\ WF_vars(Restart)

Spec == Init /\ [][Next]_vars /\ Fairness
=============================================================================
