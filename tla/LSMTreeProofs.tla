--------------------------- MODULE LSMTreeProofs ---------------------------
(***************************************************************************)
(* Theorems about the storage engine, for any number of collections, keys, *)
(* documents, threads, crashes and log records.                            *)
(***************************************************************************)
EXTENDS LSMTreeProperties, SequenceTheorems, WellFoundedInduction, TLAPS

(* The definitions that every step of the proofs expands. *)
USE DEF vars, disk, txns, store, server, threads

-----------------------------------------------------------------------------
(* A thread that is not idle has an operation to work on. *)
BusyHasWork == \A t \in Threads : pc[t] # "idle" => todo[t] # <<>>

TypeInv == TypeOK /\ BusyHasWork

(* Splitting a non-empty sequence keeps its parts in the sequence's set. *)
LEMMA HeadTail ==
    ASSUME NEW S, NEW s \in Seq(S), s # <<>>
    PROVE  Head(s) \in S /\ Tail(s) \in Seq(S)
BY HeadTailProperties

(* A list of one element. *)
LEMMA SingletonSeq == ASSUME NEW S, NEW e \in S PROVE <<e>> \in Seq(S) /\ <<e>> # <<>>
OBVIOUS

(* What a transaction buffers is what the log accepts. *)
LEMMA DocOpsAreOps == Seq(DocOps) \subseteq Seq(Ops)
BY DEF Ops

(* The type invariant holds at the start. *)
LEMMA TypeInit == Init => TypeInv
BY DEF Init, TypeInv, TypeOK, BusyHasWork, Values, Empty, CollectionStates, Tids

(* Accepting a request, failing one and finishing an operation keep it. *)
LEMMA TypeAccept ==
    ASSUME TypeInv, NEW t \in Threads, NEW kind, NEW work \in Seq(Ops), work # <<>>,
           Accept(t, kind, work), committing' \in [Threads -> Tids \cup {NoTxn}]
    PROVE  TypeInv'
BY DEF TypeInv, TypeOK, BusyHasWork, Accept, Ready

LEMMA TypeFail ==
    ASSUME TypeInv, NEW t \in Threads, Fail(t), UNCHANGED <<disk, server, store>>
    PROVE  TypeInv'
BY DEF TypeInv, TypeOK, BusyHasWork, Fail

LEMMA TypeAdvance ==
    ASSUME TypeInv, NEW t \in Threads, pc[t] # "idle", NEW result \in {"ok", "absent"},
           Advance(t, result)
    PROVE  /\ nextTid' \in Nat \ {0} /\ active' \subseteq Tids
           /\ ops' \in [Tids -> Seq(DocOps)]
           /\ pc' \in [Threads -> {"idle", "log", "apply", "rmdir"}]
           /\ todo' \in [Threads -> Seq(Ops)]
           /\ committing' \in [Threads -> Tids \cup {NoTxn}]
           /\ answer' \in [Threads -> Docs \cup {"none", "ok", "error", "absent"}]
           /\ BusyHasWork'
<1>1. todo[t] # <<>> /\ todo[t] \in Seq(Ops)  BY DEF TypeInv, TypeOK, BusyHasWork
<1>2. Tail(todo[t]) \in Seq(Ops)  BY <1>1, HeadTail
<1>3. CASE Tail(todo[t]) # <<>>
    BY <1>2, <1>3 DEF Advance, TypeInv, TypeOK, BusyHasWork
<1>4. CASE Tail(todo[t]) = <<>>
    BY <1>2, <1>4 DEF Advance, TypeInv, TypeOK, BusyHasWork
<1> QED  BY <1>3, <1>4

(* A bounded, non-empty set of naturals has a greatest element. *)
LEMMA MaxExists ==
    ASSUME NEW S \in SUBSET Nat, S # {}, NEW n \in Nat, \A i \in S : i <= n
    PROVE  \E i \in S : \A j \in S : j <= i
<1> DEFINE T == {n - i : i \in S}
<1>1. T \subseteq Nat /\ T # {}
  <2>1. PICK i \in S : TRUE  OBVIOUS
  <2>2. n - i \in T  BY <2>1
  <2>3. \A j \in S : n - j \in Nat  OBVIOUS
  <2> QED  BY <2>2, <2>3
<1> DEFINE Less == {p \in Nat \X Nat : p[1] < p[2]}
<1>2. IsWellFoundedOn(Less, Nat)  BY NatLessThanWellFounded, Zenon DEF OpToRel
<1> HIDE DEF T
<1>3. PICK x \in T : \A y \in T : ~(<<y, x>> \in Less)
  <2> HIDE DEF Less
  <2> QED  BY <1>1, <1>2, WFMin
<1>4. \A y \in T : ~(y < x)  BY <1>1, <1>3
<1> USE DEF T
<1>5. PICK i \in S : x = n - i  OBVIOUS
<1>6. \A j \in S : ~(n - j < n - i)  BY <1>4, <1>5
<1> QED  BY <1>6

(* What a transaction reads is a document, or nothing. *)
LEMMA LatestInType ==
    ASSUME TypeInv, NEW tid \in Tids, NEW c \in Collections, NEW k \in Keys,
           NEW old \in Docs \cup {Nothing}
    PROVE  LatestIn(ops[tid], c, k, old) \in Docs \cup {Nothing}
<1> DEFINE seq == ops[tid]
           own == {i \in DOMAIN seq : seq[i].coll = c /\ seq[i].key = k}
<1>1. CASE own = {}  BY <1>1 DEF LatestIn
<1>2. CASE own # {}
  <2> DEFINE last == CHOOSE i \in own : \A j \in own : j <= i
  <2>1. seq \in Seq(DocOps) /\ DOMAIN seq = 1..Len(seq)  BY DEF TypeInv, TypeOK
  <2>2. own \subseteq Nat /\ (\A j \in own : j <= Len(seq))  BY <2>1
  <2>3. \E i \in own : \A j \in own : j <= i
    BY <1>2, <2>1, <2>2, MaxExists, LenProperties
  <2>4. last \in 1..Len(seq)  BY <2>1, <2>3
  <2>5. \A i \in 1..Len(seq) : seq[i] \in DocOps  BY <2>1
  <2>6. seq[last] \in DocOps
    <3> HIDE DEF last, seq
    <3> QED  BY <2>4, <2>5
  <2>7. seq[last].doc \in Docs \cup {Nothing}
    <3> HIDE DEF last, seq
    <3> QED  BY <2>6 DEF DocOps
  <2> QED  BY <2>7, <1>2, Zenon DEF LatestIn
<1> QED  BY <1>1, <1>2

(* Every request keeps the type invariant. *)
LEMMA TypeRequest ==
    ASSUME TypeInv, NEW t \in Threads, Request(t)
    PROVE  TypeInv'
<1> USE DEF TypeInv
<1>1. ASSUME NEW c \in Collections, CreateCollection(t, c)  PROVE TypeInv'
  <2>1. CollectionOp("CREATE_COLLECTION", c) \in Ops  BY DEF CollectionOp, Ops
  <2> QED  BY <1>1, <2>1, SingletonSeq, TypeAccept DEF CreateCollection, TypeOK
<1>2. ASSUME NEW c \in Collections, DeleteCollection(t, c)  PROVE TypeInv'
  <2>1. CollectionOp("DELETE_COLLECTION", c) \in Ops  BY DEF CollectionOp, Ops
  <2> QED  BY <1>2, <2>1, SingletonSeq, TypeAccept DEF DeleteCollection, TypeOK
<1>3. ASSUME NEW c \in Collections, CreateIndex(t, c)  PROVE TypeInv'
  BY <1>3 DEF CreateIndex, TypeOK, BusyHasWork, CollectionStates
<1>4. ASSUME NEW c \in Collections, NEW k \in Keys, NEW d \in Docs, Put(t, c, k, d)
      PROVE  TypeInv'
  <2>1. PutOp(c, k, d) \in Ops  BY DEF PutOp, Ops, DocOps
  <2> QED  BY <1>4, <2>1, SingletonSeq, TypeAccept DEF Put, TypeOK
<1>5. ASSUME NEW c \in Collections, NEW k \in Keys, Delete(t, c, k)  PROVE TypeInv'
  <2>1. DeleteOp(c, k) \in Ops  BY DEF DeleteOp, Ops, DocOps
  <2> QED  BY <1>5, <2>1, SingletonSeq, TypeAccept DEF Delete, TypeOK
<1>6. ASSUME NEW c \in Collections, NEW k \in Keys, Get(t, c, k)  PROVE TypeInv'
  BY <1>6 DEF Get, Live, TypeOK, BusyHasWork
<1>7. ASSUME BeginTransaction(t)  PROVE TypeInv'
  BY <1>7 DEF BeginTransaction, TypeOK, BusyHasWork, Tids
<1>8. ASSUME NEW tid \in Tids, RollbackTransaction(t, tid)  PROVE TypeInv'
  BY <1>8 DEF RollbackTransaction, TypeOK, BusyHasWork
<1>9. ASSUME NEW tid \in Tids, CommitEmpty(t, tid)  PROVE TypeInv'
  BY <1>9 DEF CommitEmpty, TypeOK, BusyHasWork
<1>10. ASSUME NEW tid \in Tids, CommitTransaction(t, tid)  PROVE TypeInv'
  <2>1. ops[tid] \in Seq(Ops)  BY DocOpsAreOps DEF TypeOK
  <2> QED  BY <1>10, <2>1, TypeAccept DEF CommitTransaction, TypeOK
<1>11. ASSUME NEW tid \in Tids, NEW op \in DocOps, AddOperation(t, tid, op)
       PROVE  TypeInv'
  BY <1>11 DEF AddOperation, TypeOK, BusyHasWork
<1>12. ASSUME NEW tid \in Tids, NEW c \in Collections, NEW k \in Keys, TxnGet(t, tid, c, k)
       PROVE  TypeInv'
  <2>1. (IF Exists(c) THEN Live(c, k) ELSE Nothing) \in Docs \cup {Nothing}  BY DEF Live
  <2>2. TxnView(tid, c, k) \in Docs \cup {Nothing}  BY <2>1, LatestInType DEF TxnView
  <2> QED  BY <1>12, <2>2 DEF TxnGet, TypeOK, BusyHasWork
<1>13. ASSUME NEW tid \in Tids, NEW c \in Collections, NEW k \in Keys, NEW d \in Docs,
              AddOperation(t, tid, PutOp(c, k, d))
       PROVE  TypeInv'
  <2>1. PutOp(c, k, d) \in DocOps  BY DEF PutOp, DocOps
  <2> QED  BY <1>11, <1>13, <2>1
<1>14. ASSUME NEW tid \in Tids, NEW c \in Collections, NEW k \in Keys,
              AddOperation(t, tid, DeleteOp(c, k))
       PROVE  TypeInv'
  <2>1. DeleteOp(c, k) \in DocOps  BY DEF DeleteOp, DocOps
  <2> QED  BY <1>11, <1>14, <2>1
<1> HIDE DEF TypeInv
<1> QED
  BY <1>1, <1>2, <1>3, <1>4, <1>5, <1>6, <1>7, <1>8, <1>9, <1>10, <1>12, <1>13, <1>14,
     Zenon DEF Request

(* What a busy thread works on, and the record it appends. *)
LEMMA CurrentOpType ==
    ASSUME TypeInv, NEW t \in Threads, pc[t] # "idle"
    PROVE  /\ CurrentOp(t) \in Ops
           /\ \A r \in BOOLEAN : [op |-> CurrentOp(t), readable |-> r] \in Records
<1>1. todo[t] # <<>> /\ todo[t] \in Seq(Ops)  BY DEF TypeInv, TypeOK, BusyHasWork
<1> QED  BY <1>1, HeadTail DEF CurrentOp, Records

(* The fields of an operation on a document. *)
LEMMA DocOpFields ==
    ASSUME NEW op \in Ops
    PROVE  /\ op.coll \in Collections
           /\ op.type = "PUT" => op.key \in Keys /\ op.doc \in Docs
           /\ op.type = "DELETE" => op.key \in Keys /\ op.doc = Nothing
BY DEF Ops, DocOps

(* Appending one record, or two, leaves the earlier ones where they are. *)
LEMMA AppendWal ==
    ASSUME TypeInv, NEW r \in Records
    PROVE  /\ Append(wal, r) \in Seq(Records)
           /\ Len(Append(wal, r)) = Len(wal) + 1
           /\ \A i \in 1..Len(wal) : Append(wal, r)[i] = wal[i]
           /\ Append(wal, r)[Len(wal) + 1] = r
BY DEF TypeInv, TypeOK

LEMMA AppendTwoWal ==
    ASSUME TypeInv, NEW r \in Records, NEW q \in Records
    PROVE  /\ wal \o <<r, q>> \in Seq(Records)
           /\ Len(wal \o <<r, q>>) = Len(wal) + 2
           /\ \A i \in 1..Len(wal) : (wal \o <<r, q>>)[i] = wal[i]
           /\ (wal \o <<r, q>>)[Len(wal) + 1] = r
           /\ (wal \o <<r, q>>)[Len(wal) + 2] = q
BY DEF TypeInv, TypeOK

(* Every step of a busy thread keeps the type invariant. *)
LEMMA TypeWork ==
    ASSUME TypeInv, NEW t \in Threads, Work(t)
    PROVE  TypeInv'
<1>1. CASE Log(t)
  <2>1. wal' \in Seq(Records)  BY <1>1, CurrentOpType, AppendWal DEF Log
  <2> QED  BY <1>1, <2>1 DEF Log, TypeInv, TypeOK, BusyHasWork
<1>2. CASE LogClosed(t)  BY <1>2, TypeFail DEF LogClosed
<1>3. CASE ApplyPut(t)
  <2>1. pc[t] # "idle" /\ CurrentOp(t).type = "PUT"  BY <1>3 DEF ApplyPut, Applying
  <2>2. CurrentOp(t).doc \in Values  BY <2>1, CurrentOpType, DocOpFields DEF Values
  <2>3. data' \in [Collections -> [Keys -> Values]]
    BY <1>3, <2>2 DEF ApplyPut, TypeInv, TypeOK
  <2> QED  BY <1>3, <2>1, <2>3, TypeAdvance DEF ApplyPut, TypeInv, TypeOK
<1>4. CASE ApplyPutFails(t)  BY <1>4, TypeFail DEF ApplyPutFails
<1>5. CASE ApplyDelete(t)
  <2>1. pc[t] # "idle"  BY <1>5 DEF ApplyDelete, Applying
  <2>2. data' \in [Collections -> [Keys -> Values]]
    <3>1. CASE data' = [data EXCEPT ![CurrentOp(t).coll][CurrentOp(t).key] = Tombstone]
      BY <3>1 DEF TypeInv, TypeOK, Values
    <3>2. CASE data' = data  BY <3>2 DEF TypeInv, TypeOK
    <3> QED  BY <1>5, <3>1, <3>2 DEF ApplyDelete
  <2>3. Advance(t, "ok") \/ Advance(t, "absent")  BY <1>5 DEF ApplyDelete
  <2> QED  BY <1>5, <2>1, <2>2, <2>3, TypeAdvance DEF ApplyDelete, TypeInv, TypeOK
<1>6. CASE ApplyCreate(t)
  <2>1. pc[t] # "idle"  BY <1>6 DEF ApplyCreate, Applying
  <2>2. CurrentOp(t).coll \in Collections  BY <2>1, CurrentOpType, DocOpFields
  <2>3. /\ dirs' \subseteq Collections
        /\ collections' \in [Collections -> CollectionStates]
        /\ data' \in [Collections -> [Keys -> Values]]
    BY <1>6, <2>2 DEF ApplyCreate, Fresh, Empty, Values, CollectionStates, TypeInv, TypeOK
  <2> QED  BY <1>6, <2>1, <2>3, TypeAdvance DEF ApplyCreate, TypeInv, TypeOK
<1>7. CASE ApplyDrop(t)
  BY <1>7 DEF ApplyDrop, Applying, Empty, Values, CollectionStates, TypeInv, TypeOK, BusyHasWork
<1>8. CASE RemoveDirectory(t)
  <2>1. pc[t] # "idle"  BY <1>8 DEF RemoveDirectory
  <2> QED  BY <1>8, <2>1, TypeAdvance DEF RemoveDirectory, TypeInv, TypeOK
<1> QED  BY <1>1, <1>2, <1>3, <1>4, <1>5, <1>6, <1>7, <1>8 DEF Work

(* So do two appends that garble each other, crashes and recovery. *)
LEMMA TypeLogGarbled ==
    ASSUME TypeInv, NEW t \in Threads, NEW u \in Threads, LogGarbled(t, u)
    PROVE  TypeInv'
<1>1. /\ [op |-> CurrentOp(t), readable |-> FALSE] \in Records
      /\ [op |-> CurrentOp(u), readable |-> FALSE] \in Records
  BY CurrentOpType DEF LogGarbled
<1>2. wal' \in Seq(Records)  BY <1>1 DEF LogGarbled, TypeInv, TypeOK
<1> QED  BY <1>2 DEF LogGarbled, TypeInv, TypeOK, BusyHasWork

LEMMA TypeCrash ==
    ASSUME TypeInv, LoseMemory, wal' \in Seq(Records), UNCHANGED <<dirs, indexFiles>>
    PROVE  TypeInv'
<1>1. /\ phase' \in {"recovering", "running", "stopped", "down", "failed"}
      /\ cursor' \in Nat \ {0} /\ crashes' \in Nat
  BY DEF LoseMemory, TypeInv, TypeOK
<1>2. /\ collections' \in [Collections -> CollectionStates]
      /\ data' \in [Collections -> [Keys -> Values]]
  BY DEF LoseMemory, Empty, Values, CollectionStates
<1>3. nextTid' \in Nat \ {0} /\ active' \subseteq Tids /\ ops' \in [Tids -> Seq(DocOps)]
  BY DEF LoseMemory
<1>4. /\ pc' \in [Threads -> {"idle", "log", "apply", "rmdir"}]
      /\ todo' \in [Threads -> Seq(Ops)]
      /\ committing' \in [Threads -> Tids \cup {NoTxn}]
      /\ answer' \in [Threads -> Docs \cup {"none", "ok", "error", "absent"}]
      /\ BusyHasWork'
  BY DEF LoseMemory, BusyHasWork
<1> QED  BY <1>1, <1>2, <1>3, <1>4 DEF TypeInv, TypeOK

(* The record that recovery reads. *)
LEMMA WalRecordType ==
    ASSUME TypeInv, NEW i \in DOMAIN wal
    PROVE  wal[i].op \in Ops /\ wal[i].readable \in BOOLEAN
<1>1. wal \in Seq(Records)  BY DEF TypeInv, TypeOK
<1>2. wal[i] \in Records  BY <1>1, ElementOfSeq, LenProperties
<1> QED  BY <1>2, Zenon DEF Records

LEMMA TypeRecover == ASSUME TypeInv, Recover PROVE TypeInv'
<1> USE DEF Replaying, Replayed
<1>1. CASE ReplayPut
  <2>1. wal[cursor].op \in Ops /\ wal[cursor].op.type = "PUT"
    BY <1>1, WalRecordType DEF ReplayPut
  <2>2. wal[cursor].op.doc \in Values  BY <2>1, DocOpFields DEF Values
  <2>3. data' \in [Collections -> [Keys -> Values]]
    BY <1>1, <2>2 DEF ReplayPut, TypeInv, TypeOK
  <2> QED  BY <1>1, <2>3 DEF ReplayPut, TypeInv, TypeOK, BusyHasWork
<1>2. CASE ReplayPutFails  BY <1>2 DEF ReplayPutFails, TypeInv, TypeOK, BusyHasWork
<1>3. CASE ReplayDelete
  <2> DEFINE op == wal[cursor].op
  <2>1. data' \in [Collections -> [Keys -> Values]]
    <3>1. CASE data' = [data EXCEPT ![op.coll][op.key] = Tombstone]
      BY <3>1 DEF TypeInv, TypeOK, Values
    <3>2. CASE data' = data  BY <3>2 DEF TypeInv, TypeOK
    <3> QED  BY <1>3, <3>1, <3>2 DEF ReplayDelete
  <2> QED  BY <1>3, <2>1 DEF ReplayDelete, TypeInv, TypeOK, BusyHasWork
<1>4. CASE ReplayCreate
  <2>1. wal[cursor].op.coll \in Collections
    BY <1>4, WalRecordType, DocOpFields DEF ReplayCreate
  <2> QED
    BY <1>4, <2>1 DEF ReplayCreate, Fresh, CollectionStates, TypeInv, TypeOK, BusyHasWork
<1>5. CASE ReplayDrop  BY <1>5 DEF ReplayDrop, TypeInv, TypeOK, BusyHasWork
<1>6. CASE FinishRecovery
  BY <1>6 DEF FinishRecovery, Fresh, CollectionStates, TypeInv, TypeOK, BusyHasWork
<1> QED  BY <1>1, <1>2, <1>3, <1>4, <1>5, <1>6 DEF Recover

(* All steps together. *)
LEMMA TypeNext == ASSUME TypeInv, [Next]_vars PROVE TypeInv'
<1>1. CASE \E t \in Threads : Request(t)  BY <1>1, TypeRequest
<1>2. CASE \E t \in Threads : Work(t)  BY <1>2, TypeWork
<1>3. CASE \E t \in Threads : CrashInAppend(t)
  <2>1. PICK t \in Threads : CrashInAppend(t)  BY <1>3
  <2>2. wal' \in Seq(Records)  BY <2>1, CurrentOpType, AppendWal DEF CrashInAppend
  <2> QED  BY <2>1, <2>2, TypeCrash DEF CrashInAppend
<1>4. CASE \E t, u \in Threads : LogGarbled(t, u)  BY <1>4, TypeLogGarbled
<1>5. CASE Shutdown  BY <1>5 DEF Shutdown, TypeInv, TypeOK, BusyHasWork
<1>6. CASE Crash  BY <1>6, TypeCrash DEF Crash, TypeInv, TypeOK
<1>7. CASE Restart  BY <1>7 DEF Restart, TypeInv, TypeOK, BusyHasWork
<1>8. CASE Recover  BY <1>8, TypeRecover
<1>9. CASE UNCHANGED vars  BY <1>9 DEF TypeInv, TypeOK, BusyHasWork
<1> QED  BY <1>1, <1>2, <1>3, <1>4, <1>5, <1>6, <1>7, <1>8, <1>9 DEF Next

(* Every variable keeps its type, and no thread that is at work has run    *)
(* out of operations, for every choice of the constants.                   *)
THEOREM TypeInvariant == Spec => []TypeInv
<1>1. Init => TypeInv  BY TypeInit
<1>2. TypeInv /\ [Next]_vars => TypeInv'  BY TypeNext
<1> QED  BY <1>1, <1>2, PTL DEF Spec

(* The declared types of the engine's state hold in every reachable state, *)
(* for every choice of the constants.                                      *)
THEOREM TypeCorrect == Spec => []TypeOK
<1>1. TypeInv => TypeOK  BY DEF TypeInv
<1> QED  BY <1>1, TypeInvariant, PTL

-----------------------------------------------------------------------------
(* The log only grows, and a record once in it is never changed.           *)
LogGrows ==
    /\ Len(wal') \in Nat /\ Len(wal) \in Nat /\ Len(wal) <= Len(wal')
    /\ \A i \in 1..Len(wal) : wal'[i] = wal[i]

(* No step rewrites or removes a record of the log. *)
LEMMA LogOnlyGrows == ASSUME TypeInv, [Next]_vars PROVE LogGrows
<1>1. wal \in Seq(Records) /\ Len(wal) \in Nat  BY DEF TypeInv, TypeOK
<1>2. CASE wal' = wal  BY <1>1, <1>2 DEF LogGrows
<1>3. ASSUME NEW r \in Records, wal' = Append(wal, r)  PROVE LogGrows
  BY <1>1, <1>3, AppendWal DEF LogGrows
<1>4. ASSUME NEW r \in Records, NEW s \in Records, wal' = wal \o <<r, s>>  PROVE LogGrows
  BY <1>1, <1>4 DEF LogGrows
<1>5. CASE \E t \in Threads : Request(t)
  <2>1. PICK t \in Threads : Request(t)  BY <1>5
  <2> QED  BY <1>2, <2>1 DEF Request, CreateCollection, DeleteCollection, CreateIndex, Put,
        Delete, Get, BeginTransaction, RollbackTransaction, CommitEmpty,
        CommitTransaction, AddOperation, TxnGet, Accept
<1>6. CASE \E t \in Threads : Work(t)
  <2>1. PICK t \in Threads : Work(t)  BY <1>6
  <2>2. CASE Log(t)  BY <1>3, <2>2, CurrentOpType DEF Log
  <2>3. CASE ~Log(t)
    BY <1>2, <2>1, <2>3 DEF Work, LogClosed, ApplyPut, ApplyPutFails, ApplyDelete,
       ApplyCreate, ApplyDrop, RemoveDirectory
  <2> QED  BY <2>2, <2>3
<1>7. CASE \E t \in Threads : CrashInAppend(t)
  BY <1>3, <1>7, CurrentOpType DEF CrashInAppend
<1>8. CASE \E t, u \in Threads : LogGarbled(t, u)
  <2>1. PICK t \in Threads, u \in Threads : LogGarbled(t, u)  BY <1>8
  <2> QED  BY <1>4, <2>1, CurrentOpType DEF LogGarbled
<1>9. CASE Shutdown \/ Crash \/ Restart  BY <1>2, <1>9 DEF Shutdown, Crash, Restart
<1>10. CASE Recover
  BY <1>2, <1>10 DEF Recover, ReplayPut, ReplayPutFails, ReplayDelete, ReplayCreate,
     ReplayDrop, FinishRecovery, Replayed
<1>11. CASE UNCHANGED vars  BY <1>2, <1>11
<1> QED  BY <1>5, <1>6, <1>7, <1>8, <1>9, <1>10, <1>11 DEF Next

(* So a record that was once written stays written. *)
LEMMA WrittenStays ==
    ASSUME TypeInv, TypeInv', LogGrows
    PROVE  \A op \in Ops : (\E i \in DOMAIN wal : wal[i].op = op)
                             => (\E i \in DOMAIN wal' : wal'[i].op = op)
<1>1. DOMAIN wal = 1..Len(wal) /\ DOMAIN wal' = 1..Len(wal')
  BY DEF TypeInv, TypeOK
<1> QED  BY <1>1 DEF LogGrows

-----------------------------------------------------------------------------
(* An operation that a thread applies is in the log. *)
LoggedFirst ==
    \A t \in Threads : pc[t] = "apply" => \E i \in DOMAIN wal : wal[i].op = CurrentOp(t)

WriteAheadInv == TypeInv /\ LoggedFirst /\ WriteAhead

(* An operation on a document is the PUT or the DELETE its fields name. *)
LEMMA DocOpShape ==
    ASSUME NEW op \in Ops
    PROVE  /\ op.type = "PUT" => op = PutOp(op.coll, op.key, op.doc)
           /\ op.type = "DELETE" => op = DeleteOp(op.coll, op.key)
BY DEF Ops, DocOps, PutOp, DeleteOp

(* A thread applies only what it has logged. *)
LEMMA LoggedFirstNext ==
    ASSUME TypeInv, TypeInv', LoggedFirst, [Next]_vars
    PROVE  LoggedFirst'
<1>1. LogGrows  BY LogOnlyGrows
<1>2. ASSUME NEW t \in Threads, pc'[t] = "apply" => pc[t] = "apply" /\ todo'[t] = todo[t],
             pc'[t] = "apply"
      PROVE  \E i \in DOMAIN wal' : wal'[i].op = CurrentOp(t)'
  <2>1. \E i \in DOMAIN wal : wal[i].op = CurrentOp(t)  BY <1>2 DEF LoggedFirst
  <2>2. CurrentOp(t) \in Ops  BY <1>2, CurrentOpType
  <2> QED  BY <1>1, <1>2, <2>1, <2>2, WrittenStays DEF CurrentOp
<1>3. ASSUME \A t \in Threads : pc'[t] = "apply" => pc[t] = "apply" /\ todo'[t] = todo[t]
      PROVE  LoggedFirst'
  BY <1>2, <1>3 DEF LoggedFirst
<1>4. CASE \E t \in Threads : Request(t)
  <2>1. PICK t \in Threads : Request(t)  BY <1>4
  <2>2. ASSUME NEW kind, NEW work, Accept(t, kind, work)  PROVE LoggedFirst'
    BY <1>3, <2>2 DEF Accept, Ready, TypeInv, TypeOK
  <2>3. CASE UNCHANGED <<pc, todo>>  BY <1>3, <2>3
  <2> QED
    BY <2>1, <2>2, <2>3, ZenonT(60) DEF Request, CreateCollection, DeleteCollection,
       CreateIndex, Put, Delete, Get, BeginTransaction, RollbackTransaction,
       CommitEmpty, CommitTransaction, AddOperation, TxnGet
<1>5. CASE \E t \in Threads : Work(t)
  <2>1. PICK t \in Threads : Work(t)  BY <1>5
  <2>2. CASE Log(t)
    <3>1. \E i \in DOMAIN wal' : wal'[i].op = CurrentOp(t)'
      BY <2>2, CurrentOpType, AppendWal DEF Log, CurrentOp
    <3>2. \A u \in Threads \ {t} : pc'[u] = pc[u] /\ todo'[u] = todo[u]
      BY <2>2 DEF Log, TypeInv, TypeOK
    <3> QED  BY <1>2, <3>1, <3>2 DEF LoggedFirst
  <2>3. CASE Fail(t)  BY <1>3, <2>3 DEF Fail, TypeInv, TypeOK
  <2>4. ASSUME NEW result, Advance(t, result)  PROVE LoggedFirst'
    BY <1>3, <2>4 DEF Advance, TypeInv, TypeOK
  <2>5. CASE ApplyDrop(t)  BY <1>3, <2>5 DEF ApplyDrop, TypeInv, TypeOK
  <2> QED  BY <2>1, <2>2, <2>3, <2>4, <2>5 DEF Work, LogClosed, ApplyPut, ApplyPutFails,
        ApplyDelete, ApplyCreate, RemoveDirectory
<1>6. CASE \E t, u \in Threads : LogGarbled(t, u)
  <2>1. PICK t \in Threads, u \in Threads : LogGarbled(t, u)  BY <1>6
  <2>2. /\ \E i \in DOMAIN wal' : wal'[i].op = CurrentOp(t)'
        /\ \E i \in DOMAIN wal' : wal'[i].op = CurrentOp(u)'
    <3>1. /\ [op |-> CurrentOp(t), readable |-> FALSE] \in Records
          /\ [op |-> CurrentOp(u), readable |-> FALSE] \in Records
      BY <2>1, CurrentOpType DEF LogGarbled
    <3>2. /\ wal'[Len(wal) + 1].op = CurrentOp(t) /\ wal'[Len(wal) + 2].op = CurrentOp(u)
          /\ Len(wal') = Len(wal) + 2 /\ Len(wal) \in Nat /\ DOMAIN wal' = 1..Len(wal')
      BY <2>1, <3>1 DEF LogGarbled, TypeInv, TypeOK
    <3>3. CurrentOp(t)' = CurrentOp(t) /\ CurrentOp(u)' = CurrentOp(u)
      BY <2>1 DEF LogGarbled, CurrentOp
    <3>4. Len(wal) + 1 \in DOMAIN wal' /\ Len(wal) + 2 \in DOMAIN wal'  BY <3>2
    <3> QED  BY <3>2, <3>3, <3>4
  <2>3. \A v \in Threads \ {t, u} : pc'[v] = pc[v] /\ todo'[v] = todo[v]
    BY <2>1 DEF LogGarbled, TypeInv, TypeOK
  <2> QED  BY <1>2, <2>2, <2>3 DEF LoggedFirst
<1>7. CASE LoseMemory  BY <1>3, <1>7 DEF LoseMemory
<1>8. CASE UNCHANGED threads  BY <1>3, <1>8
<1> QED
  BY <1>4, <1>5, <1>6, <1>7, <1>8 DEF Next, CrashInAppend, Crash, Shutdown, Restart, Recover,
     ReplayPut, ReplayPutFails, ReplayDelete, ReplayCreate, ReplayDrop, FinishRecovery,
     Replayed

(* Each step keeps what is in memory covered by the log. *)
LEMMA WriteAheadNext ==
    ASSUME WriteAheadInv, TypeInv', [Next]_vars
    PROVE  WriteAhead'
<1> USE DEF WriteAheadInv
<1>1. LogGrows  BY LogOnlyGrows
<1>2. ASSUME NEW c \in Collections, NEW k \in Keys, data'[c][k] = data[c][k]
      PROVE  /\ data'[c][k] \in Docs =>
                   \E i \in DOMAIN wal' : wal'[i].op = PutOp(c, k, data'[c][k])
             /\ data'[c][k] = Tombstone =>
                   \E i \in DOMAIN wal' : wal'[i].op = DeleteOp(c, k)
  <2>1. /\ data[c][k] \in Docs => PutOp(c, k, data[c][k]) \in Ops
        /\ DeleteOp(c, k) \in Ops
    BY DEF PutOp, DeleteOp, Ops, DocOps
  <2> QED  BY <1>1, <1>2, <2>1, WrittenStays DEF WriteAhead
<1>3. CASE data' = data  BY <1>2, <1>3 DEF WriteAhead
<1>4. ASSUME NEW d, data' = [data EXCEPT ![d] = Empty]  PROVE WriteAhead'
  <2>1. ASSUME NEW c \in Collections, NEW k \in Keys
        PROVE  data'[c][k] = data[c][k] \/ data'[c][k] = Nothing
    BY <1>4 DEF Empty, TypeInv, TypeOK
  <2> QED  BY <1>2, <2>1, ValuesAssumption DEF WriteAhead
<1>5. ASSUME NEW op \in Ops, op.type = "PUT", \E i \in DOMAIN wal' : wal'[i].op = op,
             data' = [data EXCEPT ![op.coll][op.key] = op.doc]
      PROVE  WriteAhead'
  <2>1. op = PutOp(op.coll, op.key, op.doc) /\ op.doc \in Docs
    BY <1>5, DocOpShape, DocOpFields
  <2>2. ASSUME NEW c \in Collections, NEW k \in Keys
        PROVE  \/ data'[c][k] = data[c][k]
               \/ data'[c][k] = op.doc /\ c = op.coll /\ k = op.key
    BY <1>5 DEF TypeInv, TypeOK
  <2> QED  BY <1>2, <1>5, <2>1, <2>2, ValuesAssumption DEF WriteAhead
<1>6. ASSUME NEW op \in Ops, op.type = "DELETE", \E i \in DOMAIN wal' : wal'[i].op = op,
             data' = [data EXCEPT ![op.coll][op.key] = Tombstone]
      PROVE  WriteAhead'
  <2>1. op = DeleteOp(op.coll, op.key)  BY <1>6, DocOpShape
  <2>2. ASSUME NEW c \in Collections, NEW k \in Keys
        PROVE  \/ data'[c][k] = data[c][k]
               \/ data'[c][k] = Tombstone /\ c = op.coll /\ k = op.key
    BY <1>6 DEF TypeInv, TypeOK
  <2> QED  BY <1>2, <1>6, <2>1, <2>2, ValuesAssumption DEF WriteAhead
<1>7. CASE \E t \in Threads : Work(t)
  <2>1. PICK t \in Threads : Work(t)  BY <1>7
  <2>2. ASSUME pc[t] = "apply", wal' = wal
        PROVE  CurrentOp(t) \in Ops /\ \E i \in DOMAIN wal' : wal'[i].op = CurrentOp(t)
    BY <2>2, CurrentOpType DEF LoggedFirst
  <2>3. CASE ApplyPut(t)  BY <1>5, <2>2, <2>3 DEF ApplyPut, Applying
  <2>4. CASE ApplyDelete(t)
    <3>1. CASE data' = data  BY <1>3, <3>1
    <3>2. CASE data' # data  BY <1>6, <2>2, <2>4, <3>2 DEF ApplyDelete, Applying
    <3> QED  BY <3>1, <3>2
  <2>5. CASE ApplyCreate(t)  BY <1>4, <2>5 DEF ApplyCreate
  <2>6. CASE ApplyDrop(t)  BY <1>4, <2>6 DEF ApplyDrop
  <2> QED
    BY <1>3, <2>1, <2>3, <2>4, <2>5, <2>6 DEF Work, Log, LogClosed, ApplyPutFails, RemoveDirectory
<1>8. CASE LoseMemory
  BY <1>8, ValuesAssumption DEF LoseMemory, Empty, WriteAhead
<1>9. CASE Recover
  <2>1. ASSUME cursor \in DOMAIN wal, wal' = wal
        PROVE  /\ wal[cursor].op \in Ops
               /\ \E i \in DOMAIN wal' : wal'[i].op = wal[cursor].op
    BY <2>1, WalRecordType
  <2>2. CASE ReplayPut  BY <1>5, <2>1, <2>2 DEF ReplayPut, Replaying, Replayed
  <2>3. CASE ReplayDelete
    <3>1. CASE data' = data  BY <1>3, <3>1
    <3>2. CASE data' # data  BY <1>6, <2>1, <2>3, <3>2 DEF ReplayDelete, Replaying, Replayed
    <3> QED  BY <3>1, <3>2
  <2> QED
    BY <1>3, <1>9, <2>2, <2>3 DEF Recover, ReplayPutFails, ReplayCreate, ReplayDrop,
       FinishRecovery
<1>10. CASE \E t \in Threads : Request(t)
  <2>1. PICK t \in Threads : Request(t)  BY <1>10
  <2>2. data' = data
    BY <2>1 DEF Request, CreateCollection, DeleteCollection, CreateIndex, Put, Delete, Get,
       BeginTransaction, RollbackTransaction, CommitEmpty, CommitTransaction,
       AddOperation, TxnGet, Accept
  <2> QED  BY <1>3, <2>2
<1>11. CASE (\E t, u \in Threads : LogGarbled(t, u)) \/ Shutdown \/ Restart \/ UNCHANGED vars
  BY <1>3, <1>11 DEF LogGarbled, Shutdown, Restart
<1> QED
  BY <1>7, <1>8, <1>9, <1>10, <1>11 DEF Next, CrashInAppend, Crash

(* The log comes first: whatever is in memory, at any moment and with any  *)
(* number of threads, garbled records, crashes and restarts, was handed to *)
(* the log before.                                                         *)
THEOREM WriteAheadHolds == Spec => []WriteAhead
<1>1. Init => WriteAheadInv
  BY TypeInit, ValuesAssumption DEF Init, WriteAheadInv, LoggedFirst, WriteAhead, Empty
<1>2. WriteAheadInv /\ [Next]_vars => WriteAheadInv'
  BY TypeNext, LoggedFirstNext, WriteAheadNext DEF WriteAheadInv
<1>3. WriteAheadInv => WriteAhead  BY DEF WriteAheadInv
<1> QED  BY <1>1, <1>2, <1>3, PTL DEF Spec

-----------------------------------------------------------------------------
(* Why a restart succeeds when no client writes to collections that do not *)
(* exist and none asks for an index.                                       *)

CreatedIn(log, c) == \E j \in DOMAIN log : log[j].op = CollectionOp("CREATE_COLLECTION", c)
Created(c) == CreatedIn(wal, c)

(* The collection of every document that a thread or a transaction still   *)
(* has to write has its creation in the log.                               *)
PendingCreated ==
    \A t \in Threads : \A i \in DOMAIN todo[t] :
        todo[t][i].type = "PUT" => Created(todo[t][i].coll)
BufferedCreated ==
    \A tid \in Tids : \A i \in DOMAIN ops[tid] :
        ops[tid][i].type = "PUT" => Created(ops[tid][i].coll)

(* So has every collection in memory or on disk. *)
PresentCreated == \A c \in Collections : Exists(c) \/ c \in dirs => Created(c)

NoIndexes == indexFiles = {} /\ \A c \in Collections : collections[c] \in {"none", "plain"}

(* Recovery has made every collection whose creation it has read. *)
ReplayedExist ==
    /\ phase = "down" => cursor = 1
    /\ phase = "recovering" =>
           \A j \in DOMAIN wal, c \in Collections :
               j < cursor /\ wal[j].op = CollectionOp("CREATE_COLLECTION", c) => Exists(c)

RecoveryInv ==
    /\ TypeInv /\ LoggedFirst
    /\ CreatedBeforeUse /\ PendingCreated /\ BufferedCreated /\ PresentCreated
    /\ NoIndexes /\ ReplayedExist /\ RecoverySucceeds

(* A collection the log creates stays created in it. *)
LEMMA CreatedStays ==
    ASSUME TypeInv, TypeInv', LogGrows, NEW c \in Collections, Created(c)
    PROVE  CreatedIn(wal', c)
<1>1. CollectionOp("CREATE_COLLECTION", c) \in Ops  BY DEF CollectionOp, Ops
<1> QED  BY <1>1, WrittenStays DEF Created, CreatedIn

(* A document's record is appended after the record of its collection. *)
LEMMA CreatedBeforeUseNext ==
    ASSUME RecoveryInv, TypeInv', [Next]_vars
    PROVE  CreatedBeforeUse'
<1> USE DEF RecoveryInv
<1>1. wal \in Seq(Records) /\ DOMAIN wal = 1..Len(wal) /\ Len(wal) \in Nat
  BY DEF TypeInv, TypeOK
<1>2. ASSUME NEW t \in Threads, pc[t] # "idle", CurrentOp(t).type = "PUT"
      PROVE  \E j \in 1..Len(wal) :
                 wal[j].op = CollectionOp("CREATE_COLLECTION", CurrentOp(t).coll)
  <2>1. todo[t] # <<>> /\ todo[t] \in Seq(Ops)  BY <1>2 DEF TypeInv, TypeOK, BusyHasWork
  <2>2. 1 \in DOMAIN todo[t] /\ CurrentOp(t) = todo[t][1]  BY <2>1 DEF CurrentOp
  <2> QED  BY <1>1, <1>2, <2>2 DEF PendingCreated, Created, CreatedIn
<1>3. CASE wal' = wal  BY <1>3 DEF CreatedBeforeUse
<1>4. ASSUME NEW t \in Threads, NEW r \in Records, pc[t] # "idle", r.op = CurrentOp(t),
             wal' = Append(wal, r)
      PROVE  CreatedBeforeUse'
  <2>1. /\ Len(wal') = Len(wal) + 1 /\ DOMAIN wal' = 1..(Len(wal) + 1)
        /\ \A i \in 1..Len(wal) : wal'[i] = wal[i]
        /\ wal'[Len(wal) + 1].op = CurrentOp(t)
    <3>1. Len(wal') = Len(wal) + 1  BY <1>4, AppendWal
    <3>2. \A i \in 1..Len(wal) : wal'[i] = wal[i]  BY <1>4, AppendWal
    <3>3. wal'[Len(wal) + 1] = r  BY <1>4, AppendWal
    <3>4. wal' \in Seq(Records)  BY DEF TypeInv, TypeOK
    <3>5. DOMAIN wal' = 1..(Len(wal) + 1)  BY <3>1, <3>4
    <3> QED  BY <1>4, <3>1, <3>2, <3>3, <3>5, Zenon
  <2>2. ASSUME NEW i \in DOMAIN wal', wal'[i].op.type = "PUT"
        PROVE  \E j \in 1..(i - 1) :
                   wal'[j].op = CollectionOp("CREATE_COLLECTION", wal'[i].op.coll)
    <3>1. CASE i \in 1..Len(wal)
      <4>1. PICK j \in 1..(i - 1) :
                wal[j].op = CollectionOp("CREATE_COLLECTION", wal[i].op.coll)
        BY <1>1, <2>1, <2>2, <3>1 DEF CreatedBeforeUse
      <4> QED  BY <1>1, <2>1, <3>1, <4>1
    <3>2. CASE i = Len(wal) + 1
      <4>1. PICK j \in 1..Len(wal) :
                wal[j].op = CollectionOp("CREATE_COLLECTION", CurrentOp(t).coll)
        BY <1>2, <1>4, <2>1, <2>2, <3>2
      <4> QED  BY <1>1, <2>1, <3>2, <4>1
    <3> QED  BY <1>1, <2>1, <2>2, <3>1, <3>2
  <2> QED  BY <2>2 DEF CreatedBeforeUse
<1>5. ASSUME NEW t \in Threads, NEW u \in Threads, NEW r \in Records, NEW q \in Records,
             pc[t] # "idle", pc[u] # "idle", r.op = CurrentOp(t), q.op = CurrentOp(u),
             wal' = wal \o <<r, q>>
      PROVE  CreatedBeforeUse'
  <2>4. /\ DOMAIN wal' = 1..(Len(wal) + 2)
        /\ \A i \in 1..Len(wal) : wal'[i] = wal[i]
        /\ wal'[Len(wal) + 1].op = CurrentOp(t)
        /\ wal'[Len(wal) + 2].op = CurrentOp(u)
    <3>1. Len(wal') = Len(wal) + 2  BY <1>5, AppendTwoWal
    <3>2. \A i \in 1..Len(wal) : wal'[i] = wal[i]  BY <1>5, AppendTwoWal
    <3>3. wal'[Len(wal) + 1] = r /\ wal'[Len(wal) + 2] = q  BY <1>5, AppendTwoWal
    <3>4. wal' \in Seq(Records)  BY DEF TypeInv, TypeOK
    <3>5. DOMAIN wal' = 1..(Len(wal) + 2)  BY <3>1, <3>4
    <3> QED  BY <1>5, <3>2, <3>3, <3>5, Zenon
  <2>5. ASSUME NEW i \in DOMAIN wal', wal'[i].op.type = "PUT"
        PROVE  \E j \in 1..(i - 1) :
                   wal'[j].op = CollectionOp("CREATE_COLLECTION", wal'[i].op.coll)
    <3>1. CASE i \in 1..Len(wal)
      <4>1. PICK j \in 1..(i - 1) :
                wal[j].op = CollectionOp("CREATE_COLLECTION", wal[i].op.coll)
        BY <1>1, <2>4, <2>5, <3>1 DEF CreatedBeforeUse
      <4> QED  BY <1>1, <2>4, <3>1, <4>1
    <3>2. ASSUME NEW v \in {t, u}, wal'[i].op = CurrentOp(v), i \in {Len(wal) + 1, Len(wal) + 2}
          PROVE  \E j \in 1..(i - 1) :
                     wal'[j].op = CollectionOp("CREATE_COLLECTION", wal'[i].op.coll)
      <4>1. PICK j \in 1..Len(wal) :
                wal[j].op = CollectionOp("CREATE_COLLECTION", CurrentOp(v).coll)
        BY <1>2, <1>5, <2>5, <3>2
      <4> QED  BY <1>1, <2>4, <3>2, <4>1
    <3> QED  BY <1>1, <2>4, <2>5, <3>1, <3>2
  <2> QED  BY <2>5 DEF CreatedBeforeUse
<1>6. CASE \E t \in Threads : Log(t) \/ CrashInAppend(t)
  <2>1. PICK t \in Threads : Log(t) \/ CrashInAppend(t)  BY <1>6
  <2>2. pc[t] # "idle"  BY <2>1 DEF Log, CrashInAppend
  <2>3. PICK b \in BOOLEAN : wal' = Append(wal, [op |-> CurrentOp(t), readable |-> b])
    BY <2>1 DEF Log, CrashInAppend
  <2>4. [op |-> CurrentOp(t), readable |-> b] \in Records  BY <2>2, CurrentOpType
  <2> QED  BY <1>4, <2>2, <2>3, <2>4
<1>10. CASE \E t, u \in Threads : LogGarbled(t, u)
  <2>1. PICK t \in Threads, u \in Threads : LogGarbled(t, u)  BY <1>10
  <2>2. /\ pc[t] # "idle" /\ pc[u] # "idle"
        /\ wal' = wal \o << [op |-> CurrentOp(t), readable |-> FALSE],
                            [op |-> CurrentOp(u), readable |-> FALSE] >>
    BY <2>1 DEF LogGarbled
  <2>3. /\ [op |-> CurrentOp(t), readable |-> FALSE] \in Records
        /\ [op |-> CurrentOp(u), readable |-> FALSE] \in Records
    BY <2>2, CurrentOpType
  <2> QED  BY <1>5, <2>2, <2>3
<1>7. CASE \E t \in Threads : Request(t)
  <2>1. PICK t \in Threads : Request(t)  BY <1>7
  <2>2. wal' = wal
    BY <2>1 DEF Request, CreateCollection, DeleteCollection, CreateIndex, Put, Delete, Get,
       BeginTransaction, RollbackTransaction, CommitEmpty, CommitTransaction,
       AddOperation, TxnGet, Accept
  <2> QED  BY <1>3, <2>2
<1>8. CASE \E t \in Threads : Work(t) /\ ~Log(t)
  BY <1>3, <1>8 DEF Work, LogClosed, ApplyPut, ApplyPutFails, ApplyDelete, ApplyCreate,
     ApplyDrop, RemoveDirectory
<1>9. CASE Shutdown \/ Crash \/ Restart \/ Recover \/ UNCHANGED vars
  BY <1>3, <1>9 DEF Shutdown, Crash, Restart, Recover, ReplayPut, ReplayPutFails,
     ReplayDelete, ReplayCreate, ReplayDrop, FinishRecovery, Replayed
<1> QED  BY <1>6, <1>7, <1>8, <1>9, <1>10 DEF Next

(* An operation that may be accepted concerns a collection that is there. *)
LEMMA MayWriteCreated ==
    ASSUME RecoveryInv, ~StrayWrites, NEW t, NEW c \in Collections, NEW k, MayWrite(t, c, k)
    PROVE  Created(c)
BY DEF RecoveryInv, MayWrite, PresentCreated

(* What is left of a list was in it. *)
LEMMA TailElements ==
    ASSUME NEW S, NEW s \in Seq(S), s # <<>>, NEW i \in DOMAIN Tail(s)
    PROVE  i + 1 \in DOMAIN s /\ Tail(s)[i] = s[i + 1]
OBVIOUS

(* Only a thread's own step, or a crash, changes what threads work on. *)
LEMMA NextThreads ==
    ASSUME [Next]_vars
    PROVE  \/ \E t \in Threads : Request(t) \/ Work(t)
           \/ LoseMemory
           \/ UNCHANGED <<todo, txns>>
BY DEF Next, CrashInAppend, LogGarbled, Crash, Shutdown, Restart, Recover, ReplayPut,
   ReplayPutFails, ReplayDelete, ReplayCreate, ReplayDrop, FinishRecovery, Replayed

(* A thread never has an accepted PUT to a collection the log does not create. *)
LEMMA PendingCreatedNext ==
    ASSUME RecoveryInv, TypeInv', [Next]_vars, ~StrayWrites
    PROVE  PendingCreated'
<1> USE DEF RecoveryInv
<1>1. LogGrows  BY LogOnlyGrows
<1> DEFINE Prepared(t) ==
               \A i \in DOMAIN todo'[t] :
                   todo'[t][i].type = "PUT" => CreatedIn(wal', todo'[t][i].coll)
<1>2. ASSUME NEW t \in Threads, todo'[t] = todo[t]  PROVE Prepared(t)
  <2>1. ASSUME NEW i \in DOMAIN todo[t]  PROVE todo[t][i].coll \in Collections
    <3>1. todo[t] \in Seq(Ops)  BY DEF TypeInv, TypeOK
    <3>2. todo[t][i] \in Ops  BY <3>1, ElementOfSeq, LenProperties
    <3> QED  BY <3>2, DocOpFields
  <2> QED  BY <1>1, <1>2, <2>1, CreatedStays DEF PendingCreated
<1>3. ASSUME NEW t \in Threads, todo'[t] = <<>>  PROVE Prepared(t)  BY <1>3
<1>4. ASSUME NEW t \in Threads, todo[t] # <<>>, todo'[t] = Tail(todo[t])  PROVE Prepared(t)
  <2>1. todo[t] \in Seq(Ops)  BY DEF TypeInv, TypeOK
  <2>2. ASSUME NEW i \in DOMAIN Tail(todo[t]), Tail(todo[t])[i].type = "PUT"
        PROVE  CreatedIn(wal', Tail(todo[t])[i].coll)
    <3>1. i + 1 \in DOMAIN todo[t] /\ Tail(todo[t])[i] = todo[t][i + 1]
      BY <1>4, <2>1, TailElements
    <3>2. todo[t][i + 1] \in Ops  BY <2>1, <3>1, ElementOfSeq, LenProperties
    <3>3. Created(todo[t][i + 1].coll)  BY <2>2, <3>1 DEF PendingCreated
    <3>4. CreatedIn(wal', todo[t][i + 1].coll)
      BY <1>1, <3>2, <3>3, DocOpFields, CreatedStays
    <3> QED  BY <3>1, <3>4
  <2> QED  BY <1>4, <2>2
<1>5. ASSUME NEW t \in Threads, NEW kind, NEW work, Accept(t, kind, work),
             \A i \in DOMAIN work : work[i].type = "PUT" =>
                 work[i].coll \in Collections /\ Created(work[i].coll)
      PROVE  \A u \in Threads : Prepared(u)
  <2>1. Prepared(t)
    <3>1. todo'[t] = work  BY <1>5 DEF Accept, TypeInv, TypeOK
    <3> QED  BY <1>1, <1>5, <3>1, CreatedStays
  <2>2. \A u \in Threads \ {t} : todo'[u] = todo[u]  BY <1>5 DEF Accept, TypeInv, TypeOK
  <2> QED  BY <1>2, <2>1, <2>2
<1> HIDE DEF Prepared
<1>6. ASSUME NEW t \in Threads, Request(t)  PROVE \A u \in Threads : Prepared(u)
  <2>1. ASSUME NEW c \in Collections, CreateCollection(t, c) \/ DeleteCollection(t, c)
        PROVE  \A u \in Threads : Prepared(u)
    BY <1>5, <2>1 DEF CreateCollection, DeleteCollection, CollectionOp
  <2>2. ASSUME NEW c \in Collections, NEW k \in Keys,
               (\E d \in Docs : Put(t, c, k, d)) \/ Delete(t, c, k)
        PROVE  \A u \in Threads : Prepared(u)
    <3>1. Created(c)  BY <2>2, MayWriteCreated DEF Put, Delete
    <3>2. PICK op : op.coll = c /\ \E kind : Accept(t, kind, <<op>>)
      BY <2>2 DEF Put, Delete, PutOp, DeleteOp
    <3>3. \A i \in DOMAIN <<op>> : <<op>>[i].coll = c  BY <3>2
    <3> QED  BY <1>5, <3>1, <3>2, <3>3
  <2>3. ASSUME NEW tid \in Tids, CommitTransaction(t, tid)
        PROVE  \A u \in Threads : Prepared(u)
    <3>1. ops[tid] \in Seq(DocOps)  BY DEF TypeInv, TypeOK
    <3>2. \A i \in DOMAIN ops[tid] : ops[tid][i] \in DocOps
      BY <3>1, ElementOfSeq, LenProperties
    <3>3. \A i \in DOMAIN ops[tid] : ops[tid][i].coll \in Collections  BY <3>2 DEF DocOps
    <3> QED  BY <1>5, <2>3, <3>3 DEF CommitTransaction, BufferedCreated
  <2>4. CASE UNCHANGED todo  BY <1>2, <2>4
  <2> QED
    BY <1>6, <2>1, <2>2, <2>3, <2>4, ZenonT(60) DEF Request, CreateIndex, Get, BeginTransaction,
       RollbackTransaction, CommitEmpty, AddOperation, TxnGet
<1>7. ASSUME NEW t \in Threads, Work(t)  PROVE \A u \in Threads : Prepared(u)
  <2>1. CASE Fail(t)  BY <1>2, <1>3, <2>1 DEF Fail, TypeInv, TypeOK
  <2>2. ASSUME NEW result, Advance(t, result), pc[t] # "idle"
        PROVE  \A u \in Threads : Prepared(u)
    <3>1. todo[t] # <<>>  BY <2>2 DEF TypeInv, BusyHasWork
    <3>2. todo'[t] = Tail(todo[t]) /\ \A u \in Threads \ {t} : todo'[u] = todo[u]
      BY <2>2 DEF Advance, TypeInv, TypeOK
    <3> QED  BY <1>2, <1>4, <3>1, <3>2
  <2>3. CASE UNCHANGED todo  BY <1>2, <2>3
  <2> QED
    BY <1>7, <2>1, <2>2, <2>3 DEF Work, Log, LogClosed, ApplyPut, ApplyPutFails, ApplyDelete,
       ApplyCreate, ApplyDrop, RemoveDirectory, Applying
<1>8. LoseMemory => \A u \in Threads : Prepared(u)  BY <1>3 DEF LoseMemory
<1>9. UNCHANGED todo => \A u \in Threads : Prepared(u)  BY <1>2
<1>10. \A u \in Threads : Prepared(u)
  BY <1>6, <1>7, <1>8, <1>9, NextThreads
<1> QED  BY <1>10 DEF Prepared, PendingCreated, Created

(* Nor does a transaction buffer one. *)
LEMMA BufferedCreatedNext ==
    ASSUME RecoveryInv, TypeInv', [Next]_vars, ~StrayWrites
    PROVE  BufferedCreated'
<1> USE DEF RecoveryInv
<1>1. LogGrows  BY LogOnlyGrows
<1> DEFINE Prepared(tid) ==
               \A i \in DOMAIN ops'[tid] :
                   ops'[tid][i].type = "PUT" => CreatedIn(wal', ops'[tid][i].coll)
<1>2. ASSUME NEW tid \in Tids, NEW i \in DOMAIN ops[tid], ops[tid][i].type = "PUT"
      PROVE  CreatedIn(wal', ops[tid][i].coll)
  <2>1. ops[tid] \in Seq(DocOps)  BY DEF TypeInv, TypeOK
  <2>2. ops[tid][i] \in DocOps  BY <2>1, ElementOfSeq, LenProperties
  <2>3. ops[tid][i].coll \in Collections  BY <2>2 DEF DocOps
  <2> QED  BY <1>1, <1>2, <2>3, CreatedStays DEF BufferedCreated
<1>3. ASSUME NEW tid \in Tids, ops'[tid] = ops[tid] \/ ops'[tid] = <<>>  PROVE Prepared(tid)
  BY <1>2, <1>3
<1>4. ASSUME NEW tid \in Tids, NEW t \in Threads, NEW op, op.coll \in Collections,
             AddOperation(t, tid, op), op \in DocOps
      PROVE  \A i \in Tids : Prepared(i)
  <2>1. Created(op.coll)  BY <1>4, MayWriteCreated DEF AddOperation
  <2>2. CreatedIn(wal', op.coll)  BY <1>1, <1>4, <2>1, CreatedStays
  <2>3. /\ ops[tid] \in Seq(DocOps) /\ ops'[tid] = Append(ops[tid], op)
        /\ \A i \in Tids \ {tid} : ops'[i] = ops[i]
    BY <1>4 DEF AddOperation, TypeInv, TypeOK
  <2>4. \A i \in DOMAIN ops'[tid] :
            ops'[tid][i] = op \/ (i \in DOMAIN ops[tid] /\ ops'[tid][i] = ops[tid][i])
    <3> HIDE DEF Prepared
    <3>1. \A i \in DOMAIN Append(ops[tid], op) :
              \/ Append(ops[tid], op)[i] = op
              \/ i \in DOMAIN ops[tid] /\ Append(ops[tid], op)[i] = ops[tid][i]
      BY <1>4, <2>3
    <3> QED  BY <2>3, <3>1, Zenon
  <2>5. Prepared(tid)  BY <1>2, <2>2, <2>4
  <2> QED  BY <1>3, <2>3, <2>5
<1> HIDE DEF Prepared
<1>5. ASSUME NEW t \in Threads, Request(t)  PROVE \A i \in Tids : Prepared(i)
  <2>1. ASSUME NEW tid \in Tids, NEW c \in Collections, NEW k \in Keys,
               \/ \E d \in Docs : AddOperation(t, tid, PutOp(c, k, d))
               \/ AddOperation(t, tid, DeleteOp(c, k))
        PROVE  \A i \in Tids : Prepared(i)
    BY <1>4, <2>1 DEF PutOp, DeleteOp, DocOps
  <2>2. CASE BeginTransaction(t)
    BY <1>3, <2>2 DEF BeginTransaction, TypeInv, TypeOK
  <2>3. ASSUME NEW tid \in Tids, RollbackTransaction(t, tid)
        PROVE  \A i \in Tids : Prepared(i)
    BY <1>3, <2>3 DEF RollbackTransaction, TypeInv, TypeOK
  <2>4. UNCHANGED ops => \A i \in Tids : Prepared(i)  BY <1>3
  <2>5. UNCHANGED ops \/ BeginTransaction(t)
        \/ \E tid \in Tids : RollbackTransaction(t, tid)
             \/ \E c \in Collections, k \in Keys :
                   \/ \E d \in Docs : AddOperation(t, tid, PutOp(c, k, d))
                   \/ AddOperation(t, tid, DeleteOp(c, k))
    BY <1>5 DEF Request, CreateCollection, DeleteCollection, CreateIndex, Put, Delete, Get,
       CommitEmpty, CommitTransaction, TxnGet, Accept
  <2> QED  BY <2>1, <2>2, <2>3, <2>4, <2>5
<1>6. ASSUME NEW t \in Threads, Work(t)  PROVE \A i \in Tids : Prepared(i)
  <2>1. UNCHANGED ops
    BY <1>6 DEF Work, Log, LogClosed, ApplyPut, ApplyPutFails, ApplyDelete, ApplyCreate,
       ApplyDrop, RemoveDirectory, Fail, Advance
  <2> QED  BY <1>3, <2>1
<1>7. LoseMemory => \A i \in Tids : Prepared(i)  BY <1>3 DEF LoseMemory
<1>8. UNCHANGED txns => \A i \in Tids : Prepared(i)  BY <1>3
<1>9. \A i \in Tids : Prepared(i)  BY <1>5, <1>6, <1>7, <1>8, NextThreads
<1> QED  BY <1>9 DEF Prepared, BufferedCreated, Created

(* Requests alone change no collection object and no document. *)
LEMMA RequestKeepsStore ==
    ASSUME NEW t \in Threads, Request(t), "index" \notin Requests
    PROVE  UNCHANGED <<wal, dirs, indexFiles, server, store>>
BY DEF Request, CreateCollection, DeleteCollection, CreateIndex, Put, Delete, Get,
   BeginTransaction, RollbackTransaction, CommitEmpty, CommitTransaction, AddOperation,
   TxnGet, Accept, Ready

(* A collection in memory is created in the log, or is a directory of one. *)
LEMMA PresentCreatedNext ==
    ASSUME RecoveryInv, TypeInv', [Next]_vars, "index" \notin Requests
    PROVE  PresentCreated'
<1> USE DEF RecoveryInv
<1>1. LogGrows  BY LogOnlyGrows
<1> DEFINE Present(c) == Exists(c) \/ c \in dirs
<1>2. ASSUME \A c \in Collections : Present(c)' => Present(c) \/ CreatedIn(wal', c)
      PROVE  PresentCreated'
  BY <1>1, <1>2, CreatedStays DEF PresentCreated, Created
<1>3. CASE \E t \in Threads : Request(t)
  BY <1>2, <1>3, RequestKeepsStore DEF Exists
<1>4. CASE \E t \in Threads : Work(t)
  <2>1. PICK t \in Threads : Work(t)  BY <1>4
  <2>2. CASE ApplyCreate(t)
    <3> DEFINE c == CurrentOp(t).coll
    <3>1. pc[t] = "apply" /\ CurrentOp(t).type = "CREATE_COLLECTION" /\ wal' = wal
      BY <2>2 DEF ApplyCreate, Applying
    <3>2. CurrentOp(t) \in Ops  BY <3>1, CurrentOpType
    <3>3. CurrentOp(t) = CollectionOp("CREATE_COLLECTION", c)
      BY <3>1, <3>2 DEF Ops, DocOps, CollectionOp
    <3>4. CreatedIn(wal', c)  BY <3>1, <3>3 DEF LoggedFirst, CreatedIn
    <3>5. \A x \in Collections \ {c} : Present(x)' => Present(x)
      BY <2>2 DEF ApplyCreate, Exists, TypeInv, TypeOK
    <3> QED  BY <1>2, <3>4, <3>5
  <2>3. CASE ApplyDrop(t)  BY <1>2, <2>3 DEF ApplyDrop, Exists, TypeInv, TypeOK
  <2>4. CASE RemoveDirectory(t)  BY <1>2, <2>4 DEF RemoveDirectory, Exists
  <2>5. CASE UNCHANGED <<dirs, collections>>  BY <1>2, <2>5 DEF Exists
  <2> QED
    BY <2>1, <2>2, <2>3, <2>4, <2>5 DEF Work, Log, LogClosed, ApplyPut, ApplyPutFails, ApplyDelete
<1>5. CASE LoseMemory /\ UNCHANGED dirs  BY <1>2, <1>5 DEF LoseMemory, Exists
<1>6. CASE Shutdown  BY <1>2, <1>6 DEF Shutdown, Exists
<1>7. CASE ReplayCreate
  <2> DEFINE c == wal[cursor].op.coll
  <2>1. wal[cursor].op = CollectionOp("CREATE_COLLECTION", c) /\ wal' = wal
    BY <1>7, WalRecordType DEF ReplayCreate, Replaying, Ops, DocOps, CollectionOp
  <2>2. CreatedIn(wal', c)  BY <1>7, <2>1 DEF ReplayCreate, Replaying, CreatedIn
  <2>3. \A x \in Collections \ {c} : Present(x)' => Present(x)
    BY <1>7 DEF ReplayCreate, Exists, TypeInv, TypeOK
  <2> QED  BY <1>2, <2>2, <2>3
<1>8. CASE FinishRecovery  BY <1>2, <1>8 DEF FinishRecovery, Exists, TypeInv, TypeOK
<1>9. CASE UNCHANGED <<dirs, collections>>  BY <1>2, <1>9 DEF Exists
<1> QED
  BY <1>3, <1>4, <1>5, <1>6, <1>7, <1>8, <1>9 DEF Next, CrashInAppend, LogGarbled, Crash,
     Restart, Recover, ReplayPut, ReplayPutFails, ReplayDelete, ReplayDrop, Replayed

(* Without index requests no index file ever appears. *)
LEMMA NoIndexesNext ==
    ASSUME RecoveryInv, TypeInv', [Next]_vars, "index" \notin Requests
    PROVE  NoIndexes'
<1> USE DEF RecoveryInv
<1>1. \A c : Fresh(c) = "plain"  BY DEF NoIndexes, Fresh
<1>2. CASE \E t \in Threads : Request(t)
  BY <1>2, RequestKeepsStore DEF NoIndexes
<1>3. CASE \E t \in Threads : Work(t)
  <2>1. PICK t \in Threads : Work(t)  BY <1>3
  <2>2. CASE ApplyCreate(t)
    BY <1>1, <2>2 DEF ApplyCreate, NoIndexes, TypeInv, TypeOK
  <2>3. CASE ApplyDrop(t)  BY <2>3 DEF ApplyDrop, NoIndexes, TypeInv, TypeOK
  <2>4. CASE RemoveDirectory(t)  BY <2>4 DEF RemoveDirectory, NoIndexes
  <2>5. CASE UNCHANGED <<indexFiles, collections>>  BY <2>5 DEF NoIndexes
  <2> QED
    BY <2>1, <2>2, <2>3, <2>4, <2>5 DEF Work, Log, LogClosed, ApplyPut, ApplyPutFails, ApplyDelete
<1>4. CASE LoseMemory /\ UNCHANGED indexFiles  BY <1>4 DEF LoseMemory, NoIndexes
<1>5. CASE Shutdown  BY <1>5 DEF Shutdown, NoIndexes
<1>6. CASE Recover
  BY <1>1, <1>6 DEF Recover, ReplayPut, ReplayPutFails, ReplayDelete, ReplayCreate,
     ReplayDrop, FinishRecovery, Replayed, NoIndexes, TypeInv, TypeOK
<1>7. CASE UNCHANGED <<indexFiles, collections>>  BY <1>7 DEF NoIndexes
<1> QED
  BY <1>2, <1>3, <1>4, <1>5, <1>6, <1>7 DEF Next, CrashInAppend, LogGarbled, Crash, Restart

(* The replay holds every collection whose creation it has passed. *)
LEMMA ReplayedExistNext ==
    ASSUME RecoveryInv, TypeInv', [Next]_vars, "index" \notin Requests
    PROVE  ReplayedExist' /\ RecoverySucceeds'
<1> USE DEF RecoveryInv
<1>1. cursor \in Nat \ {0} /\ wal \in Seq(Records) /\ DOMAIN wal = 1..Len(wal)
  BY DEF TypeInv, TypeOK
<1>2. CASE phase' \in {"running", "stopped"}
  BY <1>2 DEF ReplayedExist, RecoverySucceeds
<1>3. CASE LoseMemory  BY <1>3 DEF LoseMemory, ReplayedExist, RecoverySucceeds
<1>4. CASE Restart  BY <1>1, <1>4 DEF Restart, ReplayedExist, RecoverySucceeds
<1>5. ASSUME Replayed \/ ReplayCreate, phase = "recovering", wal' = wal, cursor' = cursor + 1,
             \A c \in Collections : Exists(c) => Exists(c)',
             wal[cursor].op.type = "CREATE_COLLECTION" =>
                 collections'[wal[cursor].op.coll] # "none"
      PROVE  ReplayedExist' /\ RecoverySucceeds'
  <2>1. phase' = phase  BY <1>5 DEF Replayed, ReplayCreate
  <2>2. ASSUME NEW j \in DOMAIN wal, NEW c \in Collections, j < cursor + 1,
               wal[j].op = CollectionOp("CREATE_COLLECTION", c)
        PROVE  Exists(c)'
    <3>1. CASE j = cursor  BY <1>5, <2>2, <3>1 DEF CollectionOp, Exists
    <3>2. CASE j < cursor  BY <1>5, <2>2, <3>2 DEF ReplayedExist
    <3> QED  BY <1>1, <2>2, <3>1, <3>2
  <2> QED  BY <1>5, <2>1, <2>2 DEF ReplayedExist, RecoverySucceeds
<1>6. CASE ReplayPut \/ ReplayDelete \/ ReplayDrop
  <2>1. Replayed /\ UNCHANGED collections /\ phase = "recovering"
        /\ wal[cursor].op.type # "CREATE_COLLECTION"
    BY <1>6 DEF ReplayPut, ReplayDelete, ReplayDrop, Replaying
  <2> QED  BY <1>5, <2>1 DEF Replayed, Exists
<1>7. CASE ReplayCreate
  <2>1. wal[cursor].op.coll \in Collections
    BY <1>7, WalRecordType, DocOpFields DEF ReplayCreate, Replaying
  <2>2. \A c \in Collections : Exists(c) => Exists(c)'
    BY <1>7 DEF ReplayCreate, Exists, Fresh, TypeInv, TypeOK
  <2>3. collections'[wal[cursor].op.coll] # "none"
    BY <1>7, <2>1 DEF ReplayCreate, Exists, Fresh, TypeInv, TypeOK
  <2> QED  BY <1>5, <1>7, <2>2, <2>3 DEF ReplayCreate, Replaying
<1>8. ~ReplayPutFails
  <2> SUFFICES ASSUME ReplayPutFails PROVE FALSE  OBVIOUS
  <2> DEFINE c == wal[cursor].op.coll
  <2>1. /\ phase = "recovering" /\ cursor \in DOMAIN wal
        /\ wal[cursor].op.type = "PUT" /\ ~AcceptsDocs(c)
    BY DEF ReplayPutFails, Replaying
  <2>2. c \in Collections  BY <2>1, WalRecordType, DocOpFields
  <2>3. PICK j \in 1..(cursor - 1) : wal[j].op = CollectionOp("CREATE_COLLECTION", c)
    BY <2>1 DEF CreatedBeforeUse
  <2>4. j \in DOMAIN wal /\ j < cursor  BY <1>1, <2>1, <2>3
  <2>5. Exists(c)  BY <2>1, <2>2, <2>3, <2>4 DEF ReplayedExist
  <2> QED  BY <2>1, <2>2, <2>5 DEF NoIndexes, Exists, AcceptsDocs
<1>9. CASE FinishRecovery  BY <1>2, <1>9 DEF FinishRecovery
<1>10. CASE phase' = phase /\ phase \in {"running", "stopped"}  BY <1>2, <1>10
<1>11. CASE UNCHANGED <<wal, server, collections>>
  BY <1>11 DEF ReplayedExist, RecoverySucceeds, Exists
<1>12. CASE \E t \in Threads : Request(t)  BY <1>11, <1>12, RequestKeepsStore
<1>13. CASE \E t \in Threads : Work(t)
  BY <1>10, <1>13 DEF Work, Log, LogClosed, ApplyPut, ApplyPutFails, ApplyDelete, ApplyCreate,
     ApplyDrop, RemoveDirectory, Applying, Alive
<1> QED
  BY <1>2, <1>3, <1>4, <1>6, <1>7, <1>8, <1>9, <1>10, <1>11, <1>12, <1>13 DEF Next,
     CrashInAppend, LogGarbled, Crash, Shutdown, Recover

(* The conjunction is inductive. *)
LEMMA RecoveryInvariant ==
    ASSUME ~StrayWrites, "index" \notin Requests
    PROVE  Spec => []RecoveryInv
<1>1. Init => RecoveryInv
  BY TypeInit DEF Init, RecoveryInv, LoggedFirst, CreatedBeforeUse, PendingCreated,
     BufferedCreated, PresentCreated, Exists, NoIndexes, ReplayedExist, RecoverySucceeds
<1>2. RecoveryInv /\ [Next]_vars => RecoveryInv'
  BY TypeNext, LoggedFirstNext, CreatedBeforeUseNext, PendingCreatedNext, BufferedCreatedNext,
     PresentCreatedNext, NoIndexesNext, ReplayedExistNext DEF RecoveryInv
<1> QED  BY <1>1, <1>2, PTL DEF Spec

(* If no client writes to collections that do not exist and none asks for  *)
(* an index, every restart succeeds: with any number of threads, dropped   *)
(* collections, garbled and half-written records and crashes, recover      *)
(* never meets a document whose collection it cannot find.                 *)
THEOREM RestartsSucceed ==
    ASSUME ~StrayWrites, "index" \notin Requests
    PROVE  Spec => []RecoverySucceeds
<1>1. RecoveryInv => RecoverySucceeds  BY DEF RecoveryInv
<1> QED  BY <1>1, RecoveryInvariant, PTL

(* Under the same conditions the log never holds a document before the     *)
(* record that creates its collection.                                     *)
THEOREM CreatedBeforeUseHolds ==
    ASSUME ~StrayWrites, "index" \notin Requests
    PROVE  Spec => []CreatedBeforeUse
<1>1. RecoveryInv => CreatedBeforeUse  BY DEF RecoveryInv
<1> QED  BY <1>1, RecoveryInvariant, PTL

-----------------------------------------------------------------------------
(* One thread at a time commits, it is at work, and what it has left to do *)
(* is the end of its transaction's list, which nobody extends meanwhile.   *)
CommitsWork == \A t \in Threads : committing[t] # NoTxn => pc[t] # "idle"
OneCommits ==
    \A t, u \in Threads : committing[t] # NoTxn /\ committing[u] # NoTxn => t = u

CommitInv == TypeInv /\ CommitsWork /\ OneCommits /\ CommitSeesFixedOperations

(* What is left to do of a list. *)
Rest(all, left) ==
    left # <<>> /\ Len(left) <= Len(all)
    /\ left = SubSeq(all, Len(all) - Len(left) + 1, Len(all))

LEMMA RestOfAll == ASSUME NEW S, NEW s \in Seq(S), s # <<>> PROVE Rest(s, s)
<1>1. Len(s) \in Nat  BY LenProperties
<1>2. SubSeq(s, 1, Len(s)) = s  BY SubSeqFull
<1> QED  BY <1>1, <1>2 DEF Rest

LEMMA RestOfRest ==
    ASSUME NEW S, NEW all \in Seq(S), NEW left \in Seq(S), Rest(all, left), Tail(left) # <<>>
    PROVE  Rest(all, Tail(left))
<1>1. Len(all) \in Nat /\ Len(left) \in Nat /\ left # <<>> /\ Len(left) <= Len(all)
  BY LenProperties DEF Rest
<1>2. Len(Tail(left)) = Len(left) - 1 /\ Len(left) > 0  BY <1>1, HeadTailProperties, EmptySeq
<1> DEFINE m == Len(all) - Len(left) + 1
<1>3. m \in 1..Len(all) /\ Len(all) \in m..Len(all)  BY <1>1, <1>2
<1>4. Tail(SubSeq(all, m, Len(all))) = SubSeq(all, m + 1, Len(all))
  <2> HIDE DEF m
  <2> QED  BY <1>3, HeadTailOfSubSeq
<1>5. m + 1 = Len(all) - Len(Tail(left)) + 1  BY <1>1, <1>2
<1>6. Tail(left) = SubSeq(all, m + 1, Len(all))  BY <1>4 DEF Rest
<1> HIDE DEF m
<1> QED  BY <1>1, <1>2, <1>5, <1>6 DEF Rest

LEMMA CommitInit == Init => CommitInv
BY TypeInit DEF Init, CommitInv, CommitsWork, OneCommits, CommitSeesFixedOperations

(* A step of a thread that commits nothing leaves the others' commits alone. *)
LEMMA CommitsKept ==
    ASSUME CommitInv, TypeInv',
           \A t \in Threads : committing'[t] # NoTxn =>
               /\ committing'[t] = committing[t] /\ pc'[t] # "idle"
               /\ committing[t] \in active'
               /\ ops'[committing[t]] = ops[committing[t]]
               /\ \/ todo'[t] = todo[t]
                  \/ todo'[t] = Tail(todo[t]) /\ Tail(todo[t]) # <<>>
    PROVE  CommitInv'
<1> USE DEF CommitInv
<1>1. CommitsWork' /\ OneCommits'
  BY DEF CommitsWork, OneCommits
<1>2. ASSUME NEW t \in Threads, committing'[t] # NoTxn
      PROVE  committing'[t] \in active' /\ Rest(ops'[committing'[t]], todo'[t])
  <2>1. committing[t] # NoTxn /\ committing[t] \in Tids  BY <1>2 DEF TypeInv, TypeOK
  <2>2. Rest(ops[committing[t]], todo[t])
    BY <2>1 DEF CommitSeesFixedOperations, Rest
  <2>3. ops[committing[t]] \in Seq(Ops) /\ todo[t] \in Seq(Ops)
    BY <2>1, DocOpsAreOps DEF TypeInv, TypeOK
  <2>4. Tail(todo[t]) # <<>> => Rest(ops[committing[t]], Tail(todo[t]))
    BY <2>2, <2>3, RestOfRest
  <2> QED  BY <1>2, <2>2, <2>4
<1>3. CommitSeesFixedOperations'
  BY <1>2 DEF CommitSeesFixedOperations, Rest
<1> QED  BY <1>1, <1>3

(* A request is accepted for a thread to carry out, commits a transaction, *)
(* or is answered at once; only with mutex_ free does it touch one.        *)
LEMMA RequestCases ==
    ASSUME NEW t \in Threads, Request(t)
    PROVE  \/ \E c \in Collections :
                CreateCollection(t, c) \/ DeleteCollection(t, c) \/ CreateIndex(t, c)
           \/ \E c \in Collections, k \in Keys :
                (\E d \in Docs : Put(t, c, k, d)) \/ Delete(t, c, k)
           \/ \E tid \in Tids : CommitTransaction(t, tid)
           \/ /\ phase = "running" /\ pc[t] = "idle" /\ (MutexFree \/ UNCHANGED txns)
              /\ UNCHANGED <<disk, server, store, pc, todo, committing>>
<1> DEFINE Quiet == /\ phase = "running" /\ pc[t] = "idle" /\ (MutexFree \/ UNCHANGED txns)
                    /\ UNCHANGED <<disk, server, store, pc, todo, committing>>
<1>1. ASSUME NEW c, NEW k, Get(t, c, k)  PROVE Quiet  BY <1>1 DEF Get
<1>2. ASSUME BeginTransaction(t)  PROVE Quiet  BY <1>2 DEF BeginTransaction, Ready
<1>3. ASSUME NEW tid, RollbackTransaction(t, tid) \/ CommitEmpty(t, tid)  PROVE Quiet
  BY <1>3 DEF RollbackTransaction, CommitEmpty, Ready
<1>4. ASSUME NEW tid, NEW op, AddOperation(t, tid, op)  PROVE Quiet
  BY <1>4 DEF AddOperation, Ready
<1>5. ASSUME NEW tid, NEW c, NEW k, TxnGet(t, tid, c, k)  PROVE Quiet
  BY <1>5 DEF TxnGet, Ready
<1> HIDE DEF Quiet
<1>6. \/ \E c \in Collections :
          CreateCollection(t, c) \/ DeleteCollection(t, c) \/ CreateIndex(t, c)
      \/ \E c \in Collections, k \in Keys :
          (\E d \in Docs : Put(t, c, k, d)) \/ Delete(t, c, k)
      \/ \E tid \in Tids : CommitTransaction(t, tid)
      \/ Quiet
  BY <1>1, <1>2, <1>3, <1>4, <1>5, Zenon DEF Request
<1> QED  BY <1>6 DEF Quiet

LEMMA CommitRequest ==
    ASSUME CommitInv, TypeInv', NEW t \in Threads, Request(t)
    PROVE  CommitInv'
<1> USE DEF CommitInv
<1>1. pc[t] = "idle" => committing[t] = NoTxn  BY DEF CommitsWork
<1>2. ASSUME UNCHANGED <<committing, txns, todo, pc>>  PROVE CommitInv'
  BY <1>2, CommitsKept DEF CommitSeesFixedOperations, CommitsWork
<1>3. ASSUME NEW kind, NEW work, Accept(t, kind, work), UNCHANGED committing  PROVE CommitInv'
  <2>1. \A u \in Threads : committing[u] # NoTxn => u # t
    BY <1>1, <1>3 DEF Accept, Ready
  <2>2. \A u \in Threads \ {t} : pc'[u] = pc[u] /\ todo'[u] = todo[u]
    BY <1>3 DEF Accept, TypeInv, TypeOK
  <2>3. UNCHANGED txns  BY <1>3 DEF Accept
  <2> QED  BY <1>3, <2>1, <2>2, <2>3, CommitsKept DEF CommitSeesFixedOperations, CommitsWork
<1>4. ASSUME MutexFree, UNCHANGED <<committing, pc, todo>>  PROVE CommitInv'
  BY <1>4, CommitsKept DEF MutexFree
<1>5. ASSUME NEW tid \in Tids, CommitTransaction(t, tid)  PROVE CommitInv'
  <2>1. /\ \A u \in Threads : committing[u] = NoTxn
        /\ committing' = [committing EXCEPT ![t] = tid]
        /\ tid \in active /\ ops[tid] # <<>>
        /\ Accept(t, "txn", ops[tid])
    BY <1>5 DEF CommitTransaction, MutexFree
  <2>2. /\ pc'[t] = "log" /\ todo'[t] = ops[tid] /\ UNCHANGED txns
        /\ committing'[t] = tid /\ \A u \in Threads \ {t} : committing'[u] = NoTxn
    BY <2>1 DEF Accept, TypeInv, TypeOK
  <2>3. ops[tid] \in Seq(DocOps)  BY DEF TypeInv, TypeOK
  <2>4. Rest(ops[tid], ops[tid])  BY <2>1, <2>3, RestOfAll
  <2>5. CommitsWork' /\ OneCommits'  BY <2>2 DEF CommitsWork, OneCommits
  <2>6. tid \in active' /\ Rest(ops'[tid], todo'[t])
    BY <2>1, <2>2, <2>4
  <2>7. \A u \in Threads : committing'[u] # NoTxn => u = t /\ committing'[u] = tid
    BY <2>2
  <2>8. CommitSeesFixedOperations'
    BY <2>6, <2>7 DEF CommitSeesFixedOperations, Rest
  <2> QED  BY <2>5, <2>8
<1>6. ASSUME NEW c \in Collections, NEW k \in Keys,
             (\E d \in Docs : Put(t, c, k, d)) \/ Delete(t, c, k)
      PROVE  CommitInv'
  BY <1>3, <1>6 DEF Put, Delete
<1>7. ASSUME NEW c \in Collections,
             CreateCollection(t, c) \/ DeleteCollection(t, c) \/ CreateIndex(t, c)
      PROVE  CommitInv'
  BY <1>2, <1>3, <1>7 DEF CreateCollection, DeleteCollection, CreateIndex
<1> QED  BY <1>2, <1>4, <1>5, <1>6, <1>7, RequestCases

LEMMA CommitWork ==
    ASSUME CommitInv, TypeInv', NEW t \in Threads, Work(t)
    PROVE  CommitInv'
<1> USE DEF CommitInv
<1>1. CASE Fail(t)
  <2>1. \A u \in Threads \ {t} :
            pc'[u] = pc[u] /\ todo'[u] = todo[u] /\ committing'[u] = committing[u]
    BY <1>1 DEF Fail, TypeInv, TypeOK
  <2>2. committing'[t] = NoTxn /\ UNCHANGED txns  BY <1>1 DEF Fail, TypeInv, TypeOK
  <2> QED  BY <2>1, <2>2, CommitsKept DEF CommitSeesFixedOperations, CommitsWork
<1>2. ASSUME NEW result, Advance(t, result)  PROVE CommitInv'
  <2>1. \A u \in Threads \ {t} :
            pc'[u] = pc[u] /\ todo'[u] = todo[u] /\ committing'[u] = committing[u]
    BY <1>2 DEF Advance, TypeInv, TypeOK
  <2>2. todo'[t] = Tail(todo[t]) /\ UNCHANGED ops
    BY <1>2 DEF Advance, TypeInv, TypeOK
  <2>3. CASE Tail(todo[t]) # <<>>
    <3>1. pc'[t] = "log" /\ UNCHANGED <<active, committing>>
      BY <1>2, <2>3 DEF Advance, TypeInv, TypeOK
    <3> QED  BY <2>1, <2>2, <2>3, <3>1, CommitsKept DEF CommitSeesFixedOperations, CommitsWork
  <2>4. CASE Tail(todo[t]) = <<>>
    <3>1. committing'[t] = NoTxn /\ active' = active \ {committing[t]}
      BY <1>2, <2>4 DEF Advance, TypeInv, TypeOK
    <3>2. ASSUME NEW u \in Threads \ {t}, committing[u] # NoTxn
          PROVE  committing[u] \in active' /\ pc[u] # "idle"
      <4>1. committing[t] = NoTxn  BY <3>2 DEF OneCommits
      <4> QED  BY <3>1, <3>2, <4>1 DEF CommitSeesFixedOperations, CommitsWork
    <3> QED  BY <2>1, <2>2, <3>1, <3>2, CommitsKept
  <2> QED  BY <2>3, <2>4
<1>3. ASSUME UNCHANGED <<committing, txns, todo>>, pc'[t] # "idle",
             \A u \in Threads \ {t} : pc'[u] = pc[u]
      PROVE  CommitInv'
  BY <1>3, CommitsKept DEF CommitSeesFixedOperations, CommitsWork
<1>4. CASE Log(t)  BY <1>3, <1>4 DEF Log, TypeInv, TypeOK
<1>5. CASE ApplyDrop(t)  BY <1>3, <1>5 DEF ApplyDrop, TypeInv, TypeOK
<1> QED
  BY <1>1, <1>2, <1>4, <1>5 DEF Work, LogClosed, ApplyPut, ApplyPutFails, ApplyDelete,
     ApplyCreate, RemoveDirectory

LEMMA CommitNext == ASSUME CommitInv, [Next]_vars PROVE CommitInv'
<1> USE DEF CommitInv
<1>1. TypeInv'  BY TypeNext
<1>2. CASE \E t \in Threads : Request(t)  BY <1>1, <1>2, CommitRequest
<1>3. CASE \E t \in Threads : Work(t)  BY <1>1, <1>3, CommitWork
<1>4. CASE LoseMemory
  BY <1>1, <1>4, CommitsKept DEF LoseMemory
<1>5. CASE \E t, u \in Threads : LogGarbled(t, u)
  <2>1. PICK t \in Threads, u \in Threads : LogGarbled(t, u)  BY <1>5
  <2>2. \A v \in Threads : pc[v] # "idle" => pc'[v] # "idle"
    BY <2>1 DEF LogGarbled, TypeInv, TypeOK
  <2>3. UNCHANGED <<committing, txns, todo>>  BY <2>1 DEF LogGarbled
  <2> QED  BY <1>1, <2>2, <2>3, CommitsKept DEF CommitSeesFixedOperations, CommitsWork
<1>6. CASE UNCHANGED <<committing, txns, todo, pc>>
  BY <1>1, <1>6, CommitsKept DEF CommitSeesFixedOperations, CommitsWork
<1> QED
  BY <1>2, <1>3, <1>4, <1>5, <1>6 DEF Next, CrashInAppend, Crash, Shutdown, Restart, Recover,
     ReplayPut, ReplayPutFails, ReplayDelete, ReplayCreate, ReplayDrop, FinishRecovery, Replayed

(* commit_transaction holds mutex_ to the end, so while it carries out a   *)
(* transaction nobody extends, ends or commits the same one: what is left  *)
(* to do is always the end of the list it began with, and the transaction  *)
(* stays in the table until the last operation is done.                    *)
THEOREM CommitsAreFixed == Spec => []CommitSeesFixedOperations
<1>1. CommitInv /\ [Next]_vars => CommitInv'  BY CommitNext
<1>2. CommitInv => CommitSeesFixedOperations  BY DEF CommitInv
<1> QED  BY <1>1, <1>2, CommitInit, PTL DEF Spec

-----------------------------------------------------------------------------
(* What a log says, for any log: the definitions of LSMTreeProperties with *)
(* the log as a parameter.                                                 *)
Reads(log, i) == i \in DOMAIN log /\ \A j \in 1..i : log[j].readable
Sets(log, i, c, k) ==
    /\ log[i].op.type \in {"PUT", "DELETE"}
    /\ log[i].op.coll = c /\ log[i].op.key = k
Says(log, c, k, n, v) ==
    \/ /\ \E i \in 1..n :
            /\ Reads(log, i) /\ Sets(log, i, c, k) /\ log[i].op.doc = v
            /\ \A j \in (i + 1)..n : ~(Reads(log, j) /\ Sets(log, j, c, k))
    \/ v = Nothing /\ \A i \in 1..n : ~(Reads(log, i) /\ Sets(log, i, c, k))

LEMMA SaysIsLogSays ==
    ASSUME NEW c, NEW k, NEW n, NEW v
    PROVE  LogSays(c, k, n, v) <=> Says(wal, c, k, n, v)
BY DEF LogSays, Says, Reads, Sets, Recoverable, Writes

(* An empty log says nothing. *)
LEMMA SaysNothing == ASSUME NEW log, NEW c, NEW k PROVE Says(log, c, k, 0, Nothing)
BY DEF Says

(* A record that writes something else changes nothing for a key; one that *)
(* writes the key decides.                                                 *)
LEMMA SaysSame ==
    ASSUME NEW log, NEW c, NEW k, NEW v, NEW n \in Nat,
           Says(log, c, k, n, v), ~(Reads(log, n + 1) /\ Sets(log, n + 1, c, k))
    PROVE  Says(log, c, k, n + 1, v)
<1> DEFINE Hit(i) == Reads(log, i) /\ Sets(log, i, c, k)
<1>1. CASE v = Nothing /\ \A i \in 1..n : ~Hit(i)
  BY <1>1 DEF Says
<1>2. CASE \E i \in 1..n : Hit(i) /\ log[i].op.doc = v /\ \A j \in (i + 1)..n : ~Hit(j)
  <2>1. PICK i \in 1..n : Hit(i) /\ log[i].op.doc = v /\ \A j \in (i + 1)..n : ~Hit(j)
    BY <1>2
  <2>2. i \in 1..(n + 1) /\ \A j \in (i + 1)..(n + 1) : j \in (i + 1)..n \/ j = n + 1
    OBVIOUS
  <2>3. \A j \in (i + 1)..(n + 1) : ~Hit(j)  BY <2>1, <2>2
  <2> HIDE DEF Hit
  <2>4. \E q \in 1..(n + 1) : /\ Hit(q) /\ log[q].op.doc = v
                              /\ \A j \in (q + 1)..(n + 1) : ~Hit(j)
    BY <2>1, <2>2, <2>3
  <2> QED  BY <2>4 DEF Says, Hit
<1> QED  BY <1>1, <1>2 DEF Says

LEMMA SaysNew ==
    ASSUME NEW log, NEW c, NEW k, NEW n \in Nat, Reads(log, n + 1), Sets(log, n + 1, c, k)
    PROVE  Says(log, c, k, n + 1, log[n + 1].op.doc)
BY DEF Says

(* What a log says of a key is one thing. *)
LEMMA SaysOne ==
    ASSUME NEW log, NEW c, NEW k, NEW n \in Nat, NEW v, NEW w,
           Says(log, c, k, n, v), Says(log, c, k, n, w)
    PROVE  v = w
<1> DEFINE Hit(i) == Reads(log, i) /\ Sets(log, i, c, k)
           Last(i, u) == Hit(i) /\ log[i].op.doc = u /\ \A j \in (i + 1)..n : ~Hit(j)
           None == \A i \in 1..n : ~Hit(i)
<1>1. /\ (\E i \in 1..n : Last(i, v)) \/ (v = Nothing /\ None)
      /\ (\E i \in 1..n : Last(i, w)) \/ (w = Nothing /\ None)
  BY DEF Says
<1>2. ASSUME NEW i \in 1..n, NEW j \in 1..n, Last(i, v), Last(j, w)  PROVE v = w
  <2>1. ~(i < j) /\ ~(j < i)
    <3> HIDE DEF Hit
    <3> QED  BY <1>2
  <2>2. i = j  BY <2>1
  <2> QED  BY <1>2, <2>2
<1>3. ASSUME NEW i \in 1..n, NEW u, Last(i, u), None  PROVE FALSE  BY <1>3
<1> HIDE DEF Last, None
<1> QED  BY <1>1, <1>2, <1>3

(* Records appended later do not change what the earlier ones say. *)
LEMMA SaysExtended ==
    ASSUME NEW log \in Seq(Records), NEW more \in Seq(Records), Len(log) <= Len(more),
           \A i \in 1..Len(log) : more[i] = log[i],
           NEW c, NEW k, NEW v, NEW n \in 0..Len(log)
    PROVE  Says(more, c, k, n, v) <=> Says(log, c, k, n, v)
<1>1. /\ Len(log) \in Nat /\ Len(more) \in Nat
      /\ DOMAIN log = 1..Len(log) /\ DOMAIN more = 1..Len(more)
  BY LenProperties
<1>2. \A i \in 1..n : /\ Reads(more, i) <=> Reads(log, i)
                      /\ Sets(more, i, c, k) <=> Sets(log, i, c, k)
                      /\ more[i].op.doc = log[i].op.doc
  <2>1. ASSUME NEW i \in 1..n
        PROVE  /\ i \in DOMAIN log /\ i \in DOMAIN more
               /\ \A j \in 1..i : more[j] = log[j]
    BY <1>1
  <2>2. ASSUME NEW i \in 1..n
        PROVE  /\ Reads(more, i) <=> Reads(log, i)
               /\ Sets(more, i, c, k) <=> Sets(log, i, c, k)
               /\ more[i].op.doc = log[i].op.doc
    <3>1. more[i] = log[i]  BY <2>1
    <3>2. Reads(more, i) <=> Reads(log, i)  BY <2>1 DEF Reads
    <3> QED  BY <3>1, <3>2 DEF Sets
  <2> QED  BY <2>2
<1>3. \A i \in 1..n : \A j \in (i + 1)..n : j \in 1..n  BY <1>1
<1> QED  BY <1>2, <1>3 DEF Says

-----------------------------------------------------------------------------
(* What a step can do, by the phase of the process.                        *)
LEMMA NextCases ==
    ASSUME [Next]_vars
    PROVE  \/ \E t \in Threads : Request(t)
           \/ \E t \in Threads : Work(t)
           \/ \E t, u \in Threads : LogGarbled(t, u)
           \/ Shutdown \/ Restart \/ Recover \/ UNCHANGED vars
           \/ LoseMemory /\ UNCHANGED <<dirs, indexFiles>>
BY DEF Next, Crash, CrashInAppend

(* Only a process that serves, or is shutting down, carries out requests. *)
LEMMA AliveSteps ==
    ASSUME \/ \E t \in Threads : Request(t) \/ Work(t)
           \/ \E t, u \in Threads : LogGarbled(t, u)
           \/ Shutdown
    PROVE  Alive /\ phase' \in {"running", "stopped"}
<1>1. ASSUME NEW t \in Threads, Request(t)  PROVE phase = "running" /\ phase' = phase
  BY <1>1, RequestCases DEF CreateCollection, DeleteCollection, CreateIndex, Put, Delete,
     CommitTransaction, Accept, Ready
<1>2. ASSUME NEW t \in Threads, Work(t)  PROVE Alive /\ phase' = phase
  BY <1>2 DEF Work, Log, LogClosed, ApplyPut, ApplyPutFails, ApplyDelete, ApplyCreate,
     ApplyDrop, RemoveDirectory, Applying, Alive
<1>3. ASSUME NEW t \in Threads, NEW u \in Threads, LogGarbled(t, u)
      PROVE  phase = "running" /\ phase' = phase
  BY <1>3 DEF LogGarbled
<1>4. Shutdown => phase = "running" /\ phase' = "stopped"  BY DEF Shutdown
<1> QED  BY <1>1, <1>2, <1>3, <1>4 DEF Alive

-----------------------------------------------------------------------------
(* Recovery.  A name without a collection object holds no document.        *)
NoGhosts == \A c \in Collections : collections[c] = "none" => data[c] = Empty

Blank == phase = "down" => cursor = 1 /\ \A c \in Collections : collections[c] = "none"

(* Every record read so far could be read; a collection it creates is in   *)
(* memory; and one that is there with old indexes has them on disk.        *)
ReadSoFar ==
    phase = "recovering" =>
        /\ cursor <= Len(wal) + 1
        /\ \A j \in 1..(cursor - 1) : wal[j].readable
        /\ \A c \in Collections, j \in 1..(cursor - 1) :
               wal[j].op = CollectionOp("CREATE_COLLECTION", c) => Exists(c)
        /\ \A c \in Collections : collections[c] = "reloaded" => c \in indexFiles

ReplayInv ==
    TypeInv /\ NoGhosts /\ Blank /\ ReadSoFar /\ ReplayMatchesLog /\ FailureExplained

LEMMA ReplayInit == Init => ReplayInv
<1> SUFFICES ASSUME Init PROVE ReplayInv  OBVIOUS
<1>1. NoGhosts /\ Blank /\ ReadSoFar /\ FailureExplained
  BY DEF Init, NoGhosts, Blank, ReadSoFar, FailureExplained
<1>2. ASSUME NEW c \in Collections, NEW k \in Keys
      PROVE  LogSays(c, k, cursor - 1, Live(c, k))
  <2>1. cursor - 1 = 0 /\ Live(c, k) = Nothing
    BY ValuesAssumption DEF Init, Live, Empty
  <2> QED  BY <2>1, SaysNothing, SaysIsLogSays
<1> QED  BY <1>1, <1>2, TypeInit DEF ReplayInv, ReplayMatchesLog

(* What a write, a removal, or a new collection makes of the memory. *)
LEMMA NoGhostsNext == ASSUME TypeInv, NoGhosts, [Next]_vars PROVE NoGhosts'
<1> USE DEF NoGhosts
<1>1. CASE UNCHANGED store  BY <1>1
<1>2. ASSUME NEW d \in Collections, NEW k \in Keys, NEW v, Exists(d), UNCHANGED collections,
             data' = [data EXCEPT ![d][k] = v]
      PROVE  NoGhosts'
  BY <1>2 DEF Exists, TypeInv, TypeOK
<1>3. ASSUME NEW d, NEW v, collections' = [collections EXCEPT ![d] = v],
             data' = [data EXCEPT ![d] = Empty]
      PROVE  NoGhosts'
  BY <1>3 DEF TypeInv, TypeOK
<1>4. ASSUME UNCHANGED data,
             \A c \in Collections : collections'[c] = "none" => collections[c] = "none"
      PROVE  NoGhosts'
  BY <1>4
<1>5. ASSUME NEW t \in Threads, Work(t)  PROVE NoGhosts'
  <2>1. pc[t] # "idle" => CurrentOp(t) \in Ops  BY CurrentOpType
  <2>2. CASE ApplyPut(t)
    BY <1>2, <2>1, <2>2, DocOpFields DEF ApplyPut, Applying, AcceptsDocs, Exists
  <2>3. CASE ApplyDelete(t)
    BY <1>1, <1>2, <2>1, <2>3, DocOpFields DEF ApplyDelete, Applying
  <2>4. CASE ApplyCreate(t)  BY <1>3, <2>4 DEF ApplyCreate
  <2>5. CASE ApplyDrop(t)  BY <1>3, <2>5 DEF ApplyDrop
  <2>6. UNCHANGED store \/ ApplyPut(t) \/ ApplyDelete(t) \/ ApplyCreate(t) \/ ApplyDrop(t)
    BY <1>5 DEF Work, Log, LogClosed, ApplyPutFails, RemoveDirectory
  <2> QED  BY <1>1, <2>2, <2>3, <2>4, <2>5, <2>6
<1>6. CASE Recover
  <2>1. phase = "recovering" /\ cursor \in DOMAIN wal => wal[cursor].op \in Ops
    BY WalRecordType
  <2>2. CASE ReplayPut
    BY <1>2, <2>1, <2>2, DocOpFields DEF ReplayPut, Replaying, AcceptsDocs, Exists
  <2>3. CASE ReplayDelete
    BY <1>1, <1>2, <2>1, <2>3, DocOpFields DEF ReplayDelete, Replaying
  <2>4. CASE ReplayCreate
    BY <1>4, <2>4 DEF ReplayCreate, Exists, Fresh, TypeInv, TypeOK
  <2>5. CASE FinishRecovery
    BY <1>4, <2>5 DEF FinishRecovery, Exists, Fresh, TypeInv, TypeOK
  <2> QED
    BY <1>1, <1>6, <2>2, <2>3, <2>4, <2>5 DEF Recover, ReplayPutFails, ReplayDrop
<1>7. CASE LoseMemory  BY <1>7 DEF LoseMemory
<1>8. ASSUME NEW t \in Threads, Request(t)  PROVE NoGhosts'
  <2>1. ASSUME NEW c \in Collections, CreateIndex(t, c)  PROVE NoGhosts'
    BY <1>4, <2>1 DEF CreateIndex, TypeInv, TypeOK
  <2> QED
    BY <1>1, <1>8, <2>1, RequestCases DEF CreateCollection, DeleteCollection, Put, Delete,
       CommitTransaction, Accept
<1>9. (\E t, u \in Threads : LogGarbled(t, u)) \/ Shutdown \/ Restart => UNCHANGED store
  BY DEF LogGarbled, Shutdown, Restart
<1> QED  BY <1>1, <1>5, <1>6, <1>7, <1>8, <1>9, NextCases

(* A step of the replay keeps the memory equal to what the log says. *)
LEMMA ReplayStep ==
    ASSUME ReplayInv, TypeInv', Recover, phase' = "recovering"
    PROVE  ReplayMatchesLog'
<1> USE DEF ReplayInv
<1> DEFINE op == wal[cursor].op
<1>1. /\ phase = "recovering" /\ cursor' = cursor + 1 /\ UNCHANGED wal
      /\ cursor \in DOMAIN wal /\ wal[cursor].readable
      /\ ReplayPut \/ ReplayDelete \/ ReplayCreate \/ ReplayDrop
  BY DEF Recover, ReplayPut, ReplayPutFails, ReplayDelete, ReplayCreate, ReplayDrop,
     FinishRecovery, Replaying, Replayed
<1>2. /\ op \in Ops /\ cursor \in Nat \ {0} /\ cursor - 1 \in Nat /\ (cursor - 1) + 1 = cursor
      /\ cursor' - 1 = cursor
  BY <1>1, WalRecordType DEF TypeInv, TypeOK
<1>3. Reads(wal, cursor)
  BY <1>1, <1>2 DEF ReadSoFar, Reads
<1>4. ASSUME NEW c \in Collections, NEW k \in Keys
      PROVE  LogSays(c, k, cursor - 1, Live(c, k))'
  <2> SUFFICES Says(wal, c, k, cursor, Live(c, k)')
    BY <1>1, <1>2, SaysIsLogSays DEF LogSays, Says, Reads, Sets, Recoverable, Writes
  <2>1. Says(wal, c, k, cursor - 1, Live(c, k))
    BY <1>1, SaysIsLogSays DEF ReplayMatchesLog
  <2>2. CASE Sets(wal, cursor, c, k)
    <3>1. Says(wal, c, k, cursor, op.doc)  BY <1>2, <1>3, <2>2, SaysNew
    <3>2. Live(c, k)' = op.doc
      <4>1. op.type \in {"PUT", "DELETE"} /\ op.coll = c /\ op.key = k  BY <2>2 DEF Sets
      <4>2. CASE op.type = "PUT"
        <5>1. ReplayPut  BY <1>1, <4>2 DEF ReplayDelete, ReplayCreate, ReplayDrop, Replaying
        <5>2. data'[c][k] = op.doc  BY <4>1, <5>1 DEF ReplayPut, TypeInv, TypeOK
        <5> QED  BY <1>2, <4>2, <5>2, DocOpFields DEF Live
      <4>3. CASE op.type = "DELETE"
        <5>1. ReplayDelete  BY <1>1, <4>3 DEF ReplayPut, ReplayCreate, ReplayDrop, Replaying
        <5>2. op.doc = Nothing  BY <1>2, <4>3, DocOpFields
        <5>3. CASE Exists(c) /\ Live(c, k) # Nothing
          <6>1. data'[c][k] = Tombstone
            BY <4>1, <5>1, <5>3 DEF ReplayDelete, TypeInv, TypeOK
          <6> QED  BY <5>2, <6>1, ValuesAssumption DEF Live
        <5>4. CASE ~(Exists(c) /\ Live(c, k) # Nothing)
          <6>1. data' = data  BY <4>1, <5>1, <5>4 DEF ReplayDelete
          <6>2. ~Exists(c) => data[c][k] = Nothing
            BY DEF NoGhosts, Exists, Empty
          <6>3. Live(c, k) = Nothing  BY <5>4, <6>2, ValuesAssumption DEF Live
          <6> QED  BY <5>2, <6>1, <6>3 DEF Live
        <5> QED  BY <5>3, <5>4
      <4> QED  BY <4>1, <4>2, <4>3
    <3> QED  BY <3>1, <3>2
  <2>3. CASE ~Sets(wal, cursor, c, k)
    <3>1. Says(wal, c, k, cursor, Live(c, k))  BY <1>2, <2>1, <2>3, SaysSame
    <3>2. data'[c][k] = data[c][k]
      <4>1. op.type \in {"PUT", "DELETE"} => op.coll # c \/ op.key # k
        BY <2>3 DEF Sets
      <4>2. op.coll \in Collections  BY <1>2, DocOpFields
      <4>3. ReplayPut => data' = [data EXCEPT ![op.coll][op.key] = op.doc]
        BY DEF ReplayPut
      <4>4. ReplayDelete => \/ data' = [data EXCEPT ![op.coll][op.key] = Tombstone]
                            \/ data' = data
        BY DEF ReplayDelete
      <4>5. ReplayPut => op.type = "PUT"  BY DEF ReplayPut, Replaying
      <4>6. ReplayDelete => op.type = "DELETE"  BY DEF ReplayDelete, Replaying
      <4>7. ReplayCreate \/ ReplayDrop => data' = data  BY DEF ReplayCreate, ReplayDrop
      <4>8. data \in [Collections -> [Keys -> Values]]  BY DEF TypeInv, TypeOK
      <4>9. ASSUME NEW v, data' = [data EXCEPT ![op.coll][op.key] = v], op.coll # c \/ op.key # k
            PROVE  data'[c][k] = data[c][k]
        <5> HIDE DEF op
        <5> QED  BY <4>2, <4>8, <4>9
      <4> QED
        <5> HIDE DEF op
        <5> QED  BY <1>1, <4>1, <4>3, <4>4, <4>5, <4>6, <4>7, <4>9
    <3> QED  BY <3>1, <3>2 DEF Live
  <2> QED  BY <2>2, <2>3
<1> QED  BY <1>4 DEF ReplayMatchesLog

(* A process that begins to recover has read nothing. *)
LEMMA ReplayBegins ==
    ASSUME ReplayInv, Restart
    PROVE  ReplayMatchesLog' /\ ReadSoFar'
<1>1. /\ cursor' = 1 /\ \A c \in Collections : collections'[c] = "none" /\ data'[c] = Empty
  BY DEF ReplayInv, Restart, Blank, NoGhosts
<1>2. ASSUME NEW c \in Collections, NEW k \in Keys
      PROVE  LogSays(c, k, cursor - 1, Live(c, k))'
  <2>1. cursor' - 1 = 0 /\ Live(c, k)' = Nothing
    BY <1>1, ValuesAssumption DEF Live, Empty
  <2> QED  BY <2>1, SaysNothing DEF LogSays, Says, Reads, Sets, Recoverable, Writes
<1>3. ReadSoFar'
  <2>1. Len(wal') \in Nat  BY DEF ReplayInv, Restart, TypeInv, TypeOK
  <2> QED  BY <1>1, <2>1 DEF ReadSoFar
<1> QED  BY <1>2, <1>3 DEF ReplayMatchesLog

(* A step of the replay reads one more record. *)
LEMMA ReadStep ==
    ASSUME ReplayInv, TypeInv', Recover, phase' = "recovering"
    PROVE  ReadSoFar'
<1> USE DEF ReplayInv
<1>1. /\ phase = "recovering" /\ cursor' = cursor + 1 /\ UNCHANGED <<wal, indexFiles>>
      /\ cursor \in DOMAIN wal /\ wal[cursor].readable
      /\ ReplayPut \/ ReplayDelete \/ ReplayCreate \/ ReplayDrop
  BY DEF Recover, ReplayPut, ReplayPutFails, ReplayDelete, ReplayCreate, ReplayDrop,
     FinishRecovery, Replaying, Replayed
<1>2. /\ cursor \in Nat \ {0} /\ Len(wal) \in Nat /\ DOMAIN wal = 1..Len(wal)
      /\ wal[cursor].op \in Ops
  BY <1>1, WalRecordType DEF TypeInv, TypeOK
<1>3. cursor' <= Len(wal) + 1 /\ \A j \in 1..(cursor' - 1) : wal[j].readable
  BY <1>1, <1>2 DEF ReadSoFar
<1>4. ASSUME NEW c \in Collections
      PROVE  /\ Exists(c) => Exists(c)'
             /\ wal[cursor].op = CollectionOp("CREATE_COLLECTION", c) => Exists(c)'
             /\ collections'[c] = "reloaded" => collections[c] = "reloaded" \/ c \in indexFiles
  <2>1. CASE ReplayCreate
    BY <1>2, <2>1 DEF ReplayCreate, Exists, Fresh, CollectionOp, TypeInv, TypeOK
  <2>2. CASE UNCHANGED collections /\ ~ReplayCreate
    <3>1. wal[cursor].op.type # "CREATE_COLLECTION"
      BY <1>1, <2>2 DEF ReplayPut, ReplayDelete, ReplayDrop, Replaying
    <3> QED  BY <2>2, <3>1 DEF Exists, CollectionOp
  <2> QED  BY <1>1, <2>1, <2>2 DEF ReplayPut, ReplayDelete, ReplayDrop
<1>5. ASSUME NEW c \in Collections, NEW j \in 1..(cursor' - 1),
             wal[j].op = CollectionOp("CREATE_COLLECTION", c)
      PROVE  Exists(c)'
  <2>1. j = cursor \/ j \in 1..(cursor - 1)  BY <1>1, <1>2
  <2> QED  BY <1>1, <1>4, <1>5, <2>1 DEF ReadSoFar
<1>6. \A c \in Collections : collections'[c] = "reloaded" => c \in indexFiles
  BY <1>1, <1>4 DEF ReadSoFar
<1> QED  BY <1>1, <1>3, <1>5, <1>6 DEF ReadSoFar

(* A replay that fails has one of the two causes. *)
LEMMA ReplayFails ==
    ASSUME ReplayInv, ReplayPutFails
    PROVE  FailureExplained'
<1> USE DEF ReplayInv
<1> DEFINE c == wal[cursor].op.coll
<1>1. /\ phase = "recovering" /\ UNCHANGED <<wal, cursor, indexFiles>>
      /\ cursor \in DOMAIN wal /\ wal[cursor].readable /\ wal[cursor].op.type = "PUT"
      /\ ~AcceptsDocs(c)
  BY DEF ReplayPutFails, Replaying
<1>2. c \in Collections /\ collections[c] \in {"none", "reloaded"}
  BY <1>1, WalRecordType, DocOpFields DEF AcceptsDocs, TypeInv, TypeOK, CollectionStates
<1>3. Recoverable(cursor)
  BY <1>1 DEF ReadSoFar, Recoverable, TypeInv, TypeOK
<1>4. \/ c \in indexFiles
      \/ \A i \in 1..(cursor - 1) : wal[i].op # CollectionOp("CREATE_COLLECTION", c)
  BY <1>1, <1>2 DEF ReadSoFar, Exists
<1> QED  BY <1>1, <1>3, <1>4 DEF FailureExplained, Recoverable

LEMMA ReplayNext == ASSUME ReplayInv, [Next]_vars PROVE ReplayInv'
<1> USE DEF ReplayInv
<1>1. TypeInv' /\ NoGhosts'  BY TypeNext, NoGhostsNext
<1>2. ASSUME phase' \notin {"down", "recovering", "failed"}  PROVE ReplayInv'
  BY <1>1, <1>2 DEF Blank, ReadSoFar, ReplayMatchesLog, FailureExplained
<1>3. CASE LoseMemory
  BY <1>1, <1>3 DEF LoseMemory, Blank, ReadSoFar, ReplayMatchesLog, FailureExplained
<1>4. CASE Restart
  BY <1>1, <1>4, ReplayBegins DEF Restart, Blank, FailureExplained
<1>5. CASE Recover
  <2>1. phase' \in {"recovering", "running", "failed"}
    BY <1>5 DEF Recover, ReplayPut, ReplayPutFails, ReplayDelete, ReplayCreate, ReplayDrop,
       FinishRecovery, Replaying, Replayed
  <2>2. CASE phase' = "recovering"
    BY <1>1, <1>5, <2>2, ReplayStep, ReadStep DEF Blank, FailureExplained
  <2>3. CASE phase' = "failed"
    <3>1. ReplayPutFails
      BY <1>5, <2>3 DEF Recover, ReplayPut, ReplayDelete, ReplayCreate, ReplayDrop,
         FinishRecovery, Replaying, Replayed
    <3> QED  BY <1>1, <2>3, <3>1, ReplayFails DEF Blank, ReadSoFar, ReplayMatchesLog
  <2> QED  BY <1>2, <2>1, <2>2, <2>3
<1>6. CASE UNCHANGED vars
  BY <1>1, <1>6 DEF Blank, ReadSoFar, ReplayMatchesLog, FailureExplained, LogSays, Recoverable,
     Writes, Live, Exists
<1>7. CASE phase' \in {"running", "stopped"}  BY <1>2, <1>7
<1> QED  BY <1>3, <1>4, <1>5, <1>6, <1>7, NextCases, AliveSteps

LEMMA ReplayInvariant == Spec => []ReplayInv
<1> QED  BY ReplayInit, ReplayNext, PTL DEF Spec

(* recover rebuilds from the records it has read exactly the documents the *)
(* last of them says, whatever clients did before and however often the    *)
(* process was killed, in the middle of a recovery or of a record.         *)
THEOREM ReplayFollowsLog == Spec => []ReplayMatchesLog
<1>1. ReplayInv => ReplayMatchesLog  BY DEF ReplayInv
<1> QED  BY <1>1, ReplayInvariant, PTL

(* The exception that ends a restart has no other cause than a document    *)
(* before the creation of its collection, or indexes saved on disk.        *)
THEOREM FailuresAreExplained == Spec => []FailureExplained
<1>1. ReplayInv => FailureExplained  BY DEF ReplayInv
<1> QED  BY <1>1, ReplayInvariant, PTL

-----------------------------------------------------------------------------
(* Clients the engine is good enough for: they write to collections that   *)
(* exist, each to keys of its own, they drop and index none, one of them   *)
(* creates them; and appends neither garble each other nor are cut short.  *)
OrderlyClients ==
    /\ ~StrayWrites /\ ~TornWrites /\ ~RacyAppends
    /\ Requests \cap {"drop", "index"} = {}
    /\ \A t, u \in Threads : t # u => KeysOf[t] \cap KeysOf[u] = {}
    /\ \A t, u \in Admins : t = u

(* What is proved above, of all of which the following makes use. *)
Sound == RecoveryInv /\ ReplayInv /\ CommitInv

LEMMA SoundInvariant == ASSUME OrderlyClients PROVE Spec => []Sound
<1>1. CommitInv /\ [Next]_vars => CommitInv'  BY CommitNext
<1>2. Spec => []CommitInv  BY <1>1, CommitInit, PTL DEF Spec
<1>3. Spec => []RecoveryInv  BY RecoveryInvariant DEF OrderlyClients
<1>4. RecoveryInv /\ ReplayInv /\ CommitInv => Sound  BY DEF Sound
<1> QED  BY <1>2, <1>3, <1>4, ReplayInvariant, PTL

(* The work of a thread: writes to its own keys of collections there are,  *)
(* or the creation of one that is not there yet.                           *)
DocWork(t, work) ==
    /\ work \in Seq(DocOps)
    /\ \A i \in DOMAIN work :
           work[i].key \in KeysOf[t] /\ (work[i].type = "PUT" => Exists(work[i].coll))
CreateWork(t, work) ==
    /\ t \in Admins
    /\ \E c \in Collections : ~Exists(c) /\ work = <<CollectionOp("CREATE_COLLECTION", c)>>
GoodWork(t, work) == DocWork(t, work) \/ CreateWork(t, work)

AtWork ==
    \A t \in Threads : /\ GoodWork(t, todo[t])
                       /\ pc[t] # "rmdir" /\ (pc[t] = "idle" => todo[t] = <<>>)

(* A transaction buffers documents of collections there are. *)
GoodBuffers ==
    \A tid \in Tids : \A i \in DOMAIN ops[tid] :
        ops[tid][i].type = "PUT" => Exists(ops[tid][i].coll)

(* A process that does not serve has no work. *)
AtRest ==
    ~Alive => /\ \A t \in Threads : todo[t] = <<>> /\ answer[t] = "none"
              /\ \A tid \in Tids : ops[tid] = <<>>

AllReadable == \A i \in DOMAIN wal : wal[i].readable

(* A write that a thread is about to apply is the last the log has for its *)
(* key.                                                                    *)
LastLogged ==
    \A t \in Threads : pc[t] = "apply" /\ CurrentOp(t) \in DocOps =>
        LogSays(CurrentOp(t).coll, CurrentOp(t).key, Len(wal), CurrentOp(t).doc)

MemoryIsLog ==
    Alive => \A c \in Collections, k \in Keys :
                 InFlight(c, k) \/ LogSays(c, k, Len(wal), Live(c, k))

MemoryInv == AtWork /\ GoodBuffers /\ AtRest /\ AllReadable /\ LastLogged /\ MemoryIsLog

(* What orderly clients cannot bring about. *)
LEMMA OrderlyCases ==
    ASSUME [Next]_vars, OrderlyClients
    PROVE  \/ \E t \in Threads : Request(t) \/ Work(t)
           \/ Shutdown \/ Restart \/ Recover \/ UNCHANGED vars
           \/ LoseMemory /\ UNCHANGED disk
BY DEF Next, Crash, CrashInAppend, LogGarbled, OrderlyClients

LEMMA EmptyIsGood == ASSUME NEW t PROVE GoodWork(t, <<>>)
BY DEF GoodWork, DocWork

(* What is left of good work is good. *)
LEMMA RestIsGood ==
    ASSUME NEW t, NEW work, GoodWork(t, work), work # <<>>
    PROVE  GoodWork(t, Tail(work))
<1>1. CASE DocWork(t, work)
  <2>1. work \in Seq(DocOps)  BY <1>1 DEF DocWork
  <2>2. \A i \in DOMAIN Tail(work) : i + 1 \in DOMAIN work /\ Tail(work)[i] = work[i + 1]
    BY <2>1, TailElements
  <2>3. Tail(work) \in Seq(DocOps)  BY <2>1, HeadTail
  <2> QED  BY <1>1, <2>2, <2>3 DEF DocWork, GoodWork
<1>2. CASE CreateWork(t, work)
  <2>1. PICK op : work = <<op>>  BY <1>2 DEF CreateWork
  <2>2. Tail(work) = <<>>  BY <2>1
  <2> QED  BY <2>2, EmptyIsGood
<1> QED  BY <1>1, <1>2 DEF GoodWork

(* What a thread with good work does next. *)
LEMMA GoodOp ==
    ASSUME Sound, AtWork, NEW t \in Threads, pc[t] # "idle"
    PROVE  LET op == CurrentOp(t) IN
           \/ op \in DocOps /\ op.key \in KeysOf[t] /\ (op.type = "PUT" => AcceptsDocs(op.coll))
           \/ /\ t \in Admins /\ ~Exists(op.coll) /\ op.coll \in Collections
              /\ op = CollectionOp("CREATE_COLLECTION", op.coll) /\ todo[t] = <<op>>
<1>1. todo[t] # <<>> /\ todo[t] \in Seq(Ops) /\ CurrentOp(t) \in Ops
  BY CurrentOpType DEF Sound, RecoveryInv, TypeInv, TypeOK, BusyHasWork
<1>2. 1 \in DOMAIN todo[t] /\ CurrentOp(t) = todo[t][1]  BY <1>1 DEF CurrentOp
<1>3. CASE DocWork(t, todo[t])
  <2>1. CurrentOp(t) \in DocOps /\ CurrentOp(t).key \in KeysOf[t]
        /\ (CurrentOp(t).type = "PUT" => Exists(CurrentOp(t).coll))
    BY <1>2, <1>3, ElementOfSeq, LenProperties DEF DocWork
  <2>2. CurrentOp(t).coll \in Collections  BY <1>1, DocOpFields
  <2> QED  BY <2>1, <2>2 DEF Sound, RecoveryInv, NoIndexes, AcceptsDocs, Exists
<1>4. CASE CreateWork(t, todo[t])
  <2>1. PICK c \in Collections :
            ~Exists(c) /\ todo[t] = <<CollectionOp("CREATE_COLLECTION", c)>> /\ t \in Admins
    BY <1>4 DEF CreateWork
  <2>2. CurrentOp(t) = CollectionOp("CREATE_COLLECTION", c) /\ CurrentOp(t).coll = c
    BY <2>1 DEF CurrentOp, CollectionOp
  <2> QED  BY <2>1, <2>2
<1> QED  BY <1>3, <1>4 DEF AtWork, GoodWork

(* So none of the steps that lose a record's effect is ever taken. *)
LEMMA WorkCases ==
    ASSUME Sound, AtWork, NEW t \in Threads, Work(t)
    PROVE  Log(t) \/ LogClosed(t) \/ ApplyPut(t) \/ ApplyDelete(t) \/ ApplyCreate(t)
<1>1. ~RemoveDirectory(t)  BY DEF AtWork, RemoveDirectory
<1>2. ~ApplyDrop(t)
  <2>1. pc[t] = "apply" => CurrentOp(t).type # "DELETE_COLLECTION"
    BY GoodOp DEF DocOps, CollectionOp
  <2> QED  BY <2>1 DEF ApplyDrop, Applying
<1>3. ~ApplyPutFails(t)
  <2>1. pc[t] = "apply" /\ CurrentOp(t).type = "PUT" => AcceptsDocs(CurrentOp(t).coll)
    BY GoodOp DEF CollectionOp
  <2> QED  BY <2>1 DEF ApplyPutFails, Applying
<1> QED  BY <1>1, <1>2, <1>3 DEF Work

(* A request gives the thread good work, or none. *)
LEMMA RequestWork ==
    ASSUME Sound, MemoryInv, OrderlyClients, NEW t \in Threads, Request(t)
    PROVE  /\ phase = "running" /\ UNCHANGED <<disk, server, store>>
           /\ \/ UNCHANGED <<pc, todo>>
              \/ /\ pc[t] = "idle"
                 /\ \E work : /\ GoodWork(t, work) /\ work # <<>>
                              /\ pc' = [pc EXCEPT ![t] = "log"]
                              /\ todo' = [todo EXCEPT ![t] = work]
<1>1. ASSUME NEW kind, NEW work, Accept(t, kind, work), GoodWork(t, work), work # <<>>
      PROVE  /\ phase = "running" /\ UNCHANGED <<disk, server, store>>
             /\ pc[t] = "idle"
             /\ \E w : /\ GoodWork(t, w) /\ w # <<>>
                       /\ pc' = [pc EXCEPT ![t] = "log"]
                       /\ todo' = [todo EXCEPT ![t] = w]
  BY <1>1 DEF Accept, Ready
<1>2. ASSUME NEW c \in Collections, CreateCollection(t, c)
      PROVE  \E work, kind : Accept(t, kind, work) /\ GoodWork(t, work) /\ work # <<>>
  BY <1>2 DEF CreateCollection, GoodWork, CreateWork
<1>3. ASSUME NEW op \in DocOps, MayWrite(t, op.coll, op.key)
      PROVE  GoodWork(t, <<op>>) /\ <<op>> # <<>>
  <2>1. <<op>> \in Seq(DocOps) /\ DOMAIN <<op>> = {1} /\ <<op>>[1] = op  BY SingletonSeq
  <2>2. op.key \in KeysOf[t] /\ Exists(op.coll)  BY <1>3 DEF MayWrite, OrderlyClients
  <2> QED  BY <2>1, <2>2 DEF GoodWork, DocWork
<1>4. ASSUME NEW c \in Collections, NEW k \in Keys,
             (\E d \in Docs : Put(t, c, k, d)) \/ Delete(t, c, k)
      PROVE  \E work, kind : Accept(t, kind, work) /\ GoodWork(t, work) /\ work # <<>>
  <2>1. ASSUME NEW d \in Docs, Put(t, c, k, d)
        PROVE  \E work, kind : Accept(t, kind, work) /\ GoodWork(t, work) /\ work # <<>>
    <3>1. /\ PutOp(c, k, d) \in DocOps
          /\ PutOp(c, k, d).coll = c /\ PutOp(c, k, d).key = k
      BY DEF PutOp, DocOps
    <3> QED  BY <1>3, <2>1, <3>1, Zenon DEF Put
  <2>2. ASSUME Delete(t, c, k)
        PROVE  \E work, kind : Accept(t, kind, work) /\ GoodWork(t, work) /\ work # <<>>
    <3>1. /\ DeleteOp(c, k) \in DocOps
          /\ DeleteOp(c, k).coll = c /\ DeleteOp(c, k).key = k
      BY DEF DeleteOp, DocOps
    <3> QED  BY <1>3, <2>2, <3>1, Zenon DEF Delete
  <2> QED  BY <1>4, <2>1, <2>2
<1>5. ASSUME NEW tid \in Tids, CommitTransaction(t, tid)
      PROVE  Accept(t, "txn", ops[tid]) /\ GoodWork(t, ops[tid]) /\ ops[tid] # <<>>
  <2>1. ops[tid] \in Seq(DocOps)  BY DEF Sound, RecoveryInv, TypeInv, TypeOK
  <2> QED  BY <1>5, <2>1 DEF CommitTransaction, GoodWork, DocWork, MemoryInv, GoodBuffers
<1>6. ASSUME NEW c \in Collections  PROVE ~DeleteCollection(t, c) /\ ~CreateIndex(t, c)
  BY DEF DeleteCollection, CreateIndex, Accept, Ready, OrderlyClients
<1> QED  BY <1>1, <1>2, <1>4, <1>5, <1>6, RequestCases

(* A thread's own steps leave the others' work alone. *)
LEMMA WorkThreads ==
    ASSUME Sound, NEW t \in Threads,
           Log(t) \/ LogClosed(t) \/ ApplyPut(t) \/ ApplyDelete(t) \/ ApplyCreate(t)
    PROVE  /\ pc[t] # "idle" /\ todo[t] # <<>>
           /\ \A u \in Threads \ {t} : pc'[u] = pc[u] /\ todo'[u] = todo[u]
           /\ \/ Log(t)
              \/ pc'[t] = "idle" /\ todo'[t] = <<>>
              \/ pc'[t] = "log" /\ todo'[t] = Tail(todo[t])
<1> USE DEF Sound, RecoveryInv, TypeInv, TypeOK
<1>1. pc[t] # "idle" /\ todo[t] # <<>>
  BY DEF Log, LogClosed, ApplyPut, ApplyDelete, ApplyCreate, Applying, BusyHasWork
<1>2. CASE Log(t)  BY <1>1, <1>2 DEF Log
<1>3. CASE Fail(t)  BY <1>1, <1>3 DEF Fail
<1>4. ASSUME NEW result, Advance(t, result)
      PROVE  /\ \A u \in Threads \ {t} : pc'[u] = pc[u] /\ todo'[u] = todo[u]
             /\ \/ pc'[t] = "idle" /\ todo'[t] = <<>>
                \/ pc'[t] = "log" /\ todo'[t] = Tail(todo[t])
  BY <1>4 DEF Advance
<1> QED  BY <1>1, <1>2, <1>3, <1>4 DEF LogClosed, ApplyPut, ApplyDelete, ApplyCreate

(* What collections there are: more or less only where the process stops,  *)
(* a creation is applied, or a log is replayed.                            *)
LEMMA AtWorkNext ==
    ASSUME Sound, TypeInv', MemoryInv, OrderlyClients, [Next]_vars
    PROVE  AtWork'
<1> USE DEF MemoryInv
<1> DEFINE Doing(t) == /\ GoodWork(t, todo[t])
                       /\ pc[t] # "rmdir" /\ (pc[t] = "idle" => todo[t] = <<>>)
<1>1. ASSUME NEW t, NEW work, DocWork(t, work),
             \A c \in Collections : Exists(c) => Exists(c)'
      PROVE  GoodWork(t, work)'
  <2>1. \A i \in DOMAIN work : work[i].coll \in Collections
    <3>1. work \in Seq(DocOps)  BY <1>1 DEF DocWork
    <3>2. \A i \in DOMAIN work : work[i] \in DocOps  BY <3>1, ElementOfSeq, LenProperties
    <3> QED  BY <3>2 DEF DocOps
  <2> QED  BY <1>1, <2>1 DEF GoodWork, DocWork
<1>2. ASSUME NEW t, NEW work, GoodWork(t, work), UNCHANGED collections
      PROVE  GoodWork(t, work)'
  BY <1>2 DEF GoodWork, DocWork, CreateWork, Exists
<1>3. ASSUME NEW t \in Threads, todo'[t] = <<>>, pc'[t] # "rmdir"  PROVE Doing(t)'
  BY <1>3 DEF GoodWork, DocWork
<1>4. ASSUME NEW t \in Threads, todo'[t] = todo[t], pc'[t] = pc[t], UNCHANGED collections
      PROVE  Doing(t)'
  BY <1>2, <1>4 DEF AtWork
<1>5. ASSUME NEW t \in Threads, Request(t)  PROVE AtWork'
  <2>1. CASE UNCHANGED <<pc, todo>>
    <3>1. UNCHANGED collections  BY <1>5, RequestWork
    <3> QED  BY <1>4, <2>1, <3>1 DEF AtWork
  <2>2. ASSUME NEW work, GoodWork(t, work), pc' = [pc EXCEPT ![t] = "log"],
               todo' = [todo EXCEPT ![t] = work]
        PROVE  AtWork'
    <3>1. UNCHANGED collections  BY <1>5, RequestWork
    <3>2. /\ pc'[t] = "log" /\ todo'[t] = work
          /\ \A u \in Threads \ {t} : pc'[u] = pc[u] /\ todo'[u] = todo[u]
      BY <2>2 DEF Sound, RecoveryInv, TypeInv, TypeOK
    <3>3. Doing(t)'  BY <1>2, <2>2, <3>1, <3>2
    <3> QED  BY <1>4, <3>1, <3>2, <3>3 DEF AtWork
  <2> QED  BY <1>5, <2>1, <2>2, RequestWork
<1>6. ASSUME NEW t \in Threads, Work(t)  PROVE AtWork'
  <2>1. Log(t) \/ LogClosed(t) \/ ApplyPut(t) \/ ApplyDelete(t) \/ ApplyCreate(t)
    BY <1>6, WorkCases
  <2>2. /\ pc[t] # "idle" /\ todo[t] # <<>>
        /\ \A u \in Threads \ {t} : pc'[u] = pc[u] /\ todo'[u] = todo[u]
        /\ \/ Log(t)
           \/ pc'[t] = "idle" /\ todo'[t] = <<>>
           \/ pc'[t] = "log" /\ todo'[t] = Tail(todo[t])
    BY <2>1, WorkThreads
  <2>3. CASE UNCHANGED collections
    <3>1. Log(t) => Doing(t)'
      <4>1. Log(t) => pc'[t] = "apply" /\ todo'[t] = todo[t]
        BY DEF Log, Sound, RecoveryInv, TypeInv, TypeOK
      <4> QED  BY <1>2, <2>3, <4>1 DEF AtWork
    <3>2. todo'[t] = Tail(todo[t]) => GoodWork(t, todo[t])'
      <4>1. GoodWork(t, Tail(todo[t]))  BY <2>2, RestIsGood DEF AtWork
      <4> QED  BY <1>2, <2>3, <4>1
    <3> QED  BY <1>3, <1>4, <2>2, <2>3, <3>1, <3>2 DEF AtWork
  <2>4. CASE ApplyCreate(t)
    <3>1. pc[t] = "apply" /\ CurrentOp(t).type = "CREATE_COLLECTION"
      BY <2>4 DEF ApplyCreate, Applying
    <3>2. t \in Admins /\ todo[t] = <<CurrentOp(t)>>
      BY <3>1, GoodOp DEF DocOps
    <3>3. Tail(todo[t]) = <<>>  BY <3>2
    <3>4. \A c \in Collections : Exists(c) => Exists(c)'
      BY <2>4 DEF ApplyCreate, Exists, Fresh, Sound, RecoveryInv, TypeInv, TypeOK
    <3>5. \A u \in Threads \ {t} : DocWork(u, todo[u])
      BY <3>2 DEF AtWork, GoodWork, CreateWork, OrderlyClients
    <3>6. \A u \in Threads \ {t} : Doing(u)'
      BY <1>1, <2>2, <3>4, <3>5 DEF AtWork
    <3>7. ~Log(t)  BY <3>1 DEF Log
    <3> QED  BY <1>3, <2>2, <3>3, <3>6, <3>7, EmptyIsGood DEF AtWork
  <2> QED
    BY <2>1, <2>3, <2>4 DEF Log, LogClosed, ApplyPut, ApplyDelete
<1>7. CASE Recover \/ Restart
  <2>1. ~Alive /\ UNCHANGED <<pc, todo>>
    BY <1>7 DEF Restart, Recover, ReplayPut, ReplayPutFails, ReplayDelete, ReplayCreate,
       ReplayDrop, FinishRecovery, Replaying, Replayed, Alive
  <2> QED  BY <1>3, <2>1 DEF AtWork, AtRest
<1>8. CASE LoseMemory  BY <1>3, <1>8 DEF LoseMemory, AtWork
<1>9. CASE UNCHANGED <<pc, todo, collections>>  BY <1>4, <1>9 DEF AtWork
<1> QED  BY <1>5, <1>6, <1>7, <1>8, <1>9, OrderlyCases DEF Shutdown

LEMMA AtRestNext ==
    ASSUME Sound, TypeInv', MemoryInv, OrderlyClients, [Next]_vars
    PROVE  AtRest'
<1> USE DEF MemoryInv
<1>1. CASE \/ \E t \in Threads : Request(t) \/ Work(t)
           \/ Shutdown
  <2>1. phase' \in {"running", "stopped"}  BY <1>1, AliveSteps
  <2> QED  BY <2>1 DEF AtRest, Alive
<1>2. CASE Recover \/ Restart
  <2>1. ~Alive /\ UNCHANGED <<pc, todo, ops, answer>>
    BY <1>2 DEF Restart, Recover, ReplayPut, ReplayPutFails, ReplayDelete, ReplayCreate,
       ReplayDrop, FinishRecovery, Replaying, Replayed, Alive
  <2> QED  BY <2>1 DEF AtRest
<1>3. CASE LoseMemory  BY <1>3 DEF LoseMemory, AtRest
<1>4. CASE UNCHANGED vars  BY <1>4 DEF AtRest, Alive
<1> QED  BY <1>1, <1>2, <1>3, <1>4, OrderlyCases

(* While the process lives, a collection stays. *)
LEMMA GoodBuffersNext ==
    ASSUME Sound, TypeInv', MemoryInv, OrderlyClients, [Next]_vars
    PROVE  GoodBuffers'
<1> USE DEF MemoryInv
<1> DEFINE Fine(tid) == \A i \in DOMAIN ops[tid] :
                            ops[tid][i].type = "PUT" => Exists(ops[tid][i].coll)
<1>1. ASSUME NEW tid \in Tids, ops'[tid] = ops[tid],
             \A c \in Collections : Exists(c) => Exists(c)'
      PROVE  Fine(tid)'
  <2>1. ops[tid] \in Seq(DocOps)  BY DEF Sound, RecoveryInv, TypeInv, TypeOK
  <2>2. \A i \in DOMAIN ops[tid] : ops[tid][i] \in DocOps
    BY <2>1, ElementOfSeq, LenProperties
  <2>3. \A i \in DOMAIN ops[tid] : ops[tid][i].coll \in Collections  BY <2>2 DEF DocOps
  <2> QED  BY <1>1, <2>3 DEF GoodBuffers
<1>2. ASSUME NEW tid \in Tids, ops'[tid] = <<>>  PROVE Fine(tid)'  BY <1>2
<1>3. ASSUME NEW t \in Threads, NEW tid \in Tids, NEW op \in DocOps, AddOperation(t, tid, op)
      PROVE  GoodBuffers'
  <2>1. Exists(op.coll)  BY <1>3 DEF AddOperation, MayWrite, OrderlyClients
  <2>2. /\ ops[tid] \in Seq(DocOps) /\ ops'[tid] = Append(ops[tid], op)
        /\ \A i \in Tids \ {tid} : ops'[i] = ops[i]
        /\ UNCHANGED collections
    BY <1>3 DEF AddOperation, Sound, RecoveryInv, TypeInv, TypeOK
  <2>3. \A i \in DOMAIN ops'[tid] :
            ops'[tid][i] = op \/ (i \in DOMAIN ops[tid] /\ ops'[tid][i] = ops[tid][i])
    <3>1. \A i \in DOMAIN Append(ops[tid], op) :
              \/ Append(ops[tid], op)[i] = op
              \/ i \in DOMAIN ops[tid] /\ Append(ops[tid], op)[i] = ops[tid][i]
      BY <1>3, <2>2
    <3> QED  BY <2>2, <3>1, Zenon
  <2>4. Fine(tid)'  BY <2>1, <2>2, <2>3 DEF GoodBuffers, Exists
  <2> QED  BY <1>1, <2>2, <2>4 DEF GoodBuffers, Exists
<1> HIDE DEF Fine
<1>4. ASSUME NEW t \in Threads, Request(t)  PROVE GoodBuffers'
  <2>1. UNCHANGED collections  BY <1>4, RequestWork
  <2>2. ASSUME NEW tid \in Tids, NEW c \in Collections, NEW k \in Keys,
               \/ \E d \in Docs : AddOperation(t, tid, PutOp(c, k, d))
               \/ AddOperation(t, tid, DeleteOp(c, k))
        PROVE  GoodBuffers'
    BY <1>3, <2>2 DEF PutOp, DeleteOp, DocOps
  <2>3. CASE \A tid \in Tids : ops'[tid] = ops[tid] \/ ops'[tid] = <<>>
    <3>1. \A tid \in Tids : Fine(tid)'  BY <1>1, <1>2, <2>1, <2>3 DEF Exists
    <3> QED  BY <3>1 DEF GoodBuffers, Fine
  <2>4. BeginTransaction(t) => \A tid \in Tids : ops'[tid] = ops[tid] \/ ops'[tid] = <<>>
    BY DEF BeginTransaction, Sound, RecoveryInv, TypeInv, TypeOK
  <2>5. ASSUME NEW tid \in Tids, RollbackTransaction(t, tid)
        PROVE  \A x \in Tids : ops'[x] = ops[x] \/ ops'[x] = <<>>
    BY <2>5 DEF RollbackTransaction, Sound, RecoveryInv, TypeInv, TypeOK
  <2>6. UNCHANGED ops \/ BeginTransaction(t)
        \/ \E tid \in Tids : RollbackTransaction(t, tid)
             \/ \E c \in Collections, k \in Keys :
                   \/ \E d \in Docs : AddOperation(t, tid, PutOp(c, k, d))
                   \/ AddOperation(t, tid, DeleteOp(c, k))
    BY <1>4 DEF Request, CreateCollection, DeleteCollection, CreateIndex, Put, Delete, Get,
       CommitEmpty, CommitTransaction, TxnGet, Accept
  <2>7. UNCHANGED ops => GoodBuffers'  BY <2>3
  <2> HIDE DEF Fine
  <2> QED  BY <2>2, <2>3, <2>4, <2>5, <2>6, <2>7
<1>5. ASSUME NEW t \in Threads, Work(t)  PROVE GoodBuffers'
  <2>1. Log(t) \/ LogClosed(t) \/ ApplyPut(t) \/ ApplyDelete(t) \/ ApplyCreate(t)
    BY <1>5, WorkCases
  <2>2. UNCHANGED ops
    BY <2>1 DEF Log, LogClosed, Fail, ApplyPut, ApplyDelete, ApplyCreate, Advance
  <2>3. \A c \in Collections : Exists(c) => Exists(c)'
    BY <2>1 DEF Log, LogClosed, ApplyPut, ApplyDelete, ApplyCreate, Exists, Fresh,
       Sound, RecoveryInv, TypeInv, TypeOK
  <2>4. \A tid \in Tids : Fine(tid)'  BY <1>1, <2>2, <2>3
  <2> QED  BY <2>4 DEF GoodBuffers, Fine
<1>6. CASE Recover \/ Restart
  <2>1. ~Alive /\ UNCHANGED <<pc, todo, ops, answer>>
    BY <1>6 DEF Restart, Recover, ReplayPut, ReplayPutFails, ReplayDelete, ReplayCreate,
       ReplayDrop, FinishRecovery, Replaying, Replayed, Alive
  <2> QED  BY <2>1 DEF AtRest, GoodBuffers
<1>7. CASE LoseMemory  BY <1>7 DEF LoseMemory, GoodBuffers
<1>8. CASE UNCHANGED <<ops, collections>>  BY <1>8 DEF GoodBuffers, Exists
<1> QED  BY <1>4, <1>5, <1>6, <1>7, <1>8, OrderlyCases DEF Shutdown


(* A record decides what the log says of its key, and of no other. *)
LEMMA LogStep ==
    ASSUME Sound, TypeInv', AllReadable, NEW t \in Threads, Log(t)
    PROVE  /\ AllReadable'
           /\ CurrentOp(t) \in DocOps =>
                  Says(wal', CurrentOp(t).coll, CurrentOp(t).key, Len(wal'), CurrentOp(t).doc)
           /\ \A c, k, v :
                  /\ Says(wal, c, k, Len(wal), v)
                  /\ ~(/\ CurrentOp(t) \in DocOps
                       /\ CurrentOp(t).coll = c /\ CurrentOp(t).key = k)
                  => Says(wal', c, k, Len(wal'), v)
<1> DEFINE op == CurrentOp(t)
           n == Len(wal)
<1>1. /\ op \in Ops /\ [op |-> op, readable |-> TRUE] \in Records
      /\ wal' = Append(wal, [op |-> op, readable |-> TRUE])
  BY CurrentOpType DEF Log, Sound, RecoveryInv
<1>2. /\ n \in Nat /\ wal \in Seq(Records) /\ wal' \in Seq(Records)
      /\ DOMAIN wal = 1..n /\ DOMAIN wal' = 1..Len(wal')
  BY DEF Sound, RecoveryInv, TypeInv, TypeOK
<1>3. /\ Len(wal') = n + 1
      /\ \A i \in 1..n : wal'[i] = wal[i]
      /\ wal'[n + 1] = [op |-> op, readable |-> TRUE]
  BY <1>1, AppendWal DEF Sound, RecoveryInv
<1>4. AllReadable'
  <2>1. ASSUME NEW i \in DOMAIN wal'  PROVE wal'[i].readable
    <3>1. i \in 1..n \/ i = n + 1  BY <1>2, <1>3
    <3> QED  BY <1>2, <1>3, <3>1 DEF AllReadable
  <2> QED  BY <2>1 DEF AllReadable
<1>5. Reads(wal', n + 1)
  BY <1>2, <1>3, <1>4 DEF AllReadable, Reads
<1>6. \A c, k : Sets(wal', n + 1, c, k) <=> op \in DocOps /\ op.coll = c /\ op.key = k
  <2>1. op \in DocOps <=> op.type \in {"PUT", "DELETE"}  BY <1>1 DEF Ops, DocOps
  <2> QED  BY <1>3, <2>1 DEF Sets
<1>7. ASSUME op \in DocOps  PROVE Says(wal', op.coll, op.key, n + 1, op.doc)
  <2>1. Sets(wal', n + 1, op.coll, op.key)  BY <1>6, <1>7
  <2>2. Says(wal', op.coll, op.key, n + 1, wal'[n + 1].op.doc)
    <3> HIDE DEF op, n
    <3> QED  BY <1>2, <1>5, <2>1, SaysNew
  <2> QED  BY <1>3, <2>2
<1>8. ASSUME NEW c, NEW k, NEW v, Says(wal, c, k, n, v),
             ~(op \in DocOps /\ op.coll = c /\ op.key = k)
      PROVE  Says(wal', c, k, n + 1, v)
  <2>1. Says(wal', c, k, n, v)
    <3>1. n \in 0..Len(wal) /\ Len(wal) <= Len(wal')  BY <1>2, <1>3
    <3> QED  BY <1>2, <1>3, <1>8, <3>1, SaysExtended
  <2> QED  BY <1>2, <1>6, <1>8, <2>1, SaysSame
<1> QED  BY <1>3, <1>4, <1>7, <1>8

(* The log as a whole and the definitions of LSMTreeProperties. *)
LEMMA SaysNow ==
    \A c, k, v : /\ LogSays(c, k, Len(wal), v) <=> Says(wal, c, k, Len(wal), v)
                 /\ LogSays(c, k, Len(wal), v)' <=> Says(wal', c, k, Len(wal'), v')
BY DEF LogSays, Says, Reads, Sets, Recoverable, Writes

LEMMA AllReadableNext ==
    ASSUME Sound, TypeInv', MemoryInv, OrderlyClients, [Next]_vars
    PROVE  AllReadable' /\ (UNCHANGED wal \/ \E t \in Threads : Log(t))
<1> USE DEF MemoryInv
<1>1. UNCHANGED wal => AllReadable'  BY DEF AllReadable
<1>2. ASSUME NEW t \in Threads, Work(t)  PROVE UNCHANGED wal \/ Log(t)
  BY <1>2, WorkCases DEF LogClosed, ApplyPut, ApplyDelete, ApplyCreate
<1>3. ASSUME NEW t \in Threads, Request(t)  PROVE UNCHANGED wal
  BY <1>3, RequestWork
<1>4. Shutdown \/ Restart \/ Recover => UNCHANGED wal
  BY DEF Shutdown, Restart, Recover, ReplayPut, ReplayPutFails, ReplayDelete, ReplayCreate,
     ReplayDrop, FinishRecovery, Replayed
<1>5. UNCHANGED wal \/ \E t \in Threads : Log(t)
  BY <1>2, <1>3, <1>4, OrderlyCases
<1> QED  BY <1>1, <1>5, LogStep

(* The threads that apply an operation: those that did, but one that ends, *)
(* or one more that has just logged it.                                    *)
LEMMA ApplyingNext ==
    ASSUME Sound, TypeInv', MemoryInv, OrderlyClients, [Next]_vars,
           NEW u \in Threads, pc'[u] = "apply"
    PROVE  CurrentOp(u)' = CurrentOp(u) /\ (pc[u] = "apply" \/ Log(u))
<1> USE DEF MemoryInv, CurrentOp
<1>1. ASSUME NEW t \in Threads, Request(t)  PROVE pc[u] = "apply" /\ todo'[u] = todo[u]
  BY <1>1, RequestWork DEF Sound, RecoveryInv, TypeInv, TypeOK
<1>2. ASSUME NEW t \in Threads, Work(t)
      PROVE  todo'[u] = todo[u] /\ (pc[u] = "apply" \/ Log(u))
  <2>1. Log(t) \/ LogClosed(t) \/ ApplyPut(t) \/ ApplyDelete(t) \/ ApplyCreate(t)
    BY <1>2, WorkCases
  <2>2. Log(t) => UNCHANGED todo  BY DEF Log
  <2> QED  BY <2>1, <2>2, WorkThreads
<1>3. ~LoseMemory  BY DEF LoseMemory
<1>4. Shutdown \/ Restart \/ Recover => UNCHANGED <<pc, todo>>
  BY DEF Shutdown, Restart, Recover, ReplayPut, ReplayPutFails, ReplayDelete, ReplayCreate,
     ReplayDrop, FinishRecovery, Replayed
<1> QED  BY <1>1, <1>2, <1>3, <1>4, OrderlyCases

LEMMA LastLoggedNext ==
    ASSUME Sound, TypeInv', MemoryInv, OrderlyClients, [Next]_vars
    PROVE  LastLogged'
<1> USE DEF MemoryInv
<1> SUFFICES ASSUME NEW u \in Threads, pc'[u] = "apply", CurrentOp(u)' \in DocOps
             PROVE  Says(wal', CurrentOp(u)'.coll, CurrentOp(u)'.key, Len(wal'),
                         CurrentOp(u)'.doc)
  BY SaysNow DEF LastLogged, DocOps
<1>1. CurrentOp(u)' = CurrentOp(u) /\ (pc[u] = "apply" \/ Log(u))  BY ApplyingNext
<1>2. CASE Log(u)  BY <1>1, <1>2, LogStep
<1>3. CASE pc[u] = "apply"
  <2> DEFINE op == CurrentOp(u)
  <2>1. Says(wal, op.coll, op.key, Len(wal), op.doc)
    BY <1>1, <1>3, SaysNow DEF LastLogged
  <2>2. CASE UNCHANGED wal  BY <1>1, <2>1, <2>2
  <2>3. ASSUME NEW t \in Threads, Log(t)
        PROVE  Says(wal', op.coll, op.key, Len(wal'), op.doc)
    <3>1. t # u /\ pc[t] # "idle"  BY <1>3, <2>3 DEF Log
    <3>2. op.key \in KeysOf[u]  BY <1>1, <1>3, GoodOp, ValuesAssumption DEF DocOps, CollectionOp
    <3>3. CurrentOp(t) \in DocOps => CurrentOp(t).key \in KeysOf[t]
      BY <3>1, GoodOp DEF DocOps, CollectionOp
    <3>4. KeysOf[t] \cap KeysOf[u] = {}  BY <3>1 DEF OrderlyClients
    <3> QED  BY <2>1, <2>3, <3>2, <3>3, <3>4, LogStep
  <2> QED  BY <1>1, <2>2, <2>3, AllReadableNext
<1> QED  BY <1>1, <1>2, <1>3


LEMMA MemoryIsLogNext ==
    ASSUME Sound, TypeInv', MemoryInv, OrderlyClients, [Next]_vars
    PROVE  MemoryIsLog'
<1> USE DEF MemoryInv
<1>1. Empty \in [Keys -> Values] /\ \A k \in Keys : Empty[k] = Nothing  BY DEF Empty, Values
(* What the log says of a key that nobody is about to apply. *)
<1>2. ASSUME NEW c \in Collections, NEW k \in Keys,
             InFlight(c, k) \/ Says(wal, c, k, Len(wal), Live(c, k)),
             Live(c, k)' = Live(c, k), UNCHANGED wal,
             \A t \in Threads : pc[t] = "apply" /\ CurrentOp(t).coll = c /\ CurrentOp(t).key = k
                                => pc'[t] = "apply" /\ CurrentOp(t)' = CurrentOp(t)
      PROVE  (InFlight(c, k) \/ LogSays(c, k, Len(wal), Live(c, k)))'
  <2>1. CASE InFlight(c, k)
    <3>1. InFlight(c, k)'  BY <1>2, <2>1 DEF InFlight
    <3> QED  BY <3>1
  <2>2. CASE Says(wal, c, k, Len(wal), Live(c, k))
    <3>1. Says(wal', c, k, Len(wal'), Live(c, k)')  BY <1>2, <2>2
    <3> QED  BY <3>1, SaysNow
  <2> QED  BY <1>2, <2>1, <2>2
<1>3. ASSUME UNCHANGED <<wal, data>>, Alive,
             \A t \in Threads : pc[t] = "apply" =>
                 pc'[t] = "apply" /\ CurrentOp(t)' = CurrentOp(t)
      PROVE  MemoryIsLog'
  <2>1. \A c \in Collections, k \in Keys :
            /\ Live(c, k)' = Live(c, k)
            /\ InFlight(c, k) \/ Says(wal, c, k, Len(wal), Live(c, k))
    BY <1>3, SaysNow DEF Live, MemoryIsLog
  <2>2. \A c \in Collections, k \in Keys :
            (InFlight(c, k) \/ LogSays(c, k, Len(wal), Live(c, k)))'
    BY <1>2, <1>3, <2>1
  <2> QED  BY <2>2 DEF MemoryIsLog
<1>4. ASSUME ~Alive'  PROVE MemoryIsLog'  BY <1>4 DEF MemoryIsLog
<1>5. ASSUME NEW t \in Threads, Request(t)  PROVE MemoryIsLog'
  <2>1. Alive /\ UNCHANGED <<wal, data>>  BY <1>5, RequestWork DEF Alive
  <2>2. \A u \in Threads : pc[u] = "apply" => pc'[u] = "apply" /\ todo'[u] = todo[u]
    BY <1>5, RequestWork DEF Sound, RecoveryInv, TypeInv, TypeOK
  <2> QED  BY <1>3, <2>1, <2>2 DEF CurrentOp
<1>6. ASSUME NEW t \in Threads, Work(t)  PROVE MemoryIsLog'
  <2> DEFINE op == CurrentOp(t)
  <2>1. /\ Log(t) \/ LogClosed(t) \/ ApplyPut(t) \/ ApplyDelete(t) \/ ApplyCreate(t)
        /\ Alive
    BY <1>6, WorkCases, AliveSteps
  <2>2. /\ pc[t] # "idle"
        /\ \A u \in Threads \ {t} : pc'[u] = pc[u] /\ todo'[u] = todo[u]
    BY <2>1, WorkThreads
  <2>3. CASE LogClosed(t)
    <3>1. pc[t] # "apply" /\ UNCHANGED <<wal, data>>  BY <2>3 DEF LogClosed
    <3> QED  BY <1>3, <2>1, <2>2, <3>1 DEF CurrentOp
  <2>4. CASE Log(t)
    <3>1. /\ UNCHANGED data /\ pc'[t] = "apply" /\ CurrentOp(t)' = CurrentOp(t)
          /\ pc[t] = "log"
      BY <2>4 DEF Log, CurrentOp, Sound, RecoveryInv, TypeInv, TypeOK
    <3>2. ASSUME NEW c \in Collections, NEW k \in Keys
          PROVE  (InFlight(c, k) \/ LogSays(c, k, Len(wal), Live(c, k)))'
      <4>1. CASE InFlight(c, k)
        <5>1. InFlight(c, k)'  BY <2>2, <3>1, <4>1 DEF InFlight, CurrentOp
        <5> QED  BY <5>1
      <4>2. CASE op.coll = c /\ op.key = k
        <5>1. InFlight(c, k)'  BY <3>1, <4>2 DEF InFlight
        <5> QED  BY <5>1
      <4>3. CASE ~InFlight(c, k) /\ ~(op.coll = c /\ op.key = k)
        <5>1. Says(wal, c, k, Len(wal), Live(c, k))  BY <2>1, <4>3, SaysNow DEF MemoryIsLog
        <5>2. Says(wal', c, k, Len(wal'), Live(c, k))  BY <2>4, <4>3, <5>1, LogStep
        <5>3. Live(c, k)' = Live(c, k)  BY <3>1 DEF Live
        <5> QED  BY <5>2, <5>3, SaysNow
      <4> QED  BY <4>1, <4>2, <4>3
    <3> QED  BY <3>2 DEF MemoryIsLog
  <2>5. ASSUME op \in DocOps, pc[t] = "apply", UNCHANGED wal,
               \A c \in Collections, k \in Keys :
                   c = op.coll /\ k = op.key => Live(c, k)' = op.doc,
               \A c \in Collections, k \in Keys :
                   c # op.coll \/ k # op.key => data'[c][k] = data[c][k]
        PROVE  MemoryIsLog'
    <3>1. ASSUME NEW c \in Collections, NEW k \in Keys
          PROVE  (InFlight(c, k) \/ LogSays(c, k, Len(wal), Live(c, k)))'
      <4>1. CASE c = op.coll /\ k = op.key
        <5>1. Says(wal, op.coll, op.key, Len(wal), op.doc)
          BY <2>5, SaysNow DEF LastLogged
        <5>2. Says(wal', c, k, Len(wal'), Live(c, k)')
          BY <2>5, <4>1, <5>1
        <5> QED  BY <5>2, SaysNow
      <4>2. CASE c # op.coll \/ k # op.key
        <5>1. Live(c, k)' = Live(c, k)  BY <2>5, <4>2 DEF Live
        <5>2. InFlight(c, k) \/ Says(wal, c, k, Len(wal), Live(c, k))
          BY <2>1, SaysNow DEF MemoryIsLog
        <5>3. \A u \in Threads :
                  pc[u] = "apply" /\ CurrentOp(u).coll = c /\ CurrentOp(u).key = k
                  => pc'[u] = "apply" /\ CurrentOp(u)' = CurrentOp(u)
          BY <2>2, <4>2 DEF CurrentOp
        <5> QED  BY <1>2, <2>5, <5>1, <5>2, <5>3
      <4> QED  BY <4>1, <4>2
    <3> QED  BY <3>1 DEF MemoryIsLog
  <2>6. op \in Ops /\ (op.type \in {"PUT", "DELETE"} => op \in DocOps)
    BY <2>2, CurrentOpType DEF Ops, DocOps, Sound, RecoveryInv
  <2>7. CASE ApplyPut(t)
    <3>1. /\ op.type = "PUT" /\ pc[t] = "apply" /\ UNCHANGED wal
          /\ data' = [data EXCEPT ![op.coll][op.key] = op.doc]
      BY <2>7 DEF ApplyPut, Applying
    <3>2. op.coll \in Collections /\ op.key \in Keys /\ op.doc \in Docs
      BY <2>6, <3>1, DocOpFields
    <3>3. /\ data'[op.coll][op.key] = op.doc
          /\ \A c \in Collections, k \in Keys :
                 c # op.coll \/ k # op.key => data'[c][k] = data[c][k]
      BY <3>1, <3>2 DEF Sound, RecoveryInv, TypeInv, TypeOK
    <3>4. ASSUME NEW c \in Collections, NEW k \in Keys, c = op.coll, k = op.key
          PROVE  Live(c, k)' = op.doc
      BY <3>2, <3>3, <3>4 DEF Live
    <3> QED  BY <2>5, <2>6, <3>1, <3>3, <3>4
  <2>8. CASE ApplyDelete(t)
    <3>1. /\ op.type = "DELETE" /\ pc[t] = "apply" /\ UNCHANGED wal
          /\ op.coll \in Collections /\ op.key \in Keys /\ op.doc = Nothing
      BY <2>6, <2>8, DocOpFields DEF ApplyDelete, Applying
    <3>2. CASE Exists(op.coll) /\ Live(op.coll, op.key) # Nothing
      <4>1. data' = [data EXCEPT ![op.coll][op.key] = Tombstone]
        BY <2>8, <3>2 DEF ApplyDelete
      <4>2. /\ data'[op.coll][op.key] = Tombstone
            /\ \A c \in Collections, k \in Keys :
                   c # op.coll \/ k # op.key => data'[c][k] = data[c][k]
        BY <3>1, <4>1 DEF Sound, RecoveryInv, TypeInv, TypeOK
      <4>3. ASSUME NEW c \in Collections, NEW k \in Keys, c = op.coll, k = op.key
            PROVE  Live(c, k)' = Nothing
        BY <4>2, <4>3, ValuesAssumption DEF Live
      <4> QED  BY <2>5, <2>6, <3>1, <4>2, <4>3
    <3>3. CASE ~(Exists(op.coll) /\ Live(op.coll, op.key) # Nothing)
      <4>1. UNCHANGED data  BY <2>8, <3>3 DEF ApplyDelete
      <4>2. ~Exists(op.coll) => data[op.coll] = Empty
        BY <3>1 DEF Sound, ReplayInv, NoGhosts, Exists
      <4>3. Live(op.coll, op.key) = Nothing
        BY <1>1, <3>1, <3>3, <4>2, ValuesAssumption DEF Live
      <4>4. ASSUME NEW c \in Collections, NEW k \in Keys, c = op.coll, k = op.key
            PROVE  Live(c, k)' = Nothing
        BY <4>1, <4>3, <4>4 DEF Live
      <4> QED  BY <2>5, <2>6, <3>1, <4>1, <4>4
    <3> QED  BY <3>2, <3>3
  <2>9. CASE ApplyCreate(t)
    <3>1. /\ op.type = "CREATE_COLLECTION" /\ pc[t] = "apply" /\ UNCHANGED wal
          /\ data' = [data EXCEPT ![op.coll] = Empty]
      BY <2>9 DEF ApplyCreate, Applying
    <3>2. op.coll \in Collections /\ ~Exists(op.coll) /\ op.key = Nothing
      BY <3>1, GoodOp DEF DocOps, CollectionOp
    <3>3. data[op.coll] = Empty  BY <3>2 DEF Sound, ReplayInv, NoGhosts, Exists
    <3>4. UNCHANGED data  BY <3>1, <3>2, <3>3 DEF Sound, RecoveryInv, TypeInv, TypeOK
    <3>5. ASSUME NEW c \in Collections, NEW k \in Keys
          PROVE  (InFlight(c, k) \/ LogSays(c, k, Len(wal), Live(c, k)))'
      <4>1. Live(c, k)' = Live(c, k)  BY <3>4 DEF Live
      <4>2. InFlight(c, k) \/ Says(wal, c, k, Len(wal), Live(c, k))
        BY <2>1, SaysNow DEF MemoryIsLog
      <4>3. \A u \in Threads :
                pc[u] = "apply" /\ CurrentOp(u).coll = c /\ CurrentOp(u).key = k
                => pc'[u] = "apply" /\ CurrentOp(u)' = CurrentOp(u)
        BY <2>2, <3>2, ValuesAssumption DEF CurrentOp
      <4> QED  BY <1>2, <3>1, <4>1, <4>2, <4>3
    <3> QED  BY <3>5 DEF MemoryIsLog
  <2> QED  BY <2>1, <2>3, <2>4, <2>7, <2>8, <2>9
<1>7. CASE Recover
  <2>1. CASE FinishRecovery
    <3>1. /\ phase = "recovering" /\ UNCHANGED <<wal, data>>
          /\ cursor \notin DOMAIN wal
      BY <2>1 DEF FinishRecovery, AllReadable
    <3>2. cursor - 1 = Len(wal)
      <4>1. /\ cursor \in Nat \ {0} /\ Len(wal) \in Nat /\ DOMAIN wal = 1..Len(wal)
            /\ cursor <= Len(wal) + 1
        BY <3>1 DEF Sound, ReplayInv, ReadSoFar, TypeInv, TypeOK
      <4> QED  BY <3>1, <4>1
    <3>3. ASSUME NEW c \in Collections, NEW k \in Keys
          PROVE  LogSays(c, k, Len(wal), Live(c, k))'
      <4>1. Says(wal, c, k, Len(wal), Live(c, k))
        BY <3>1, <3>2, SaysNow DEF Sound, ReplayInv, ReplayMatchesLog
      <4>2. Says(wal', c, k, Len(wal'), Live(c, k)')  BY <3>1, <4>1 DEF Live
      <4> QED  BY <4>2, SaysNow
    <3> QED  BY <3>3 DEF MemoryIsLog
  <2>2. CASE ~FinishRecovery
    <3>1. phase' \in {"recovering", "failed"}
      BY <1>7, <2>2 DEF Recover, ReplayPut, ReplayPutFails, ReplayDelete, ReplayCreate,
         ReplayDrop, Replaying, Replayed
    <3> QED  BY <1>4, <3>1 DEF Alive
  <2> QED  BY <2>1, <2>2
<1>8. CASE LoseMemory \/ Restart  BY <1>4, <1>8 DEF LoseMemory, Restart, Alive
<1>9. CASE Shutdown \/ UNCHANGED vars
  <2>1. CASE Alive  BY <1>3, <1>9, <2>1 DEF Shutdown, CurrentOp
  <2>2. CASE ~Alive  BY <1>4, <1>9, <2>2 DEF Shutdown, Alive
  <2> QED  BY <2>1, <2>2
<1> QED  BY <1>5, <1>6, <1>7, <1>8, <1>9, OrderlyCases

LEMMA MemoryInit == Init => MemoryInv
BY EmptyIsGood DEF Init, MemoryInv, AtWork, GoodBuffers, AtRest, AllReadable, LastLogged,
   MemoryIsLog, Alive

LEMMA MemoryInvariant == ASSUME OrderlyClients PROVE Spec => [](Sound /\ MemoryInv)
<1>1. Sound /\ Sound' /\ MemoryInv /\ [Next]_vars => MemoryInv'
  BY AtWorkNext, AtRestNext, GoodBuffersNext, AllReadableNext, LastLoggedNext,
     MemoryIsLogNext DEF MemoryInv, Sound, RecoveryInv
<1>2. Spec => []Sound  BY SoundInvariant
<1> QED  BY <1>1, <1>2, MemoryInit, PTL DEF Spec

(* If clients are orderly, what they read while the server runs is what a  *)
(* recovery at that moment would rebuild from the log, except for a write  *)
(* that has just been logged: a crash loses no answered write.             *)
THEOREM MemoryFollowsLog ==
    ASSUME OrderlyClients
    PROVE  Spec => []MemoryMatchesLog
<1>1. MemoryInv => MemoryMatchesLog
  BY DEF MemoryInv, MemoryIsLog, MemoryMatchesLog, Alive
<1> QED  BY <1>1, MemoryInvariant, PTL

-----------------------------------------------------------------------------
(* The engine implements the durable store.  A collection that the log     *)
(* creates is there, or is about to be.                                    *)
Creating(c) ==
    \E t \in Threads : pc[t] = "apply" /\ CurrentOp(t) = CollectionOp("CREATE_COLLECTION", c)

CreatedIsThere == Alive => \A c \in Collections : Created(c) => Exists(c) \/ Creating(c)

DurableInv == Sound /\ MemoryInv /\ CreatedIsThere

(* At the end of a recovery every collection the log creates is there. *)
LEMMA RecoveredAll ==
    ASSUME Sound, MemoryInv, FinishRecovery
    PROVE  /\ cursor - 1 = Len(wal)
           /\ \A c \in Collections : Created(c) => Exists(c)
<1>1. phase = "recovering" /\ cursor \notin DOMAIN wal
  BY DEF FinishRecovery, MemoryInv, AllReadable
<1>2. /\ cursor \in Nat \ {0} /\ Len(wal) \in Nat /\ DOMAIN wal = 1..Len(wal)
      /\ cursor <= Len(wal) + 1
  BY <1>1 DEF Sound, ReplayInv, ReadSoFar, TypeInv, TypeOK
<1>3. cursor - 1 = Len(wal)  BY <1>1, <1>2
<1>4. DOMAIN wal = 1..(cursor - 1)  BY <1>2, <1>3
<1> QED  BY <1>1, <1>3, <1>4 DEF Sound, ReplayInv, ReadSoFar, Created, CreatedIn

LEMMA CreatedIsThereNext ==
    ASSUME DurableInv, TypeInv', OrderlyClients, [Next]_vars
    PROVE  CreatedIsThere'
<1> USE DEF DurableInv
<1>1. ASSUME ~Alive'  PROVE CreatedIsThere'  BY <1>1 DEF CreatedIsThere
<1>2. ASSUME NEW c \in Collections, UNCHANGED wal, Alive, Created(c)',
             Exists(c) => Exists(c)',
             \A t \in Threads :
                 pc[t] = "apply" /\ CurrentOp(t) = CollectionOp("CREATE_COLLECTION", c)
                 => Exists(c)' \/ (pc'[t] = "apply" /\ CurrentOp(t)' = CurrentOp(t))
      PROVE  (Exists(c) \/ Creating(c))'
  <2>1. Exists(c) \/ Creating(c)  BY <1>2 DEF CreatedIsThere, Created
  <2>2. CASE Creating(c)
    <3>1. PICK t \in Threads :
              pc[t] = "apply" /\ CurrentOp(t) = CollectionOp("CREATE_COLLECTION", c)
      BY <2>2 DEF Creating
    <3>2. \/ Exists(c)'
          \/ pc'[t] = "apply" /\ CurrentOp(t)' = CollectionOp("CREATE_COLLECTION", c)
      BY <1>2, <3>1
    <3> QED  BY <3>2 DEF Creating
  <2> QED  BY <1>2, <2>1, <2>2
<1>3. ASSUME UNCHANGED <<wal, collections>>, Alive,
             \A t \in Threads : pc[t] = "apply" /\ CurrentOp(t) \notin DocOps =>
                 pc'[t] = "apply" /\ CurrentOp(t)' = CurrentOp(t)
      PROVE  CreatedIsThere'
  <2>1. \A c : CollectionOp("CREATE_COLLECTION", c) \notin DocOps
    BY DEF CollectionOp, DocOps
  <2>2. \A c \in Collections : Created(c)' => (Exists(c) \/ Creating(c))'
    BY <1>2, <1>3, <2>1 DEF Exists
  <2> QED  BY <2>2 DEF CreatedIsThere
<1>4. ASSUME NEW t \in Threads, Request(t)  PROVE CreatedIsThere'
  <2>1. Alive /\ UNCHANGED <<wal, collections>>  BY <1>4, RequestWork DEF Alive
  <2>2. \A u \in Threads : pc[u] = "apply" => pc'[u] = "apply" /\ todo'[u] = todo[u]
    BY <1>4, RequestWork DEF Sound, RecoveryInv, TypeInv, TypeOK
  <2> QED  BY <1>3, <2>1, <2>2 DEF CurrentOp
<1>5. ASSUME NEW t \in Threads, Work(t)  PROVE CreatedIsThere'
  <2> DEFINE op == CurrentOp(t)
  <2>1. /\ Log(t) \/ LogClosed(t) \/ ApplyPut(t) \/ ApplyDelete(t) \/ ApplyCreate(t)
        /\ Alive
    BY <1>5, WorkCases, AliveSteps DEF MemoryInv
  <2>2. /\ pc[t] # "idle" /\ op \in Ops
        /\ \A u \in Threads \ {t} : pc'[u] = pc[u] /\ todo'[u] = todo[u]
    BY <2>1, WorkThreads, CurrentOpType DEF Sound, RecoveryInv
  <2>3. CASE Log(t)
    <3>1. /\ UNCHANGED collections /\ pc'[t] = "apply" /\ CurrentOp(t)' = op /\ pc[t] = "log"
          /\ wal' = Append(wal, [op |-> op, readable |-> TRUE])
      BY <2>3 DEF Log, CurrentOp, Sound, RecoveryInv, TypeInv, TypeOK
    <3>2. /\ DOMAIN wal = 1..Len(wal) /\ DOMAIN wal' = 1..(Len(wal) + 1)
          /\ \A i \in 1..Len(wal) : wal'[i] = wal[i]
          /\ wal'[Len(wal) + 1].op = op
      <4>1. [op |-> op, readable |-> TRUE] \in Records
        BY <2>2, CurrentOpType DEF Sound, RecoveryInv
      <4>2. Len(wal') = Len(wal) + 1 /\ (\A i \in 1..Len(wal) : wal'[i] = wal[i])
            /\ wal'[Len(wal) + 1] = [op |-> op, readable |-> TRUE]
        BY <3>1, <4>1, AppendWal DEF Sound, RecoveryInv
      <4>3. DOMAIN wal = 1..Len(wal) /\ DOMAIN wal' = 1..Len(wal')
        BY DEF Sound, RecoveryInv, TypeInv, TypeOK
      <4> QED  BY <4>2, <4>3
    <3>3. ASSUME NEW c \in Collections, Created(c)'  PROVE (Exists(c) \/ Creating(c))'
      <4>1. PICK i \in DOMAIN wal' : wal'[i].op = CollectionOp("CREATE_COLLECTION", c)
        BY <3>3 DEF Created, CreatedIn
      <4>2. CASE i = Len(wal) + 1
        <5>1. wal'[i].op = CurrentOp(t)'  BY <3>1, <3>2, <4>2
        <5>2. CurrentOp(t)' = CollectionOp("CREATE_COLLECTION", c)  BY <4>1, <5>1
        <5> QED  BY <3>1, <5>2 DEF Creating
      <4>3. CASE i \in 1..Len(wal)
        <5>1. Created(c)  BY <3>2, <4>1, <4>3 DEF Created, CreatedIn
        <5>2. Exists(c) \/ Creating(c)  BY <2>1, <5>1 DEF CreatedIsThere
        <5>3. Creating(c) => Creating(c)'  BY <2>2, <3>1 DEF Creating, CurrentOp
        <5> QED  BY <3>1, <5>2, <5>3 DEF Exists
      <4>4. Len(wal) \in Nat  BY DEF Sound, RecoveryInv, TypeInv, TypeOK
      <4> QED  BY <3>2, <4>1, <4>2, <4>3, <4>4
    <3> QED  BY <3>3 DEF CreatedIsThere
  <2>4. CASE LogClosed(t) \/ ApplyPut(t) \/ ApplyDelete(t)
    <3>1. UNCHANGED <<wal, collections>>
      BY <2>4 DEF LogClosed, ApplyPut, ApplyDelete
    <3>2. pc[t] = "apply" => op \in DocOps
      BY <2>2, <2>4 DEF LogClosed, ApplyPut, ApplyDelete, Applying, Ops
    <3> QED  BY <1>3, <2>1, <2>2, <3>1, <3>2 DEF CurrentOp
  <2>5. CASE ApplyCreate(t)
    <3>1. UNCHANGED wal /\ collections' = [collections EXCEPT ![op.coll] = Fresh(op.coll)]
      BY <2>5 DEF ApplyCreate
    <3>2. op.coll \in Collections  BY <2>2, DocOpFields
    <3>3. /\ collections'[op.coll] # "none"
          /\ \A c \in Collections : Exists(c) => Exists(c)'
      BY <3>1, <3>2 DEF Exists, Fresh, Sound, RecoveryInv, TypeInv, TypeOK
    <3>4. ASSUME NEW c \in Collections, Created(c)'  PROVE (Exists(c) \/ Creating(c))'
      <4>1. op = CollectionOp("CREATE_COLLECTION", c) => Exists(c)'
        BY <3>3 DEF CollectionOp, Exists
      <4> QED  BY <1>2, <2>1, <2>2, <3>1, <3>3, <3>4, <4>1 DEF CurrentOp
    <3> QED  BY <3>4 DEF CreatedIsThere
  <2> QED  BY <2>1, <2>3, <2>4, <2>5
<1>6. CASE Recover
  <2>1. CASE FinishRecovery
    <3>1. \A c \in Collections : Created(c) => Exists(c)  BY <2>1, RecoveredAll
    <3>2. \A c \in Collections : Created(c)' => Created(c)
      BY <2>1 DEF FinishRecovery, Created
    <3>3. \A c \in Collections : Exists(c) => Exists(c)'
      BY <2>1 DEF FinishRecovery, Exists, Fresh
    <3> QED  BY <3>1, <3>2, <3>3 DEF CreatedIsThere
  <2>2. CASE ~FinishRecovery
    <3>1. phase' \in {"recovering", "failed"}
      BY <1>6, <2>2 DEF Recover, ReplayPut, ReplayPutFails, ReplayDelete, ReplayCreate,
         ReplayDrop, Replaying, Replayed
    <3> QED  BY <1>1, <3>1 DEF Alive
  <2> QED  BY <2>1, <2>2
<1>7. CASE LoseMemory \/ Restart  BY <1>1, <1>7 DEF LoseMemory, Restart, Alive
<1>8. CASE Shutdown \/ UNCHANGED vars
  <2>1. CASE Alive  BY <1>3, <1>8, <2>1 DEF Shutdown, CurrentOp
  <2>2. CASE ~Alive  BY <1>1, <1>8, <2>2 DEF Shutdown, Alive
  <2> QED  BY <2>1, <2>2
<1> QED  BY <1>4, <1>5, <1>6, <1>7, <1>8, OrderlyCases

LEMMA DurableInvariant == ASSUME OrderlyClients PROVE Spec => []DurableInv
<1>1. Init => CreatedIsThere  BY DEF Init, CreatedIsThere, Alive
<1>2. Sound /\ Sound' /\ MemoryInv /\ CreatedIsThere /\ [Next]_vars => CreatedIsThere'
  BY CreatedIsThereNext DEF DurableInv, Sound, RecoveryInv
<1>3. Spec => [](Sound /\ MemoryInv)  BY MemoryInvariant
<1>4. Sound /\ MemoryInv /\ CreatedIsThere => DurableInv  BY DEF DurableInv
<1> QED  BY <1>1, <1>2, <1>3, <1>4, PTL DEF Spec

-----------------------------------------------------------------------------
(* What the log holds for a key is the one thing it says. *)
LEMMA LogValueIs ==
    ASSUME TypeInv, NEW c, NEW k, NEW v \in Docs \cup {Nothing}, Says(wal, c, k, Len(wal), v)
    PROVE  LogValue(c, k) = v
<1> DEFINE w == LogValue(c, k)
<1>1. LogSays(c, k, Len(wal), v)  BY SaysIsLogSays
<1>2. LogSays(c, k, Len(wal), w)  BY <1>1 DEF LogValue
<1>3. Says(wal, c, k, Len(wal), w)  BY <1>2, SaysNow
<1>4. Len(wal) \in Nat  BY DEF TypeInv, TypeOK
<1>5. w = v
  <2> HIDE DEF w
  <2> QED  BY <1>3, <1>4, SaysOne
<1> QED  BY <1>5

(* The collections of a store that is down are those the log creates. *)
LEMMA ExistsDown ==
    DurableInv /\ Down => DurableExists = {c \in Collections : Created(c)}
<1> SUFFICES ASSUME DurableInv, Down PROVE DurableExists = {c \in Collections : Created(c)}
  OBVIOUS
<1>1. ASSUME NEW c \in Collections  PROVE Created(c) => LogCreates(c)
  <2>1. DOMAIN wal = 1..Len(wal) /\ Len(wal) \in Nat
    BY DEF DurableInv, Sound, RecoveryInv, TypeInv, TypeOK
  <2>2. \A i \in DOMAIN wal : Recoverable(i)
    BY <2>1 DEF Recoverable, DurableInv, MemoryInv, AllReadable
  <2> QED  BY <2>2 DEF Created, CreatedIn, LogCreates
<1>2. ASSUME NEW c \in Collections  PROVE LogCreates(c) \/ c \in dirs => Created(c)
  BY DEF LogCreates, Created, CreatedIn, DurableInv, Sound, RecoveryInv, PresentCreated
<1> QED  BY <1>1, <1>2 DEF DurableExists

LEMMA ExistsUp == ~Down => DurableExists = {c \in Collections : Exists(c)}
BY DEF DurableExists

LEMMA ContentsUp ==
    ~Down => DurableContents = [c \in Collections |-> [k \in Keys |-> Live(c, k)]]
BY DEF DurableContents

LEMMA ModeIs ==
    /\ phase = "running" => DurableMode = "serving" /\ ~Down /\ Alive
    /\ phase = "stopped" => DurableMode = "closing" /\ ~Down /\ Alive
    /\ Down => DurableMode = "down" /\ ~Alive
    /\ TypeInv /\ ~Down => Alive
BY DEF DurableMode, Down, Alive, TypeInv, TypeOK

(* The steps, one by one.  D is the durable store seen through the mapping. *)
DurableStep == [Durable!Next]_(Durable!vars)

LEMMA DurableStutters ==
    ASSUME UNCHANGED <<DurableMode, DurableExists, DurableContents, todo, committing, answer>>
    PROVE  DurableStep
BY DEF DurableStep, Durable!vars

(* A step of a live process that touches no collection. *)
LEMMA StoreKept ==
    ASSUME ~Down, ~Down', UNCHANGED store
    PROVE  UNCHANGED <<DurableExists, DurableContents>>
BY DEF DurableExists, DurableContents, Exists, Live

LEMMA DurableAccept ==
    ASSUME DurableInv, TypeInv', NEW t \in Threads, NEW kind, NEW work, Accept(t, kind, work),
           work # <<>>, \A u \in Threads \ {t} : committing'[u] = committing[u]
    PROVE  DurableStep
<1> USE DEF DurableInv, Sound, RecoveryInv
<1>1. phase = "running" /\ pc[t] = "idle" /\ UNCHANGED <<server, store>>
  BY DEF Accept, Ready
<1>2. DurableMode = "serving" /\ ~Down /\ DurableMode' = DurableMode /\ ~Down'
  BY <1>1 DEF DurableMode, Down
<1>3. UNCHANGED <<DurableExists, DurableContents>>  BY <1>1, <1>2, StoreKept
<1>4. todo[t] = <<>>  BY <1>1 DEF MemoryInv, AtWork
<1>5. /\ todo' \in [Threads -> Seq(Ops)] /\ todo'[t] = work
      /\ \A u \in Threads \ {t} : todo'[u] = todo[u]
  BY DEF Accept, TypeInv, TypeOK
<1>6. [u \in Threads |-> committing'[u] # NoTxn]
      = [[u \in Threads |-> committing[u] # NoTxn] EXCEPT ![t] = (committing'[t] # NoTxn)]
  OBVIOUS
<1>7. answer' = [answer EXCEPT ![t] = "none"]  BY DEF Accept
<1>8. Durable!Request(t)
  BY <1>2, <1>3, <1>4, <1>5, <1>6, <1>7 DEF Durable!Request, Durable!Idle
<1> QED  BY <1>8 DEF DurableStep, Durable!Next

LEMMA DurableRequest ==
    ASSUME DurableInv, TypeInv', OrderlyClients, NEW t \in Threads, Request(t)
    PROVE  DurableStep
<1> USE DEF DurableInv, Sound, RecoveryInv
<1>1. phase = "running" /\ UNCHANGED <<server, store>>  BY RequestWork
<1>2. /\ DurableMode = "serving" /\ ~Down
      /\ UNCHANGED <<DurableMode, DurableExists, DurableContents>>
  <2>1. DurableMode = "serving" /\ ~Down /\ DurableMode' = DurableMode /\ ~Down'
    BY <1>1 DEF DurableMode, Down
  <2> QED  BY <1>1, <2>1, StoreKept
<1>3. ASSUME pc[t] = "idle", UNCHANGED <<todo, committing>>, NEW a \in Durable!Answers,
             answer' = [answer EXCEPT ![t] = a]
      PROVE  DurableStep
  <2>1. todo[t] = <<>>  BY <1>3 DEF MemoryInv, AtWork
  <2>2. Durable!OtherRequest(t)
    BY <1>2, <1>3, <2>1 DEF Durable!OtherRequest, Durable!Idle
  <2> QED  BY <2>2 DEF DurableStep, Durable!Next
<1>4. ASSUME NEW c \in Collections, CreateCollection(t, c)  PROVE DurableStep
  BY <1>4, DurableAccept DEF CreateCollection
<1>5. ASSUME NEW c \in Collections, NEW k \in Keys,
             (\E d \in Docs : Put(t, c, k, d)) \/ Delete(t, c, k)
      PROVE  DurableStep
  BY <1>5, DurableAccept DEF Put, Delete
<1>6. ASSUME NEW tid \in Tids, CommitTransaction(t, tid)  PROVE DurableStep
  <2>1. \A u \in Threads \ {t} : committing'[u] = committing[u]
    BY <1>6 DEF CommitTransaction, TypeInv, TypeOK
  <2> QED  BY <1>6, <2>1, DurableAccept DEF CommitTransaction
<1>7. ASSUME NEW c \in Collections, NEW k \in Keys, Get(t, c, k)  PROVE DurableStep
  <2>1. todo[t] = <<>>  BY <1>7 DEF Get, MemoryInv, AtWork
  <2>2. c \in DurableExists <=> Exists(c)  BY <1>2, ExistsUp
  <2>3. DurableContents[c][k] = Live(c, k)  BY <1>2, ContentsUp
  <2>4. Durable!Read(t, c, k)
    BY <1>2, <1>7, <2>1, <2>2, <2>3 DEF Get, Durable!Read, Durable!Idle
  <2> QED  BY <2>4 DEF DurableStep, Durable!Next
<1>8. ASSUME UNCHANGED <<todo, committing, answer>>  PROVE DurableStep
  BY <1>2, <1>8, DurableStutters
<1>9. ASSUME NEW tid \in Tids, RollbackTransaction(t, tid) \/ CommitEmpty(t, tid)
      PROVE  DurableStep
  <2>1. "ok" \in Durable!Answers  BY DEF Durable!Answers
  <2> QED  BY <1>3, <1>9, <2>1 DEF RollbackTransaction, CommitEmpty, Ready
<1>10. ASSUME NEW tid \in Tids, NEW c \in Collections, NEW k \in Keys, TxnGet(t, tid, c, k)
       PROVE  DurableStep
  <2>1. (IF Exists(c) THEN Live(c, k) ELSE Nothing) \in Docs \cup {Nothing}  BY DEF Live
  <2>2. TxnView(tid, c, k) \in Docs \cup {Nothing}  BY <2>1, LatestInType DEF TxnView
  <2>3. (IF TxnView(tid, c, k) # Nothing THEN TxnView(tid, c, k) ELSE "absent")
           \in Durable!Answers
    BY <2>2 DEF Durable!Answers
  <2> QED  BY <1>3, <1>10, <2>3 DEF TxnGet, Ready
<1>11. ASSUME NEW tid, NEW op, AddOperation(t, tid, op)  PROVE DurableStep
  BY <1>8, <1>11 DEF AddOperation
<1>12. BeginTransaction(t) => DurableStep  BY <1>8 DEF BeginTransaction
<1>13. ASSUME NEW c \in Collections  PROVE ~DeleteCollection(t, c) /\ ~CreateIndex(t, c)
  BY DEF DeleteCollection, CreateIndex, Accept, Ready, OrderlyClients
<1> QED
  BY <1>4, <1>5, <1>6, <1>7, <1>9, <1>10, <1>11, <1>12, <1>13, Zenon DEF Request

(* The end of an operation is the answer the store gives. *)
LEMMA DurableAnswer ==
    ASSUME DurableInv, NEW t \in Threads, NEW result, Advance(t, result), todo[t] # <<>>
    PROVE  Durable!Answered(t, result)
<1> USE DEF DurableInv, Sound, RecoveryInv, TypeInv, TypeOK
<1> DEFINE batch == [u \in Threads |-> committing[u] # NoTxn]
<1>1. todo' = [todo EXCEPT ![t] = Tail(@)]  BY DEF Advance
<1>2. CASE Tail(todo[t]) # <<>>
  <2>1. UNCHANGED <<committing, answer>>  BY <1>2 DEF Advance
  <2>2. batch' = batch  BY <2>1
  <2> QED  BY <1>1, <1>2, <2>1, <2>2 DEF Durable!Answered
<1>3. CASE Tail(todo[t]) = <<>>
  <2>1. /\ committing' = [committing EXCEPT ![t] = NoTxn]
        /\ answer' = [answer EXCEPT ![t] = IF committing[t] # NoTxn THEN "ok" ELSE result]
    BY <1>3 DEF Advance
  <2>2. batch' = [batch EXCEPT ![t] = FALSE] /\ batch[t] = (committing[t] # NoTxn)
    BY <2>1
  <2> QED  BY <1>1, <1>3, <2>1, <2>2 DEF Durable!Answered
<1> QED  BY <1>2, <1>3

(* Writing one key of one collection. *)
LEMMA WriteOne ==
    ASSUME NEW S, NEW f \in [Collections -> [Keys -> S]], NEW g \in [Collections -> [Keys -> S]],
           NEW d \in Collections, NEW j \in Keys, NEW v,
           \A c \in Collections, k \in Keys :
               g[c][k] = IF c = d /\ k = j THEN v ELSE f[c][k]
    PROVE  g = [f EXCEPT ![d][j] = v]
<1> DEFINE h == [f EXCEPT ![d][j] = v]
<1>1. v \in S
  <2>1. g[d][j] = v /\ g[d][j] \in S  OBVIOUS
  <2> QED  BY <2>1
<1>2. h \in [Collections -> [Keys -> S]]  BY <1>1
<1>3. ASSUME NEW c \in Collections  PROVE g[c] = h[c]
  <2>1. g[c] \in [Keys -> S] /\ h[c] \in [Keys -> S]  BY <1>2
  <2>2. \A k \in Keys : h[c][k] = IF c = d /\ k = j THEN v ELSE f[c][k]  OBVIOUS
  <2> HIDE DEF h
  <2> QED  BY <2>1, <2>2
<1> HIDE DEF h
<1>4. g = h  BY <1>2, <1>3
<1> QED  BY <1>4 DEF h

LEMMA DurableWork ==
    ASSUME DurableInv, TypeInv', OrderlyClients, NEW t \in Threads, Work(t)
    PROVE  DurableStep
<1> USE DEF DurableInv, Sound, RecoveryInv
<1> DEFINE op == CurrentOp(t)
<1>1. /\ Log(t) \/ LogClosed(t) \/ ApplyPut(t) \/ ApplyDelete(t) \/ ApplyCreate(t)
      /\ Alive
  BY WorkCases, AliveSteps DEF MemoryInv
<1>2. todo[t] # <<>> /\ pc[t] # "idle" /\ op \in Ops  BY <1>1, WorkThreads, CurrentOpType
<1>3. /\ DurableMode' = DurableMode /\ ~Down /\ ~Down' /\ DurableMode # "down"
  <2>1. phase' = phase  BY <1>1 DEF Log, LogClosed, ApplyPut, ApplyDelete, ApplyCreate
  <2> QED  BY <1>1, <2>1 DEF DurableMode, Down, Alive
<1>4. /\ DurableExists = {c \in Collections : Exists(c)}
      /\ DurableContents = [c \in Collections |-> [k \in Keys |-> Live(c, k)]]
      /\ DurableExists' = {c \in Collections : Exists(c)'}
      /\ DurableContents' = [c \in Collections |-> [k \in Keys |-> Live(c, k)']]
  BY <1>3 DEF DurableExists, DurableContents
<1>10. /\ DurableContents \in [Collections -> [Keys -> Docs \cup {Nothing}]]
       /\ DurableContents' \in [Collections -> [Keys -> Docs \cup {Nothing}]]
  BY <1>4 DEF Live
<1>5. CASE Log(t)
  <2>1. UNCHANGED <<store, todo, committing, answer>>  BY <1>5 DEF Log
  <2> QED  BY <1>3, <2>1, StoreKept, DurableStutters
<1>6. CASE LogClosed(t)
  <2>1. DurableMode = "closing"  BY <1>6 DEF LogClosed, DurableMode
  <2>2. /\ UNCHANGED store /\ todo' = [todo EXCEPT ![t] = <<>>]
        /\ committing' = [committing EXCEPT ![t] = NoTxn]
        /\ answer' = [answer EXCEPT ![t] = "error"]
    BY <1>6 DEF LogClosed, Fail
  <2>3. [u \in Threads |-> committing'[u] # NoTxn]
        = [[u \in Threads |-> committing[u] # NoTxn] EXCEPT ![t] = FALSE]
    BY <2>2 DEF TypeInv, TypeOK
  <2>4. Durable!Reject(t)
    BY <1>2, <1>3, <2>1, <2>2, <2>3, StoreKept DEF Durable!Reject
  <2> QED  BY <2>4 DEF DurableStep, Durable!Next
<1>7. CASE ApplyPut(t)
  <2>1. /\ op.type = "PUT" /\ Exists(op.coll) /\ UNCHANGED collections /\ Advance(t, "ok")
        /\ data' = [data EXCEPT ![op.coll][op.key] = op.doc]
    BY <1>7 DEF ApplyPut, Applying, AcceptsDocs, Exists
  <2>2. op.coll \in Collections /\ op.key \in Keys /\ op.doc \in Docs
    BY <1>2, <2>1, DocOpFields
  <2>3. \A c \in Collections, k \in Keys :
            Live(c, k)' = IF c = op.coll /\ k = op.key THEN op.doc ELSE Live(c, k)
    BY <2>1, <2>2 DEF Live, TypeInv, TypeOK
  <2>4. DurableContents' = [DurableContents EXCEPT ![op.coll][op.key] = op.doc]
    <3>1. \A c \in Collections, k \in Keys :
              DurableContents'[c][k] = IF c = op.coll /\ k = op.key THEN op.doc
                                       ELSE DurableContents[c][k]
      BY <1>4, <2>3
    <3> HIDE DEF op
    <3> QED  BY <1>10, <2>2, <3>1, WriteOne
  <2>5. UNCHANGED DurableExists  BY <1>4, <2>1 DEF Exists
  <2>6. op.coll \in DurableExists  BY <1>4, <2>1, <2>2
  <2>7. Durable!Write(t)
    BY <1>2, <1>3, <2>1, <2>4, <2>5, <2>6, DurableAnswer DEF Durable!Write, Durable!Busy, CurrentOp
  <2> QED  BY <2>7 DEF DurableStep, Durable!Next
<1>8. CASE ApplyDelete(t)
  <2>1. /\ op.type = "DELETE" /\ UNCHANGED collections
        /\ IF Exists(op.coll) /\ Live(op.coll, op.key) # Nothing
           THEN /\ data' = [data EXCEPT ![op.coll][op.key] = Tombstone]
                /\ Advance(t, "ok")
           ELSE UNCHANGED data /\ Advance(t, "absent")
    BY <1>8 DEF ApplyDelete, Applying
  <2>2. op.coll \in Collections /\ op.key \in Keys
    BY <1>2, <2>1, DocOpFields
  <2>3. IF op.coll \in DurableExists /\ DurableContents[op.coll][op.key] # Nothing
        THEN Advance(t, "ok") ELSE Advance(t, "absent")
    <3>1. /\ op.coll \in DurableExists <=> Exists(op.coll)
          /\ DurableContents[op.coll][op.key] = Live(op.coll, op.key)
      BY <1>4, <2>2
    <3> QED  BY <2>1, <3>1
  <2>4. ASSUME NEW c \in Collections, NEW k \in Keys
        PROVE  Live(c, k)' = IF c = op.coll /\ k = op.key THEN Nothing ELSE Live(c, k)
    <3>1. CASE Exists(op.coll) /\ Live(op.coll, op.key) # Nothing
      BY <2>1, <2>2, <3>1, ValuesAssumption DEF Live, TypeInv, TypeOK
    <3>2. CASE ~(Exists(op.coll) /\ Live(op.coll, op.key) # Nothing)
      <4>1. ~Exists(op.coll) => data[op.coll] = Empty
        BY <2>2 DEF ReplayInv, NoGhosts, Exists
      <4>2. Live(op.coll, op.key) = Nothing
        BY <2>2, <3>2, <4>1, ValuesAssumption DEF Live, Empty
      <4>3. Live(c, k)' = Live(c, k)  BY <2>1, <3>2 DEF Live
      <4> QED  BY <4>2, <4>3
    <3> QED  BY <3>1, <3>2
  <2>5. DurableContents' = [DurableContents EXCEPT ![op.coll][op.key] = Nothing]
    <3>1. \A c \in Collections, k \in Keys :
              DurableContents'[c][k] = IF c = op.coll /\ k = op.key THEN Nothing
                                       ELSE DurableContents[c][k]
      BY <1>4, <2>4
    <3> HIDE DEF op
    <3> QED  BY <1>10, <2>2, <3>1, WriteOne
  <2>6. UNCHANGED DurableExists  BY <1>4, <2>1 DEF Exists
  <2>7. IF op.coll \in DurableExists /\ DurableContents[op.coll][op.key] # Nothing
        THEN Durable!Answered(t, "ok") ELSE Durable!Answered(t, "absent")
    BY <1>2, <2>3, DurableAnswer
  <2>8. Durable!Remove(t)
    BY <1>2, <1>3, <2>1, <2>5, <2>6, <2>7 DEF Durable!Remove, Durable!Busy, Durable!Answered,
       CurrentOp
  <2> QED  BY <2>8 DEF DurableStep, Durable!Next
<1>9. CASE ApplyCreate(t)
  <2>1. /\ op.type = "CREATE_COLLECTION" /\ pc[t] = "apply" /\ Advance(t, "ok")
        /\ data' = [data EXCEPT ![op.coll] = Empty]
        /\ collections' = [collections EXCEPT ![op.coll] = Fresh(op.coll)]
    BY <1>9 DEF ApplyCreate, Applying
  <2>2. op.coll \in Collections /\ ~Exists(op.coll)
    BY <2>1, GoodOp DEF DocOps, CollectionOp, MemoryInv
  <2>3. data[op.coll] = Empty  BY <2>2 DEF ReplayInv, NoGhosts, Exists
  <2>4. UNCHANGED data  BY <2>1, <2>2, <2>3 DEF TypeInv, TypeOK
  <2>5. UNCHANGED DurableContents  BY <1>4, <2>4 DEF Live
  <2>6. DurableExists' = DurableExists \cup {op.coll}
    <3>1. \A c \in Collections : Exists(c)' <=> Exists(c) \/ c = op.coll
      BY <2>1, <2>2 DEF Exists, Fresh, TypeInv, TypeOK
    <3> QED  BY <1>4, <2>2, <3>1
  <2>7. Durable!Create(t)
    BY <1>2, <1>3, <2>1, <2>5, <2>6, DurableAnswer DEF Durable!Create, Durable!Busy, CurrentOp
  <2> QED  BY <2>7 DEF DurableStep, Durable!Next
<1> QED  BY <1>1, <1>5, <1>6, <1>7, <1>8, <1>9

(* A crash: the store keeps what the log says, which is what was in memory *)
(* but for the operations under way that had already been logged.          *)
LEMMA DurableCrash ==
    ASSUME DurableInv, DurableInv', OrderlyClients, LoseMemory, UNCHANGED disk
    PROVE  DurableStep
<1> USE DEF DurableInv, Sound, RecoveryInv
<1>1. /\ phase' = "down" /\ UNCHANGED <<wal, dirs>>
      /\ todo' = [t \in Threads |-> <<>>]
      /\ committing' = [t \in Threads |-> NoTxn]
      /\ answer' = [t \in Threads |-> "none"]
  BY DEF LoseMemory
<1>2. DurableMode' = "down" /\ Down'  BY <1>1 DEF DurableMode, Down
<1>3. DurableExists' = {c \in Collections : Created(c)'}
  <2>1. (DurableInv /\ Down => DurableExists = {c \in Collections : Created(c)})'
    BY ExistsDown, PTL
  <2> QED  BY <1>2, <2>1
<1>4. \A c \in Collections : Created(c)' <=> Created(c)  BY <1>1 DEF Created
<1>5. CASE Down
  <2>1. ~Alive /\ DurableMode = "down"  BY <1>5, ModeIs
  <2>2. \A t \in Threads : todo[t] = <<>> /\ answer[t] = "none" /\ committing[t] = NoTxn
    <3>1. \A t \in Threads : todo[t] = <<>> /\ answer[t] = "none"
      BY <2>1 DEF MemoryInv, AtRest
    <3> QED  BY <3>1 DEF TypeInv, BusyHasWork, CommitInv, CommitsWork
  <2>3. UNCHANGED <<todo, committing, answer>>
    BY <1>1, <2>2 DEF TypeInv, TypeOK
  <2>4. DurableExists = {c \in Collections : Created(c)}  BY <1>5, ExistsDown
  <2>5. UNCHANGED DurableContents
    BY <1>1, <1>2, <1>5 DEF DurableContents, LogValue, LogSays, Recoverable, Writes
  <2> QED  BY <1>2, <1>3, <1>4, <2>1, <2>3, <2>4, <2>5, DurableStutters
<1>6. CASE ~Down
  <2> DEFINE done == {CurrentOp(t) : t \in {u \in Threads : pc[u] = "apply"}}
             hits(c, k) == {op \in done : op.type \in {"PUT", "DELETE"}
                                          /\ op.coll = c /\ op.key = k}
  <2>1. Alive /\ DurableMode # "down"
    BY <1>6 DEF DurableMode, Down, Alive, TypeInv, TypeOK
  <2>2. done \in SUBSET Durable!UnderWay
    <3>1. ASSUME NEW t \in Threads, pc[t] = "apply"  PROVE CurrentOp(t) \in Durable!UnderWay
      BY <3>1 DEF Durable!UnderWay, CurrentOp, TypeInv, BusyHasWork
    <3> QED  BY <3>1
  <2>3. ASSUME NEW op \in done
        PROVE  op \in Ops /\ (op \in DocOps <=> op.type \in {"PUT", "DELETE"})
    <3>1. op \in Ops  BY CurrentOpType
    <3> QED  BY <3>1 DEF Ops, DocOps
  <2>4. DurableExists' = DurableExists \cup
            {op.coll : op \in {o \in done : o.type = "CREATE_COLLECTION"}}
    <3>1. ASSUME NEW c \in Collections
          PROVE  Created(c) <=> Exists(c) \/ Creating(c)
      <4>1. Exists(c) => Created(c)  BY DEF PresentCreated
      <4>2. Creating(c) => Created(c)  BY DEF Creating, LoggedFirst, Created, CreatedIn
      <4>3. Created(c) => Exists(c) \/ Creating(c)  BY <2>1 DEF CreatedIsThere
      <4> QED  BY <4>1, <4>2, <4>3
    <3>2. ASSUME NEW c \in Collections
          PROVE  Creating(c) <=> \E op \in done : op.type = "CREATE_COLLECTION" /\ op.coll = c
      <4>1. ASSUME NEW op \in done, op.type = "CREATE_COLLECTION", op.coll = c
            PROVE  op = CollectionOp("CREATE_COLLECTION", c)
        <5>1. op \in Ops /\ op \notin DocOps  BY <2>3, <4>1
        <5> QED  BY <4>1, <5>1 DEF Ops, CollectionOp
      <4>2. /\ CollectionOp("CREATE_COLLECTION", c).type = "CREATE_COLLECTION"
            /\ CollectionOp("CREATE_COLLECTION", c).coll = c
        BY DEF CollectionOp
      <4> QED  BY <4>1, <4>2 DEF Creating
    <3>3. \A op \in done : op.coll \in Collections  BY <2>3, DocOpFields
    <3>4. DurableExists = {c \in Collections : Exists(c)}  BY <1>6, ExistsUp
    <3> HIDE DEF done
    <3> QED  BY <1>3, <1>4, <3>1, <3>2, <3>3, <3>4
  <2>5. ASSUME NEW c \in Collections, NEW k \in Keys
        PROVE  LogValue(c, k)' = IF hits(c, k) = {} THEN Live(c, k)
                                 ELSE (CHOOSE op \in hits(c, k) : TRUE).doc
    <3>1. LogValue(c, k)' = LogValue(c, k)
      BY <1>1 DEF LogValue, LogSays, Recoverable, Writes
    <3>2. CASE hits(c, k) = {}
      <4>1. ~InFlight(c, k)
        <5>1. ASSUME NEW t \in Threads, pc[t] = "apply", CurrentOp(t).coll = c,
                     CurrentOp(t).key = k
              PROVE  FALSE
          <6>1. CurrentOp(t) \in done  BY <5>1
          <6>2. CurrentOp(t) \in DocOps
            BY <5>1, <6>1, <2>3, ValuesAssumption DEF Ops
          <6>3. CurrentOp(t) \in hits(c, k)  BY <2>3, <5>1, <6>1, <6>2
          <6> QED  BY <3>2, <6>3
        <5> QED  BY <5>1 DEF InFlight
      <4>2. Says(wal, c, k, Len(wal), Live(c, k))
        BY <2>1, <4>1, SaysNow DEF MemoryInv, MemoryIsLog
      <4>3. Live(c, k) \in Docs \cup {Nothing}  BY DEF Live
      <4>4. LogValue(c, k) = Live(c, k)
        <5> DEFINE v == Live(c, k)
        <5> HIDE DEF v
        <5>1. LogValue(c, k) = v  BY <4>2, <4>3, LogValueIs DEF v
        <5> QED  BY <5>1 DEF v
      <4> QED  BY <3>1, <3>2, <4>4
    <3>3. CASE hits(c, k) # {}
      <4> DEFINE op == CHOOSE o \in hits(c, k) : TRUE
      <4>1. op \in hits(c, k)  BY <3>3
      <4> HIDE DEF op
      <4>2. op \in done /\ op \in DocOps /\ op.coll = c /\ op.key = k  BY <2>3, <4>1
      <4>3. PICK t \in Threads : pc[t] = "apply" /\ CurrentOp(t) = op  BY <4>2
      <4>4. Says(wal, c, k, Len(wal), op.doc)
        BY <4>2, <4>3, SaysNow DEF MemoryInv, LastLogged
      <4>5. op.doc \in Docs \cup {Nothing}  BY <4>2 DEF DocOps
      <4>6. LogValue(c, k) = op.doc
        <5> DEFINE v == op.doc
        <5> HIDE DEF v
        <5>1. LogValue(c, k) = v  BY <4>4, <4>5, LogValueIs DEF v
        <5> QED  BY <5>1 DEF v
      <4> QED  BY <3>1, <3>3, <4>6 DEF op
    <3> QED  BY <3>2, <3>3
  <2>6. DurableContents' =
            [c \in Collections |-> [k \in Keys |->
                IF hits(c, k) = {} THEN DurableContents[c][k]
                ELSE (CHOOSE op \in hits(c, k) : TRUE).doc]]
    <3>1. DurableContents = [c \in Collections |-> [k \in Keys |-> Live(c, k)]]
      BY <1>6, ContentsUp
    <3>2. DurableContents' = [c \in Collections |-> [k \in Keys |-> LogValue(c, k)']]
      BY <1>2 DEF DurableContents
    <3> HIDE DEF hits
    <3> QED  BY <2>5, <3>1, <3>2
  <2>7. [t \in Threads |-> committing'[t] # NoTxn] = [t \in Threads |-> FALSE]
    BY <1>1
  <2>8. Durable!Crash
    <3> HIDE DEF done
    <3>1. DurableMode # "down" /\ DurableMode' = "down"  BY <1>2, <2>1
    <3> QED  BY <1>1, <2>2, <2>4, <2>6, <2>7, <3>1 DEF Durable!Crash
  <2> QED  BY <2>8 DEF DurableStep, Durable!Next
<1> QED  BY <1>5, <1>6

(* The steps of a recovery change nothing; its end serves what was stored. *)
LEMMA DurableRecover ==
    ASSUME DurableInv, DurableInv', OrderlyClients, Recover \/ Restart
    PROVE  DurableStep
<1> USE DEF DurableInv, Sound, RecoveryInv
<1>1. /\ UNCHANGED <<wal, todo, committing, answer>> /\ Down /\ DurableMode = "down"
  BY DEF Recover, Restart, ReplayPut, ReplayPutFails, ReplayDelete, ReplayCreate, ReplayDrop,
     FinishRecovery, Replaying, Replayed, Down, DurableMode
<1>2. DurableExists = {c \in Collections : Created(c)}  BY <1>1, ExistsDown
<1>3. \A c \in Collections : Created(c)' <=> Created(c)  BY <1>1 DEF Created
<1>4. CASE Down'
  <2>1. DurableMode' = "down"  BY <1>4 DEF Down, DurableMode
  <2>2. DurableExists' = {c \in Collections : Created(c)'}
    <3>1. (DurableInv /\ Down => DurableExists = {c \in Collections : Created(c)})'
      BY ExistsDown, PTL
    <3> QED  BY <1>4, <3>1
  <2>3. UNCHANGED DurableContents
    BY <1>1, <1>4 DEF DurableContents, LogValue, LogSays, Recoverable, Writes
  <2> QED  BY <1>1, <1>2, <1>3, <2>1, <2>2, <2>3, DurableStutters
<1>5. CASE FinishRecovery
  <2>1. phase' = "running" /\ UNCHANGED data  BY <1>5 DEF FinishRecovery
  <2>2. ~Down' /\ DurableMode' = "serving"  BY <2>1 DEF Down, DurableMode
  <2>3. /\ cursor - 1 = Len(wal)
        /\ \A c \in Collections : Created(c) => Exists(c)
    BY <1>5, RecoveredAll
  <2>4. UNCHANGED DurableExists
    <3>1. \A c \in Collections : Exists(c)' <=> Exists(c) \/ c \in dirs
      BY <1>5 DEF FinishRecovery, Exists, Fresh
    <3>2. \A c \in Collections : Exists(c) \/ c \in dirs => Created(c)  BY DEF PresentCreated
    <3>3. DurableExists' = {c \in Collections : Exists(c)'}  BY <2>2 DEF DurableExists
    <3> QED  BY <1>2, <2>3, <3>1, <3>2, <3>3
  <2>5. ASSUME NEW c \in Collections, NEW k \in Keys
        PROVE  LogValue(c, k) = Live(c, k) /\ Live(c, k)' = Live(c, k)
    <3> DEFINE v == Live(c, k)
    <3>1. v \in Docs \cup {Nothing} /\ Live(c, k)' = v  BY <2>1 DEF Live
    <3>2. Says(wal, c, k, Len(wal), v)
      BY <1>5, <2>3, SaysNow DEF FinishRecovery, ReplayInv, ReplayMatchesLog
    <3>3. LogValue(c, k) = v
      <4> HIDE DEF v
      <4> QED  BY <3>1, <3>2, LogValueIs
    <3> QED  BY <3>1, <3>3
  <2>6. UNCHANGED DurableContents
    <3>1. DurableContents' = [c \in Collections |-> [k \in Keys |-> Live(c, k)']]
      BY <2>2 DEF DurableContents
    <3>2. DurableContents = [c \in Collections |-> [k \in Keys |-> LogValue(c, k)]]
      BY <1>1 DEF DurableContents
    <3> QED  BY <2>5, <3>1, <3>2
  <2>7. Durable!Recover
    BY <1>1, <2>2, <2>4, <2>6 DEF Durable!Recover
  <2> QED  BY <2>7 DEF DurableStep, Durable!Next
<1>6. Down' \/ FinishRecovery
  BY DEF Recover, Restart, ReplayPut, ReplayPutFails, ReplayDelete, ReplayCreate, ReplayDrop,
     Replaying, Replayed, Down
<1> QED  BY <1>4, <1>5, <1>6

LEMMA DurableShutdown ==
    ASSUME DurableInv, Shutdown
    PROVE  DurableStep
<1>1. /\ phase = "running" /\ phase' = "stopped" /\ UNCHANGED <<store, todo, committing, answer>>
  BY DEF Shutdown
<1>2. ~Down /\ ~Down' /\ DurableMode = "serving" /\ DurableMode' = "closing"
  BY <1>1 DEF Down, DurableMode
<1>3. Durable!Close  BY <1>1, <1>2, StoreKept DEF Durable!Close
<1> QED  BY <1>3 DEF DurableStep, Durable!Next

LEMMA DurableNext ==
    ASSUME DurableInv, DurableInv', OrderlyClients, [Next]_vars
    PROVE  DurableStep
<1>1. TypeInv'  BY DEF DurableInv, Sound, RecoveryInv
<1>2. UNCHANGED vars => DurableStep
  <2>1. UNCHANGED vars => UNCHANGED <<DurableMode, DurableExists, DurableContents>>
    BY DEF DurableMode, DurableExists, DurableContents, Down, Exists, Live, LogCreates, LogValue,
       LogSays, Recoverable, Writes
  <2> QED  BY <2>1, DurableStutters
<1> QED
  BY <1>1, <1>2, OrderlyCases, DurableRequest, DurableWork, DurableShutdown, DurableCrash,
     DurableRecover

LEMMA DurableInit == Init => Durable!Init
<1> SUFFICES ASSUME Init PROVE Durable!Init  OBVIOUS
<1>1. Down /\ DurableMode = "down"  BY DEF Init, Down, DurableMode
<1>2. DurableExists = {}  BY <1>1 DEF Init, DurableExists, LogCreates
<1>3. ASSUME NEW c \in Collections, NEW k \in Keys  PROVE LogValue(c, k) = Nothing
  <2>1. Says(wal, c, k, Len(wal), Nothing)  BY SaysNothing DEF Init
  <2> QED  BY <2>1, TypeInit, LogValueIs
<1>4. DurableContents = [c \in Collections |-> [k \in Keys |-> Nothing]]
  BY <1>1, <1>3 DEF DurableContents
<1> QED  BY <1>1, <1>2, <1>4 DEF Init, Durable!Init, Durable!Empty

(* If clients are orderly the engine is the durable store: every answered  *)
(* write survives every crash and every restart, reads return it, and of   *)
(* the write a thread was busy with, all or nothing is there afterwards.   *)
THEOREM EngineIsDurable ==
    ASSUME OrderlyClients
    PROVE  Spec => ImplementsDurableStore
<1>1. DurableInv /\ DurableInv' /\ [Next]_vars => [Durable!Next]_(Durable!vars)
  BY DurableNext DEF DurableStep
<1>2. Spec => []DurableInv  BY DurableInvariant
<1> QED  BY <1>1, <1>2, DurableInit, PTL DEF Spec, ImplementsDurableStore, Durable!Spec

-----------------------------------------------------------------------------
(* Transactions.  One client after another, and no crash.                  *)
LoneClient == OrderlyClients /\ MaxCrashes = 0 /\ \A t, u \in Threads : t = u

(* The latest of some operations on a key: none, the last one that concerns *)
(* it, or what the rest leaves of what the first one left.                  *)
Concerns(seq, i, c, k) == seq[i].coll = c /\ seq[i].key = k

LEMMA LatestInNone ==
    ASSUME NEW seq, NEW c, NEW k, NEW old, \A i \in DOMAIN seq : ~Concerns(seq, i, c, k)
    PROVE  LatestIn(seq, c, k, old) = old
BY DEF LatestIn, Concerns

LEMMA LatestInLast ==
    ASSUME NEW S, NEW seq \in Seq(S), NEW c, NEW k, NEW old, NEW i \in DOMAIN seq,
           Concerns(seq, i, c, k), \A j \in DOMAIN seq : j > i => ~Concerns(seq, j, c, k)
    PROVE  LatestIn(seq, c, k, old) = seq[i].doc
<1> DEFINE own == {j \in DOMAIN seq : seq[j].coll = c /\ seq[j].key = k}
           last == CHOOSE m \in own : \A j \in own : j <= m
<1>1. DOMAIN seq = 1..Len(seq) /\ Len(seq) \in Nat  BY LenProperties
<1>2. i \in own  BY DEF Concerns
<1>3. \A j \in own : j \in Int /\ j <= i  BY <1>1 DEF Concerns
<1>4. last \in own /\ i <= last  BY <1>2, <1>3
<1>5. last = i
  <2> HIDE DEF last
  <2> QED  BY <1>3, <1>4, <1>1
<1>6. own # {}  BY <1>2
<1>7. LatestIn(seq, c, k, old) = seq[last].doc  BY <1>6, Zenon DEF LatestIn
<1> QED  BY <1>5, <1>7

LEMMA LastConcerning ==
    ASSUME NEW S, NEW seq \in Seq(S), NEW c, NEW k, NEW m \in DOMAIN seq, Concerns(seq, m, c, k)
    PROVE  \E i \in DOMAIN seq : /\ Concerns(seq, i, c, k)
                                 /\ \A j \in DOMAIN seq : j > i => ~Concerns(seq, j, c, k)
<1> DEFINE own == {j \in DOMAIN seq : Concerns(seq, j, c, k)}
<1>1. DOMAIN seq = 1..Len(seq) /\ Len(seq) \in Nat  BY LenProperties
<1>2. own \subseteq Nat /\ own # {} /\ \A j \in own : j <= Len(seq)  BY <1>1
<1>3. PICK i \in own : \A j \in own : j <= i
  <2> HIDE DEF own
  <2> QED  BY <1>1, <1>2, MaxExists
<1>4. \A j \in DOMAIN seq : j > i => j \notin own  BY <1>1, <1>2, <1>3
<1> QED  BY <1>3, <1>4

LEMMA LatestInRest ==
    ASSUME NEW S, NEW seq \in Seq(S), seq # <<>>, NEW c, NEW k, NEW old
    PROVE  LatestIn(seq, c, k, old)
           = LatestIn(Tail(seq), c, k, IF Concerns(seq, 1, c, k) THEN seq[1].doc ELSE old)
<1> DEFINE rest == Tail(seq)
           mid == IF Concerns(seq, 1, c, k) THEN seq[1].doc ELSE old
<1>1. /\ rest \in Seq(S) /\ Len(rest) = Len(seq) - 1 /\ Len(seq) \in Nat \ {0}
      /\ DOMAIN rest = 1..(Len(seq) - 1) /\ DOMAIN seq = 1..Len(seq)
  <2>1. rest \in Seq(S) /\ Len(rest) = Len(seq) - 1  BY HeadTailProperties
  <2>2. Len(seq) \in Nat \ {0}  BY EmptySeq, LenProperties
  <2> QED  BY <2>1, <2>2, LenProperties
<1>2. \A i \in DOMAIN rest : rest[i] = seq[i + 1]  BY TailElements
<1>3. \A i \in DOMAIN rest : Concerns(rest, i, c, k) <=> Concerns(seq, i + 1, c, k)
  BY <1>2 DEF Concerns
<1>4. \A j \in DOMAIN seq : j > 1 => j - 1 \in DOMAIN rest /\ (j - 1) + 1 = j  BY <1>1
<1>5. CASE \E m \in DOMAIN rest : Concerns(rest, m, c, k)
  <2>1. PICK i \in DOMAIN rest : /\ Concerns(rest, i, c, k)
                                 /\ \A j \in DOMAIN rest : j > i => ~Concerns(rest, j, c, k)
    <3> HIDE DEF rest
    <3> QED  BY <1>1, <1>5, LastConcerning
  <2>2. LatestIn(rest, c, k, mid) = rest[i].doc
    <3> HIDE DEF rest, mid
    <3> QED  BY <1>1, <2>1, LatestInLast
  <2>3. i + 1 \in DOMAIN seq /\ Concerns(seq, i + 1, c, k) /\ rest[i] = seq[i + 1]
    <3> HIDE DEF rest
    <3> QED  BY <1>1, <1>2, <1>3, <2>1
  <2>4. ASSUME NEW j \in DOMAIN seq, j > i + 1  PROVE ~Concerns(seq, j, c, k)
    <3> HIDE DEF rest
    <3>1. j > 1 /\ j - 1 > i  BY <1>1, <2>1, <2>4
    <3>2. ~Concerns(rest, j - 1, c, k)  BY <1>4, <2>1, <3>1
    <3> QED  BY <1>3, <1>4, <3>1, <3>2
  <2>5. LatestIn(seq, c, k, old) = seq[i + 1].doc  BY <2>3, <2>4, LatestInLast
  <2> QED  BY <2>2, <2>3, <2>5
<1>6. CASE ~\E m \in DOMAIN rest : Concerns(rest, m, c, k)
  <2>1. LatestIn(rest, c, k, mid) = mid
    <3> HIDE DEF rest, mid
    <3> QED  BY <1>6, LatestInNone
  <2>2. \A j \in DOMAIN seq : j > 1 => ~Concerns(seq, j, c, k)
    <3> HIDE DEF rest
    <3> QED  BY <1>3, <1>4, <1>6
  <2>3. 1 \in DOMAIN seq /\ \A j \in DOMAIN seq : j = 1 \/ j > 1  BY <1>1
  <2>4. CASE Concerns(seq, 1, c, k)
    <3>1. LatestIn(seq, c, k, old) = seq[1].doc  BY <2>2, <2>3, <2>4, LatestInLast
    <3> QED  BY <2>1, <2>4, <3>1
  <2>5. CASE ~Concerns(seq, 1, c, k)
    <3>1. \A j \in DOMAIN seq : ~Concerns(seq, j, c, k)  BY <2>2, <2>3, <2>5
    <3>2. LatestIn(seq, c, k, old) = old  BY <3>1, LatestInNone
    <3> QED  BY <2>1, <2>5, <3>2
  <2> QED  BY <2>4, <2>5
<1> QED  BY <1>5, <1>6

(* The abstract store reads a transaction's operations in the same way. *)
LEMMA AfterIsLatest ==
    ASSUME NEW S, NEW seq \in Seq(S), NEW c, NEW k, NEW old
    PROVE  Acid!After(seq, c, k, old) = LatestIn(seq, c, k, old)
<1>1. CASE \A i \in DOMAIN seq : ~Concerns(seq, i, c, k)
  <2>1. ~\E i \in DOMAIN seq : seq[i].coll = c /\ seq[i].key = k  BY <1>1 DEF Concerns
  <2> QED  BY <1>1, <2>1, LatestInNone DEF Acid!After
<1>2. CASE \E i \in DOMAIN seq : Concerns(seq, i, c, k)
  <2> DEFINE last == CHOOSE i \in DOMAIN seq :
                 /\ seq[i].coll = c /\ seq[i].key = k
                 /\ \A j \in DOMAIN seq : j > i => seq[j].coll # c \/ seq[j].key # k
  <2>1. \E i \in DOMAIN seq :
                 /\ seq[i].coll = c /\ seq[i].key = k
                 /\ \A j \in DOMAIN seq : j > i => seq[j].coll # c \/ seq[j].key # k
    BY <1>2, LastConcerning DEF Concerns
  <2>2. /\ last \in DOMAIN seq /\ seq[last].coll = c /\ seq[last].key = k
        /\ \A j \in DOMAIN seq : j > last => seq[j].coll # c \/ seq[j].key # k
    BY <2>1
  <2>3. Acid!After(seq, c, k, old) = seq[last].doc
    BY <1>2, Zenon DEF Acid!After, Concerns
  <2>4. LatestIn(seq, c, k, old) = seq[last].doc
    <3> HIDE DEF last
    <3>1. last \in DOMAIN seq /\ Concerns(seq, last, c, k)  BY <2>2 DEF Concerns
    <3>2. \A j \in DOMAIN seq : j > last => ~Concerns(seq, j, c, k)  BY <2>2 DEF Concerns
    <3> QED  BY <3>1, <3>2, LatestInLast
  <2> HIDE DEF last
  <2> QED  BY <2>3, <2>4
<1> QED  BY <1>1, <1>2

(* Nothing is recovered but an empty log, transaction ids are not used      *)
(* twice, and only a commit has more than one operation to carry out.       *)
FirstRun == phase = "recovering" =>
    wal = <<>> /\ dirs = {} /\ \A c \in Collections : ~Exists(c)
IdsAreFresh == \A tid \in active : tid < nextTid
OneOperation ==
    \A t \in Threads : pc[t] # "idle" /\ committing[t] = NoTxn => Tail(todo[t]) = <<>>

LoneRun == /\ FirstRun /\ IdsAreFresh /\ OneOperation
           /\ phase \in {"recovering", "running"}
AcidInv == DurableInv /\ LoneRun

(* All that a lone client can bring about. *)
LEMMA LoneCases ==
    ASSUME LoneClient, AcidInv, [Next]_vars
    PROVE  \/ \E t \in Threads : Request(t)
           \/ \E t \in Threads : /\ Work(t)
                                 /\ Log(t) \/ ApplyPut(t) \/ ApplyDelete(t) \/ ApplyCreate(t)
           \/ FinishRecovery /\ phase = "recovering"
           \/ UNCHANGED vars
<1> USE DEF AcidInv, LoneRun, DurableInv, Sound, RecoveryInv
<1>1. ~(crashes < MaxCrashes)  BY DEF LoneClient, TypeInv, TypeOK
<1>2. ~Shutdown /\ ~Crash /\ ~Restart /\ \A t \in Threads : ~CrashInAppend(t)
  BY <1>1 DEF Shutdown, Crash, Restart, CrashInAppend
<1>3. \A t, u \in Threads : ~LogGarbled(t, u)  BY DEF LogGarbled, LoneClient
<1>4. phase = "recovering" => cursor \notin DOMAIN wal  BY DEF FirstRun
<1>5. Recover => FinishRecovery /\ phase = "recovering"
  BY <1>4 DEF Recover, ReplayPut, ReplayPutFails, ReplayDelete, ReplayCreate, ReplayDrop,
     Replaying, FinishRecovery
<1>6. ASSUME NEW t \in Threads, Work(t)
      PROVE  Log(t) \/ ApplyPut(t) \/ ApplyDelete(t) \/ ApplyCreate(t)
  <2>1. ~LogClosed(t)  BY DEF LogClosed
  <2> QED  BY <1>6, <2>1, WorkCases DEF LoneClient, MemoryInv
<1> QED  BY <1>2, <1>3, <1>5, <1>6, Zenon DEF Next

(* An operation that ends leaves one less to do. *)
LEMMA LoneAdvance ==
    ASSUME LoneClient, AcidInv, NEW t \in Threads, pc[t] = "apply", NEW result,
           Advance(t, result)
    PROVE  /\ todo[t] # <<>> /\ todo'[t] = Tail(todo[t]) /\ UNCHANGED <<nextTid, ops>>
           /\ active' \subseteq active
           /\ \/ /\ Tail(todo[t]) = <<>> /\ pc'[t] = "idle" /\ committing'[t] = NoTxn
                 /\ active' = active \ {committing[t]}
                 /\ answer' = [answer EXCEPT ![t] = IF committing[t] # NoTxn THEN "ok" ELSE result]
              \/ /\ Tail(todo[t]) # <<>> /\ pc'[t] = "log" /\ committing[t] # NoTxn
                 /\ UNCHANGED <<active, committing, answer>>
<1> USE DEF AcidInv, LoneRun, DurableInv, Sound, RecoveryInv, TypeInv, TypeOK
<1>1. todo[t] # <<>>  BY DEF BusyHasWork
<1>2. todo'[t] = Tail(todo[t]) /\ UNCHANGED <<nextTid, ops>>  BY DEF Advance
<1>3. CASE Tail(todo[t]) = <<>>  BY <1>1, <1>2, <1>3 DEF Advance
<1>4. CASE Tail(todo[t]) # <<>>
  <2>1. committing[t] # NoTxn  BY <1>4 DEF OneOperation
  <2> QED  BY <1>1, <1>2, <1>4, <2>1 DEF Advance
<1> QED  BY <1>3, <1>4

LEMMA AcidInvNext ==
    ASSUME LoneClient, AcidInv, DurableInv', [Next]_vars
    PROVE  AcidInv'
<1> SUFFICES LoneRun'  BY DEF AcidInv
<1> USE DEF LoneRun
<1>5. TypeInv /\ Sound /\ MemoryInv /\ LoneRun  BY DEF AcidInv, DurableInv, Sound, RecoveryInv
<1>1. CASE UNCHANGED vars
  <2>1. UNCHANGED <<wal, dirs, collections, phase, nextTid, active, pc, todo, committing>>
    BY <1>1
  <2>2. FirstRun'  BY <1>5, <2>1 DEF FirstRun, Exists
  <2>4. IdsAreFresh'  BY <1>5, <2>1 DEF IdsAreFresh
  <2>5. phase' \in {"recovering", "running"}  BY <1>5, <2>1
  <2>3. OneOperation'  BY <1>5, <2>1 DEF OneOperation
  <2> QED  BY <2>2, <2>3, <2>4, <2>5
<1>2. CASE FinishRecovery
  <2>1. phase' = "running" /\ UNCHANGED <<txns, threads>>  BY <1>2 DEF FinishRecovery
  <2>2. FirstRun'  BY <2>1 DEF FirstRun
  <2>4. IdsAreFresh'  BY <1>5, <2>1 DEF IdsAreFresh
  <2>3. OneOperation'  BY <1>5, <2>1 DEF OneOperation
  <2> QED  BY <2>1, <2>2, <2>3, <2>4
<1>3. ASSUME NEW t \in Threads, Request(t)  PROVE LoneRun'
  <2>1. phase = "running" /\ phase' = "running" /\ pc[t] = "idle"
    BY <1>3, <1>5, RequestWork, RequestCases DEF LoneClient, Put, Delete, CommitTransaction, Accept,
       Ready, CreateCollection, DeleteCollection, CreateIndex
  <2>2. \A u \in Threads : u = t  BY DEF LoneClient
  <2>3. FirstRun'  BY <2>1 DEF FirstRun
  <2>4. IdsAreFresh'
    <3>1. BeginTransaction(t) => IdsAreFresh'
      BY <1>5 DEF BeginTransaction, IdsAreFresh, TypeInv, TypeOK, Tids
    <3>2. active' \subseteq active /\ UNCHANGED nextTid => IdsAreFresh'
      BY <1>5 DEF IdsAreFresh
    <3>3. BeginTransaction(t) \/ (active' \subseteq active /\ UNCHANGED nextTid)
      BY <1>3 DEF Request, CreateCollection, DeleteCollection, CreateIndex, Put, Delete, Get,
         RollbackTransaction, CommitEmpty, CommitTransaction, AddOperation, TxnGet, Accept
    <3> QED  BY <3>1, <3>2, <3>3
  <2>5. OneOperation'
    <3>1. ASSUME NEW op, NEW kind, Accept(t, kind, <<op>>), UNCHANGED committing
          PROVE  OneOperation'
      <4>1. todo'[t] = <<op>>  BY <1>5, <3>1 DEF Accept, TypeInv, TypeOK
      <4>2. Tail(<<op>>) = <<>>  OBVIOUS
      <4> QED  BY <2>2, <4>1, <4>2 DEF OneOperation
    <3>2. ASSUME NEW tid \in Tids, CommitTransaction(t, tid)  PROVE OneOperation'
      <4>1. committing'[t] = tid  BY <1>5, <3>2 DEF CommitTransaction, TypeInv, TypeOK
      <4>2. tid # NoTxn  BY ValuesAssumption, BoundsAssumption DEF Tids
      <4> QED  BY <2>2, <4>1, <4>2 DEF OneOperation
    <3>3. UNCHANGED <<pc, todo, committing>> => OneOperation'  BY <1>5 DEF OneOperation
    <3>4. ASSUME NEW c \in Collections,
                 CreateCollection(t, c) \/ DeleteCollection(t, c) \/ CreateIndex(t, c)
          PROVE  OneOperation'
      BY <3>1, <3>3, <3>4 DEF CreateCollection, DeleteCollection, CreateIndex
    <3>5. ASSUME NEW c \in Collections, NEW k \in Keys,
                 (\E d \in Docs : Put(t, c, k, d)) \/ Delete(t, c, k)
          PROVE  OneOperation'
      BY <3>1, <3>5 DEF Put, Delete
    <3> QED  BY <1>3, <3>2, <3>3, <3>4, <3>5, RequestCases
  <2> QED  BY <2>1, <2>3, <2>4, <2>5
<1>4. ASSUME NEW t \in Threads,
             Log(t) \/ ApplyPut(t) \/ ApplyDelete(t) \/ ApplyCreate(t)
      PROVE  LoneRun'
  <2>1. \A u \in Threads : u = t  BY DEF LoneClient
  <2>2. phase' = "running"
    BY <1>4, <1>5 DEF Log, ApplyPut, ApplyDelete, ApplyCreate, Applying, Alive
  <2>3. CASE Log(t)
    <3>1. UNCHANGED <<txns, todo, committing>> /\ pc[t] # "idle"  BY <2>3 DEF Log
    <3> QED  BY <1>5, <2>1, <2>2, <3>1 DEF FirstRun, IdsAreFresh, OneOperation
  <2>4. ASSUME pc[t] = "apply", NEW result, Advance(t, result)  PROVE LoneRun'
    <3>1. active' \subseteq active /\ UNCHANGED nextTid  BY <2>4, LoneAdvance
    <3>2. pc'[t] = "idle" \/ committing'[t] # NoTxn  BY <2>4, LoneAdvance
    <3> QED  BY <1>5, <2>1, <2>2, <3>1, <3>2 DEF FirstRun, IdsAreFresh, OneOperation
  <2> QED  BY <1>4, <2>3, <2>4 DEF ApplyPut, ApplyDelete, ApplyCreate, Applying
<1> HIDE DEF LoneRun
<1> QED  BY <1>1, <1>2, <1>3, <1>4, LoneCases

LEMMA AcidInvariant == ASSUME LoneClient PROVE Spec => []AcidInv
<1>1. Spec => []DurableInv  BY DurableInvariant DEF LoneClient
<1>2. Init => LoneRun
  BY DEF LoneRun, Init, FirstRun, IdsAreFresh, OneOperation, Exists
<1>3. Init /\ DurableInv => AcidInv  BY <1>2 DEF AcidInv
<1>4. AcidInv /\ DurableInv' /\ [Next]_vars => AcidInv'  BY AcidInvNext
<1> QED  BY <1>1, <1>3, <1>4, PTL DEF Spec

(* The mapping, as it is for a lone client. *)
Counts(t) == /\ committing[t] # NoTxn
             /\ pc[t] = "apply" \/ Len(todo[t]) < Len(ops[committing[t]])
Ahead(t) == IF committing[t] = NoTxn
            THEN IF pc[t] = "apply" THEN <<CurrentOp(t)>> ELSE <<>>
            ELSE IF Counts(t) THEN todo[t] ELSE <<>>
LoneView ==
    \A t \in Threads :
        /\ Begun(t) <=> Counts(t)
        /\ Open = IF Counts(t) THEN active \ {committing[t]} ELSE active
        /\ Bound(t) = Ahead(t) /\ Ahead(t) \in Seq(Ops)
        /\ \A c \in Collections, k \in Keys :
               Outcome(c, k) = IF Exists(c) THEN LatestIn(Ahead(t), c, k, Live(c, k)) ELSE Nothing
        /\ \A c \in Collections :
               BoundToCreate(c) <=> /\ Ahead(t) # <<>> /\ ~Exists(c)
                                    /\ Head(Ahead(t)) = CollectionOp("CREATE_COLLECTION", c)

LEMMA LoneViewHolds == ASSUME LoneClient PROVE AcidInv => LoneView
<1> SUFFICES ASSUME AcidInv, NEW t \in Threads
             PROVE  /\ Begun(t) <=> Counts(t)
                    /\ Open = IF Counts(t) THEN active \ {committing[t]} ELSE active
                    /\ Bound(t) = Ahead(t) /\ Ahead(t) \in Seq(Ops)
                    /\ \A c \in Collections, k \in Keys :
                           Outcome(c, k) = IF Exists(c) THEN LatestIn(Ahead(t), c, k, Live(c, k))
                                           ELSE Nothing
                    /\ \A c \in Collections :
                           BoundToCreate(c) <=>
                               /\ Ahead(t) # <<>> /\ ~Exists(c)
                               /\ Head(Ahead(t)) = CollectionOp("CREATE_COLLECTION", c)
  BY DEF LoneView
<1>1. Sound /\ AtWork /\ TypeInv /\ NoIndexes /\ NoGhosts /\ CommitsWork
  BY DEF AcidInv, DurableInv, Sound, RecoveryInv, ReplayInv, CommitInv, MemoryInv
<1>2. \A u \in Threads : u = t  BY DEF LoneClient
<1>3. \A c \in Collections : AcceptsDocs(c) <=> Exists(c)
  BY <1>1 DEF NoIndexes, AcceptsDocs, Exists
<1>4. ~Doomed(t)
  <2>1. ASSUME NEW i \in DOMAIN todo[t], todo[t][i].type = "PUT"
        PROVE  AcceptsDocs(todo[t][i].coll)
    <3>1. todo[t] \in Seq(Ops)  BY <1>1 DEF TypeInv, TypeOK
    <3>2. GoodWork(t, todo[t])  BY <1>1 DEF AtWork
    <3>3. ASSUME NEW c, todo[t] = <<CollectionOp("CREATE_COLLECTION", c)>>  PROVE FALSE
      <4> DEFINE op == CollectionOp("CREATE_COLLECTION", c)
      <4>1. op.type = "CREATE_COLLECTION"  BY DEF CollectionOp
      <4>2. DOMAIN <<op>> = {1} /\ <<op>>[1] = op  OBVIOUS
      <4>3. i = 1 /\ todo[t][i] = op  BY <3>3, <4>2
      <4> QED  BY <2>1, <4>1, <4>3
    <3>4. Exists(todo[t][i].coll) /\ todo[t] \in Seq(DocOps)
      BY <2>1, <3>2, <3>3 DEF GoodWork, DocWork, CreateWork
    <3>5. todo[t][i] \in DocOps  BY <3>4, ElementOfSeq, LenProperties
    <3>6. todo[t][i].coll \in Collections  BY <3>5 DEF DocOps
    <3> QED  BY <1>3, <3>4, <3>6
  <2> QED  BY <2>1 DEF Doomed
<1>5. Begun(t) <=> Counts(t)  BY <1>4 DEF Begun, Counts
<1>6. Open = IF Counts(t) THEN active \ {committing[t]} ELSE active
  <2>1. {committing[u] : u \in {v \in Threads : Begun(v)}}
        = IF Counts(t) THEN {committing[t]} ELSE {}
    BY <1>2, <1>5
  <2> QED  BY <2>1 DEF Open
<1>7. Bound(t) = Ahead(t)
  <2>1. CASE Counts(t)  BY <1>5, <2>1 DEF Bound, Ahead, Counts
  <2>2. CASE ~Counts(t) /\ committing[t] = NoTxn /\ pc[t] = "apply"
    BY <1>4, <1>5, <2>2 DEF Bound, Ahead
  <2>3. CASE ~Counts(t) /\ ~(committing[t] = NoTxn /\ pc[t] = "apply")
    BY <1>4, <1>5, <2>3 DEF Bound, Ahead
  <2> QED  BY <2>1, <2>2, <2>3
<1>8. ASSUME Ahead(t) # <<>>
      PROVE  pc[t] # "idle" /\ Head(Ahead(t)) = CurrentOp(t) /\ Ahead(t) \in Seq(Ops)
  <2>1. CASE committing[t] = NoTxn
    <3>1. pc[t] = "apply" /\ Ahead(t) = <<CurrentOp(t)>>  BY <1>8, <2>1 DEF Ahead
    <3>2. CurrentOp(t) \in Ops  BY <1>1, <3>1, CurrentOpType
    <3> QED  BY <3>1, <3>2, SingletonSeq
  <2>2. CASE committing[t] # NoTxn
    <3>1. Ahead(t) = todo[t]  BY <1>8, <2>2 DEF Ahead
    <3>2. todo[t] \in Seq(Ops)  BY <1>1 DEF TypeInv, TypeOK
    <3> QED  BY <1>1, <2>2, <3>1, <3>2 DEF CommitsWork, CurrentOp
  <2> QED  BY <2>1, <2>2
<1>9. Ahead(t) \in Seq(Ops)  BY <1>8, EmptySeq
<1>10. ASSUME NEW c \in Collections, NEW k \in Keys
       PROVE  Outcome(c, k) = IF Exists(c) THEN LatestIn(Ahead(t), c, k, Live(c, k)) ELSE Nothing
  <2> DEFINE busy == {u \in Threads : Bound(u) # <<>>}
  <2>1. CASE ~Exists(c)
    <3>1. data[c] = Empty  BY <1>1, <2>1 DEF NoGhosts, Exists
    <3>2. Live(c, k) = Nothing  BY <3>1, ValuesAssumption DEF Live, Empty
    <3>3. Outcome(c, k) = Live(c, k)  BY <1>3, <2>1 DEF Outcome
    <3> QED  BY <2>1, <3>2, <3>3
  <2>2. CASE Exists(c) /\ Ahead(t) = <<>>
    <3>1. busy = {}  BY <1>2, <1>7, <2>2
    <3>2. Outcome(c, k) = Live(c, k)  BY <3>1 DEF Outcome
    <3>3. LatestIn(<<>>, c, k, Live(c, k)) = Live(c, k)  BY LatestInNone
    <3> QED  BY <2>2, <3>2, <3>3
  <2>3. CASE Exists(c) /\ Ahead(t) # <<>>
    <3>1. busy = {t}  BY <1>2, <1>7, <2>3
    <3>4. (CHOOSE u \in busy : TRUE) = t  BY <3>1
    <3>2. Outcome(c, k) = LatestIn(Bound(CHOOSE u \in busy : TRUE), c, k, Live(c, k))
      BY <1>3, <2>3, <3>1, SMT DEF Outcome
    <3> QED  BY <1>7, <2>3, <3>2, <3>4
  <2> QED  BY <2>1, <2>2, <2>3
<1>11. ASSUME NEW c \in Collections
       PROVE  BoundToCreate(c) <=> /\ Ahead(t) # <<>> /\ ~Exists(c)
                                   /\ Head(Ahead(t)) = CollectionOp("CREATE_COLLECTION", c)
  <2>1. BoundToCreate(c) <=> /\ Ahead(t) # <<>>
                             /\ Head(Ahead(t)) = CollectionOp("CREATE_COLLECTION", c)
    BY <1>2, <1>7 DEF BoundToCreate
  <2>2. ASSUME Ahead(t) # <<>>, Head(Ahead(t)) = CollectionOp("CREATE_COLLECTION", c)
        PROVE  ~Exists(c)
    <3>1. pc[t] # "idle" /\ CurrentOp(t) = CollectionOp("CREATE_COLLECTION", c)
      BY <1>8, <2>2
    <3>2. CurrentOp(t).coll = c /\ CurrentOp(t) \notin DocOps  BY <3>1 DEF CollectionOp, DocOps
    <3> QED  BY <1>1, <3>1, <3>2, GoodOp
  <2> QED  BY <2>1, <2>2
<1> QED  BY <1>5, <1>6, <1>7, <1>9, <1>10, <1>11

(* The same for the state a step leads to. *)
LEMMA LoneViewNext == ASSUME LoneClient PROVE AcidInv' => LoneView'
<1>1. AcidInv => LoneView  BY LoneViewHolds
<1> QED  BY <1>1, PTL

(* Where a thread has nothing ahead the store is the memory. *)
QuietView ==
    \A t \in Threads : phase = "running" /\ Ahead(t) = <<>> =>
        /\ Open = active
        /\ AcidExists = {c \in Collections : Exists(c)}
        /\ AcidContents = [c \in Collections |-> [k \in Keys |-> Live(c, k)]]

LEMMA QuietViewHolds == ASSUME LoneClient PROVE AcidInv => QuietView
<1> SUFFICES ASSUME AcidInv, NEW t \in Threads, phase = "running", Ahead(t) = <<>>
             PROVE  /\ Open = active
                    /\ AcidExists = {c \in Collections : Exists(c)}
                    /\ AcidContents = [c \in Collections |-> [k \in Keys |-> Live(c, k)]]
  BY DEF QuietView
<1>1. LoneView /\ TypeInv /\ CommitsWork /\ NoGhosts
  BY LoneViewHolds DEF AcidInv, DurableInv, Sound, RecoveryInv, CommitInv, ReplayInv
<1>2. ~Down  BY DEF Down
<1>3. ~Counts(t)
  <2>1. Counts(t) => Ahead(t) = todo[t] /\ pc[t] # "idle"
    BY <1>1 DEF Counts, Ahead, CommitsWork
  <2> QED  BY <1>1, <2>1 DEF TypeInv, BusyHasWork
<1>4. Open = active  BY <1>1, <1>3 DEF LoneView
<1>5. \A c \in Collections : ~BoundToCreate(c)  BY <1>1 DEF LoneView
<1>6. ASSUME NEW c \in Collections, NEW k \in Keys  PROVE Outcome(c, k) = Live(c, k)
  <2>1. LatestIn(<<>>, c, k, Live(c, k)) = Live(c, k)  BY LatestInNone
  <2>2. ~Exists(c) => Live(c, k) = Nothing
    BY <1>1, ValuesAssumption DEF NoGhosts, Exists, Live, Empty
  <2> QED  BY <1>1, <2>1, <2>2 DEF LoneView
<1>7. AcidExists = {c \in Collections : Exists(c)}  BY <1>2, <1>5 DEF AcidExists
<1>8. AcidContents = [c \in Collections |-> [k \in Keys |-> Live(c, k)]]
  BY <1>2, <1>6 DEF AcidContents
<1> QED  BY <1>4, <1>7, <1>8

LEMMA QuietViewNext == ASSUME LoneClient PROVE AcidInv' => QuietView'
<1>1. AcidInv => QuietView  BY QuietViewHolds
<1> QED  BY <1>1, PTL

AcidStep == [Acid!Next]_(Acid!vars)

(* A request changes neither the collections nor what they hold. *)
LEMMA AcidRequestQuiet ==
    ASSUME LoneClient, AcidInv, AcidInv', NEW t \in Threads, Request(t)
    PROVE  /\ phase = "running" /\ phase' = "running" /\ UNCHANGED <<disk, server, store>>
           /\ pc[t] = "idle" /\ committing[t] = NoTxn
           /\ Ahead(t) = <<>> /\ Ahead(t)' = <<>>
           /\ Open = active /\ Open' = active'
           /\ UNCHANGED <<AcidExists, AcidContents>>
           /\ AcidExists = {c \in Collections : Exists(c)}
           /\ AcidContents = [c \in Collections |-> [k \in Keys |-> Live(c, k)]]
<1>1. Sound /\ MemoryInv /\ TypeInv /\ CommitsWork
  BY DEF AcidInv, DurableInv, Sound, RecoveryInv, CommitInv
<1>2. phase = "running" /\ phase' = "running" /\ UNCHANGED <<disk, server, store>>
  BY <1>1, RequestWork DEF LoneClient
<1>3. pc[t] = "idle"
  BY RequestCases DEF Put, Delete, CommitTransaction, Accept, Ready, CreateCollection,
     DeleteCollection, CreateIndex
<1>4. committing[t] = NoTxn  BY <1>1, <1>3 DEF CommitsWork
<1>5. Ahead(t) = <<>>  BY <1>3, <1>4 DEF Ahead
<1>6. Ahead(t)' = <<>>
  <2>1. ASSUME NEW tid \in Tids, CommitTransaction(t, tid)  PROVE Ahead(t)' = <<>>
    <3>1. committing'[t] = tid /\ pc'[t] = "log" /\ todo'[t] = ops[tid] /\ UNCHANGED ops
      BY <1>1, <2>1 DEF CommitTransaction, Accept, TypeInv, TypeOK
    <3>2. tid # NoTxn  BY ValuesAssumption, BoundsAssumption DEF Tids
    <3>3. Len(ops[tid]) \in Nat  BY <1>1, LenProperties DEF TypeInv, TypeOK
    <3>4. ~Counts(t)'  BY <3>1, <3>2, <3>3 DEF Counts
    <3> QED  BY <3>1, <3>2, <3>4 DEF Ahead
  <2>2. ASSUME NEW kind, NEW work, Accept(t, kind, work), UNCHANGED committing
        PROVE  Ahead(t)' = <<>>
    <3>1. committing'[t] = NoTxn /\ pc'[t] = "log"
      BY <1>1, <1>4, <2>2 DEF Accept, TypeInv, TypeOK
    <3> QED  BY <3>1 DEF Ahead
  <2>3. UNCHANGED <<pc, todo, committing>> => Ahead(t)' = <<>>
    BY <1>3, <1>4 DEF Ahead
  <2>4. ASSUME NEW c \in Collections,
               CreateCollection(t, c) \/ DeleteCollection(t, c) \/ CreateIndex(t, c)
        PROVE  Ahead(t)' = <<>>
    BY <2>2, <2>3, <2>4 DEF CreateCollection, DeleteCollection, CreateIndex
  <2>5. ASSUME NEW c \in Collections, NEW k \in Keys,
               (\E d \in Docs : Put(t, c, k, d)) \/ Delete(t, c, k)
        PROVE  Ahead(t)' = <<>>
    BY <2>2, <2>5 DEF Put, Delete
  <2> QED  BY <2>1, <2>3, <2>4, <2>5, RequestCases
<1>7. /\ Open = active /\ AcidExists = {c \in Collections : Exists(c)}
      /\ AcidContents = [c \in Collections |-> [k \in Keys |-> Live(c, k)]]
  BY <1>2, <1>5, QuietViewHolds DEF QuietView
<1>8. /\ Open' = active' /\ AcidExists' = {c \in Collections : Exists(c)'}
      /\ AcidContents' = [c \in Collections |-> [k \in Keys |-> Live(c, k)']]
  BY <1>2, <1>6, QuietViewNext DEF QuietView
<1>9. UNCHANGED <<AcidExists, AcidContents>>
  <2>1. \A c : Exists(c)' = Exists(c)  BY <1>2 DEF Exists
  <2>2. \A c, k : Live(c, k)' = Live(c, k)  BY <1>2 DEF Live
  <2> QED  BY <1>7, <1>8, <2>1, <2>2
<1> QED  BY <1>2, <1>3, <1>4, <1>5, <1>6, <1>7, <1>8, <1>9

LEMMA AcidRequestStep ==
    ASSUME LoneClient, AcidInv, AcidInv', NEW t \in Threads, Request(t)
    PROVE  AcidStep
<1>1. TypeInv /\ Sound /\ MemoryInv /\ IdsAreFresh
  BY DEF AcidInv, DurableInv, Sound, RecoveryInv, LoneRun
<1>2. /\ phase = "running" /\ pc[t] = "idle" /\ committing[t] = NoTxn
      /\ Open = active /\ Open' = active' /\ UNCHANGED <<AcidExists, AcidContents>>
      /\ AcidExists = {c \in Collections : Exists(c)}
      /\ AcidContents = [c \in Collections |-> [k \in Keys |-> Live(c, k)]]
  BY AcidRequestQuiet
<1>3. \A u \in Threads : u = t  BY DEF LoneClient
<1>4. AcidRequest[t] = "none"  BY <1>2 DEF AcidRequest
<1>5. /\ AcidBuffer = [i \in Tids |-> IF i \in active THEN ops[i] ELSE <<>>]
      /\ AcidBuffer' = [i \in Tids |-> IF i \in active' THEN ops'[i] ELSE <<>>]
  BY <1>2 DEF AcidBuffer
<1>6. UNCHANGED <<pc, committing>> => AcidRequest' = AcidRequest  BY DEF AcidRequest
(* A request that is accepted for the thread to carry out. *)
<1>7. ASSUME NEW kind, NEW work, Accept(t, kind, work)  PROVE AcidStep
  <2>1. pc'[t] = "log" /\ answer' = [answer EXCEPT ![t] = "none"] /\ UNCHANGED txns
    BY <1>1, <1>7 DEF Accept, TypeInv, TypeOK
  <2> DEFINE r == IF committing'[t] = NoTxn THEN "write" ELSE "commit"
  <2>2. AcidRequest' = [AcidRequest EXCEPT ![t] = r]
    <3>1. AcidRequest'[t] = r  BY <2>1 DEF AcidRequest
    <3> QED  BY <1>3, <3>1 DEF AcidRequest
  <2>3. UNCHANGED <<Open, AcidBuffer>>  BY <1>2, <1>5, <2>1
  <2>4. Acid!Accept(t)  BY <1>2, <1>4, <2>1, <2>2, <2>3 DEF Acid!Accept
  <2> QED  BY <2>4 DEF AcidStep, Acid!Next
<1>8. ASSUME NEW c \in Collections, NEW k \in Keys, Get(t, c, k)  PROVE AcidStep
  <2>1. /\ answer' = [answer EXCEPT ![t] =
               IF Exists(c) /\ Live(c, k) # Nothing THEN Live(c, k) ELSE "absent"]
        /\ UNCHANGED <<txns, pc, committing>>
    BY <1>8 DEF Get
  <2>2. Acid!Stored(c, k) = IF Exists(c) THEN Live(c, k) ELSE Nothing
    BY <1>2 DEF Acid!Stored
  <2>3. Acid!Reply(Acid!Stored(c, k))
        = IF Exists(c) /\ Live(c, k) # Nothing THEN Live(c, k) ELSE "absent"
    BY <2>2 DEF Acid!Reply
  <2>4. UNCHANGED <<Open, AcidBuffer, AcidRequest>>  BY <1>2, <1>5, <1>6, <2>1
  <2>5. Acid!Read(t, c, k)  BY <1>2, <2>1, <2>3, <2>4 DEF Acid!Read
  <2> QED  BY <2>5 DEF AcidStep, Acid!Next
<1>9. CASE BeginTransaction(t)
  <2>1. /\ nextTid \in Tids /\ active' = active \cup {nextTid}
        /\ ops' = [ops EXCEPT ![nextTid] = <<>>]
        /\ UNCHANGED <<pc, committing, answer>>
    BY <1>9 DEF BeginTransaction
  <2>2. nextTid \notin active  BY <1>1 DEF IdsAreFresh, TypeInv, TypeOK
  <2>3. AcidBuffer' = [AcidBuffer EXCEPT ![nextTid] = <<>>]
    <3>1. ASSUME NEW i \in Tids
          PROVE  AcidBuffer'[i] = [AcidBuffer EXCEPT ![nextTid] = <<>>][i]
      <4>1. ops'[i] = IF i = nextTid THEN <<>> ELSE ops[i]  BY <1>1, <2>1 DEF TypeInv, TypeOK
      <4> QED  BY <1>5, <2>1, <2>2, <4>1
    <3> QED  BY <1>5, <3>1
  <2>4. UNCHANGED AcidRequest  BY <1>6, <2>1
  <2>5. Acid!Begin(nextTid)  BY <1>2, <2>1, <2>2, <2>3, <2>4 DEF Acid!Begin
  <2> QED  BY <2>1, <2>5 DEF AcidStep, Acid!Next
<1>10. ASSUME NEW tid \in Tids, NEW op \in DocOps, AddOperation(t, tid, op)  PROVE AcidStep
  <2>1. /\ tid \in active /\ ops' = [ops EXCEPT ![tid] = Append(@, op)]
        /\ UNCHANGED <<active, pc, committing, answer>>
    BY <1>10 DEF AddOperation
  <2>2. /\ AcidBuffer[tid] = ops[tid] /\ AcidBuffer'[tid] = Append(ops[tid], op)
        /\ ops[tid] \in Seq(DocOps)
    BY <1>1, <1>5, <2>1 DEF TypeInv, TypeOK
  <2>3. \A i \in Tids \ {tid} : AcidBuffer'[i] = AcidBuffer[i]
    BY <1>1, <1>5, <2>1 DEF TypeInv, TypeOK
  <2>4. Len(Append(ops[tid], op)) = Len(ops[tid]) + 1  BY <2>2, AppendProperties
  <2>5. SubSeq(Append(ops[tid], op), 1, Len(ops[tid])) = ops[tid]
    <3>1. Len(ops[tid]) \in Nat  BY <2>2, LenProperties
    <3> QED  BY <2>2, <2>4, <3>1
  <2>6. UNCHANGED AcidRequest  BY <1>6, <2>1
  <2>7. Acid!Collect(tid)
    BY <1>2, <2>1, <2>2, <2>3, <2>4, <2>5, <2>6 DEF Acid!Collect
  <2> QED  BY <2>7 DEF AcidStep, Acid!Next
<1>11. ASSUME NEW tid \in Tids, NEW c \in Collections, NEW k \in Keys, TxnGet(t, tid, c, k)
       PROVE  AcidStep
  <2>1. /\ tid \in active /\ UNCHANGED <<txns, pc, committing>>
        /\ answer' = [answer EXCEPT ![t] =
               IF TxnView(tid, c, k) # Nothing THEN TxnView(tid, c, k) ELSE "absent"]
    BY <1>11 DEF TxnGet
  <2>2. AcidBuffer[tid] = ops[tid] /\ ops[tid] \in Seq(DocOps)
    BY <1>1, <1>5, <2>1 DEF TypeInv, TypeOK
  <2>3. Acid!Stored(c, k) = IF Exists(c) THEN Live(c, k) ELSE Nothing
    BY <1>2 DEF Acid!Stored
  <2>4. Acid!After(AcidBuffer[tid], c, k, Acid!Stored(c, k)) = TxnView(tid, c, k)
    BY <2>2, <2>3, AfterIsLatest DEF TxnView
  <2>5. UNCHANGED <<Open, AcidBuffer, AcidRequest>>  BY <1>2, <1>5, <1>6, <2>1
  <2>6. Acid!ReadInTransaction(t, tid, c, k)
    BY <1>2, <2>1, <2>4, <2>5 DEF Acid!ReadInTransaction, Acid!Reply
  <2> QED  BY <2>6 DEF AcidStep, Acid!Next
<1>12. ASSUME NEW tid \in Tids, RollbackTransaction(t, tid) \/ CommitEmpty(t, tid)
       PROVE  AcidStep
  <2>1. /\ tid \in active /\ active' = active \ {tid}
        /\ answer' = [answer EXCEPT ![t] = "ok"] /\ UNCHANGED <<pc, committing>>
        /\ ops' = [ops EXCEPT ![tid] = <<>>] \/ UNCHANGED ops
    BY <1>12 DEF RollbackTransaction, CommitEmpty
  <2>2. \A i \in Tids \ {tid} : ops'[i] = ops[i]  BY <1>1, <2>1 DEF TypeInv, TypeOK
  <2>3. AcidBuffer' = [AcidBuffer EXCEPT ![tid] = <<>>]  BY <1>5, <2>1, <2>2
  <2>4. UNCHANGED AcidRequest  BY <1>6, <2>1
  <2>5. Acid!Rollback(t, tid)
    BY <1>2, <2>1, <2>3, <2>4 DEF Acid!Rollback, Acid!End
  <2> QED  BY <2>5 DEF AcidStep, Acid!Next
<1>13. ASSUME NEW c \in Collections  PROVE ~DeleteCollection(t, c) /\ ~CreateIndex(t, c)
  BY DEF DeleteCollection, CreateIndex, Accept, Ready, LoneClient, OrderlyClients
<1>14. ASSUME NEW c \in Collections, NEW k \in Keys
       PROVE  (\A d \in Docs : PutOp(c, k, d) \in DocOps) /\ DeleteOp(c, k) \in DocOps
  BY DEF PutOp, DeleteOp, DocOps
<1>15. ASSUME NEW c \in Collections, CreateCollection(t, c)  PROVE AcidStep
  BY <1>7, <1>15 DEF CreateCollection
<1>16. ASSUME NEW c \in Collections, NEW k \in Keys,
              (\E d \in Docs : Put(t, c, k, d)) \/ Delete(t, c, k)
       PROVE  AcidStep
  BY <1>7, <1>16 DEF Put, Delete
<1>17. ASSUME NEW tid \in Tids, CommitTransaction(t, tid)  PROVE AcidStep
  BY <1>7, <1>17 DEF CommitTransaction
<1> QED
  BY <1>8, <1>9, <1>10, <1>11, <1>12, <1>13, <1>14, <1>15, <1>16, <1>17, Zenon DEF Request

(* While the process serves. *)
UpView ==
    \A t \in Threads : phase = "running" =>
        /\ Open = IF Counts(t) THEN active \ {committing[t]} ELSE active
        /\ AcidExists = {c \in Collections :
               \/ Exists(c)
               \/ /\ Ahead(t) # <<>>
                  /\ Head(Ahead(t)) = CollectionOp("CREATE_COLLECTION", c)}
        /\ AcidContents = [c \in Collections |-> [k \in Keys |->
               IF Exists(c) THEN LatestIn(Ahead(t), c, k, Live(c, k)) ELSE Nothing]]

LEMMA UpViewHolds == ASSUME LoneClient PROVE AcidInv => UpView
<1> SUFFICES ASSUME AcidInv, phase = "running"  PROVE UpView  BY DEF UpView
<1>1. LoneView  BY LoneViewHolds
<1>2. ~Down  BY DEF Down
<1>3. AcidExists = {c \in Collections : Exists(c) \/ BoundToCreate(c)}
  BY <1>2 DEF AcidExists
<1>4. AcidContents = [c \in Collections |-> [k \in Keys |-> Outcome(c, k)]]
  BY <1>2 DEF AcidContents
<1> SUFFICES ASSUME NEW t \in Threads
             PROVE  /\ Open = IF Counts(t) THEN active \ {committing[t]} ELSE active
                    /\ AcidExists = {c \in Collections :
                           \/ Exists(c)
                           \/ /\ Ahead(t) # <<>>
                              /\ Head(Ahead(t)) = CollectionOp("CREATE_COLLECTION", c)}
                    /\ AcidContents = [c \in Collections |-> [k \in Keys |->
                           IF Exists(c) THEN LatestIn(Ahead(t), c, k, Live(c, k)) ELSE Nothing]]
  BY DEF UpView
<1>5. \A c \in Collections, k \in Keys :
          Outcome(c, k) = IF Exists(c) THEN LatestIn(Ahead(t), c, k, Live(c, k)) ELSE Nothing
  BY <1>1 DEF LoneView
<1>6. \A c \in Collections :
          BoundToCreate(c) <=> /\ Ahead(t) # <<>> /\ ~Exists(c)
                               /\ Head(Ahead(t)) = CollectionOp("CREATE_COLLECTION", c)
  BY <1>1 DEF LoneView
<1>7. Open = IF Counts(t) THEN active \ {committing[t]} ELSE active  BY <1>1 DEF LoneView
<1> QED  BY <1>3, <1>4, <1>5, <1>6, <1>7

LEMMA UpViewNext == ASSUME LoneClient PROVE AcidInv' => UpView'
<1>1. AcidInv => UpView  BY UpViewHolds
<1> QED  BY <1>1, PTL

(* One operation. *)
LEMMA LatestInOne ==
    ASSUME NEW S, NEW op \in S, NEW c, NEW k, NEW old
    PROVE  LatestIn(<<op>>, c, k, old) = IF op.coll = c /\ op.key = k THEN op.doc ELSE old
<1>1. <<op>> \in Seq(S) /\ <<op>> # <<>> /\ <<op>>[1] = op /\ Tail(<<op>>) = <<>>  OBVIOUS
<1> DEFINE mid == IF op.coll = c /\ op.key = k THEN op.doc ELSE old
<1>2. LatestIn(<<op>>, c, k, old) = LatestIn(<<>>, c, k, mid)
  <2>1. PICK s : s = <<op>>  OBVIOUS
  <2>2. s \in Seq(S) /\ s # <<>> /\ s[1] = op /\ Tail(s) = <<>>  BY <1>1, <2>1
  <2>3. (IF Concerns(s, 1, c, k) THEN s[1].doc ELSE old) = mid  BY <2>2 DEF Concerns
  <2>4. LatestIn(s, c, k, old)
        = LatestIn(Tail(s), c, k, IF Concerns(s, 1, c, k) THEN s[1].doc ELSE old)
    BY <2>2, LatestInRest
  <2> QED  BY <2>1, <2>2, <2>3, <2>4
<1>3. LatestIn(<<>>, c, k, mid) = mid  BY LatestInNone
<1> QED  BY <1>2, <1>3

(* On a collection that is not there a transaction can only delete. *)
LEMMA LatestInAbsent ==
    ASSUME NEW seq \in Seq(DocOps), NEW c, NEW k,
           \A i \in DOMAIN seq : seq[i].type = "PUT" => seq[i].coll # c
    PROVE  LatestIn(seq, c, k, Nothing) = Nothing
<1>1. CASE \A i \in DOMAIN seq : ~Concerns(seq, i, c, k)  BY <1>1, LatestInNone
<1>2. CASE \E i \in DOMAIN seq : Concerns(seq, i, c, k)
  <2>1. PICK i \in DOMAIN seq : /\ Concerns(seq, i, c, k)
                                /\ \A j \in DOMAIN seq : j > i => ~Concerns(seq, j, c, k)
    BY <1>2, LastConcerning
  <2>2. LatestIn(seq, c, k, Nothing) = seq[i].doc  BY <2>1, LatestInLast
  <2>3. seq[i] \in DocOps /\ seq[i].type # "PUT"
    BY <2>1, ElementOfSeq, LenProperties DEF Concerns
  <2> QED  BY <2>2, <2>3 DEF DocOps
<1> QED  BY <1>1, <1>2

(* What a commit has left are writes of documents. *)
LEMMA CommitWrites ==
    ASSUME AcidInv, NEW t \in Threads, committing[t] # NoTxn
    PROVE  /\ committing[t] \in Tids /\ committing[t] \in active
           /\ todo[t] \in Seq(DocOps) /\ todo[t] # <<>>
           /\ ops[committing[t]] \in Seq(DocOps)
           /\ Len(todo[t]) <= Len(ops[committing[t]])
           /\ Len(todo[t]) = Len(ops[committing[t]]) => todo[t] = ops[committing[t]]
<1> DEFINE all == ops[committing[t]]
           n == Len(all)
           m == Len(todo[t])
<1>1. TypeInv /\ CommitSeesFixedOperations
  BY DEF AcidInv, DurableInv, Sound, RecoveryInv, CommitInv
<1>2. committing[t] \in Tids /\ all \in Seq(DocOps) /\ todo[t] \in Seq(Ops)
  BY <1>1 DEF TypeInv, TypeOK
<1>3. /\ committing[t] \in active /\ todo[t] # <<>> /\ m <= n
      /\ todo[t] = SubSeq(all, n - m + 1, n)
  BY <1>1 DEF CommitSeesFixedOperations
<1>4. n \in Nat /\ m \in Nat /\ m > 0  BY <1>2, <1>3, LenProperties, EmptySeq
<1>5. SubSeq(all, n - m + 1, n) \in Seq(DocOps)
  <2>1. \A i \in (n - m + 1)..n : i \in 1..n  BY <1>3, <1>4
  <2>2. \A i \in (n - m + 1)..n : all[i] \in DocOps  BY <1>2, <2>1, ElementOfSeq
  <2>3. n - m + 1 \in Int /\ n \in Int  BY <1>4
  <2> HIDE DEF all, n, m
  <2> QED  BY <1>2, <2>1, <2>2, <2>3, <1>4, <1>3, SubSeqProperties
<1>6. m = n => todo[t] = all
  <2>1. m = n => n - m + 1 = 1  BY <1>4
  <2>2. SubSeq(all, 1, n) = all  BY <1>2, SubSeqFull
  <2> QED  BY <1>3, <2>1, <2>2
<1> QED  BY <1>2, <1>3, <1>5, <1>6

(* A record of the log: a request's write counts, and so does a whole      *)
(* commit with its first record.                                           *)
LEMMA AcidLog ==
    ASSUME LoneClient, AcidInv, AcidInv', NEW t \in Threads, Log(t)
    PROVE  AcidStep
<1> DEFINE op == CurrentOp(t)
           create(c) == CollectionOp("CREATE_COLLECTION", c)
<1>1. TypeInv /\ Sound /\ AtWork /\ GoodBuffers /\ NoGhosts /\ CommitsWork
  BY DEF AcidInv, DurableInv, Sound, RecoveryInv, CommitInv, ReplayInv, MemoryInv
<1>2. /\ phase = "running" /\ phase' = "running" /\ pc[t] = "log" /\ pc'[t] = "apply"
      /\ UNCHANGED <<store, txns, todo, committing, answer>>
  BY <1>1 DEF Log, TypeInv, TypeOK
<1>3. \A u \in Threads : u = t  BY DEF LoneClient
<1>4. /\ AcidExists = {c \in Collections :
             Exists(c) \/ (Ahead(t) # <<>> /\ Head(Ahead(t)) = create(c))}
      /\ AcidContents = [c \in Collections |-> [k \in Keys |->
             IF Exists(c) THEN LatestIn(Ahead(t), c, k, Live(c, k)) ELSE Nothing]]
      /\ Open = IF Counts(t) THEN active \ {committing[t]} ELSE active
  BY <1>2, UpViewHolds DEF UpView
<1>5. (\A c : Exists(c)' = Exists(c)) /\ (\A c, k : Live(c, k)' = Live(c, k)) /\ op' = op
  BY <1>2 DEF Exists, Live, CurrentOp
<1>6. /\ AcidExists' = {c \in Collections :
             Exists(c) \/ (Ahead(t)' # <<>> /\ Head(Ahead(t)') = create(c))}
      /\ AcidContents' = [c \in Collections |-> [k \in Keys |->
             IF Exists(c) THEN LatestIn(Ahead(t)', c, k, Live(c, k)) ELSE Nothing]]
      /\ Open' = IF Counts(t)' THEN active \ {committing[t]} ELSE active
  <2>1. /\ AcidExists' = {c \in Collections :
             Exists(c)' \/ (Ahead(t)' # <<>> /\ Head(Ahead(t)') = create(c))}
        /\ AcidContents' = [c \in Collections |-> [k \in Keys |->
             IF Exists(c)' THEN LatestIn(Ahead(t)', c, k, Live(c, k)') ELSE Nothing]]
        /\ Open' = IF Counts(t)' THEN active' \ {committing'[t]} ELSE active'
    BY <1>2, UpViewNext DEF UpView, LatestIn, CollectionOp
  <2> QED  BY <1>2, <1>5, <2>1
<1>7. UNCHANGED AcidRequest
  <2>1. AcidRequest'[t] = AcidRequest[t]  BY <1>2 DEF AcidRequest
  <2> QED  BY <1>3, <2>1 DEF AcidRequest
<1>8. op \in Ops  BY <1>1, <1>2, CurrentOpType
<1> HIDE DEF op
<1>9. CASE committing[t] = NoTxn
  <2>1. Ahead(t) = <<>> /\ Ahead(t)' = <<op>>  BY <1>2, <1>5, <1>9 DEF Ahead, op
  <2>2. UNCHANGED <<Open, AcidBuffer>> /\ AcidRequest[t] = "write"
    <3>1. UNCHANGED Open  BY <1>2, <1>4, <1>6, <1>9 DEF Counts
    <3> QED  BY <1>2, <1>9, <3>1 DEF AcidBuffer, AcidRequest
  <2>3. \A c, k, old : LatestIn(<<>>, c, k, old) = old  BY LatestInNone
  <2>4. \A c, k, old : LatestIn(<<op>>, c, k, old)
                       = IF op.coll = c /\ op.key = k THEN op.doc ELSE old
    BY <1>8, LatestInOne
  <2>5. /\ AcidExists = {c \in Collections : Exists(c)}
        /\ AcidExists' = {c \in Collections : Exists(c) \/ op = create(c)}
        /\ AcidContents = [c \in Collections |-> [k \in Keys |->
               IF Exists(c) THEN Live(c, k) ELSE Nothing]]
        /\ AcidContents' = [c \in Collections |-> [k \in Keys |->
               IF Exists(c) THEN IF op.coll = c /\ op.key = k THEN op.doc ELSE Live(c, k)
                            ELSE Nothing]]
    <3>1. <<op>> # <<>> /\ Head(<<op>>) = op  OBVIOUS
    <3>2. /\ AcidExists = {c \in Collections : Exists(c)}
          /\ AcidExists' = {c \in Collections : Exists(c) \/ op = create(c)}
      BY <1>4, <1>6, <2>1, <3>1
    <3>3. AcidContents = [c \in Collections |-> [k \in Keys |->
               IF Exists(c) THEN Live(c, k) ELSE Nothing]]
      BY <1>4, <2>1, <2>3
    <3>4. AcidContents' = [c \in Collections |-> [k \in Keys |->
               IF Exists(c) THEN IF op.coll = c /\ op.key = k THEN op.doc ELSE Live(c, k)
                            ELSE Nothing]]
      BY <1>6, <2>1, <2>4
    <3> QED  BY <3>2, <3>3, <3>4
  <2>6. CASE op \in DocOps /\ Exists(op.coll)
    <3>1. op.coll \in Collections /\ op.key \in Keys /\ op.doc \in Docs \cup {Nothing}
      BY <2>6 DEF DocOps
    <3>2. \A c \in Collections : op # create(c)  BY <2>6 DEF CollectionOp, DocOps
    <3>3. UNCHANGED AcidExists /\ op.coll \in AcidExists  BY <2>5, <2>6, <3>1, <3>2
    <3>4. AcidContents' = [AcidContents EXCEPT ![op.coll][op.key] = op.doc]
      <4> DEFINE S == Docs \cup {Nothing}
      <4>1. /\ AcidContents \in [Collections -> [Keys -> S]]
            /\ AcidContents' \in [Collections -> [Keys -> S]]
        <5>1. \A c, k : Live(c, k) \in S  BY DEF Live
        <5> HIDE DEF S
        <5>2. Nothing \in S /\ op.doc \in S  BY <3>1 DEF S
        <5> QED  BY <2>5, <5>1, <5>2
      <4>2. \A c \in Collections, k \in Keys :
                AcidContents'[c][k] = IF c = op.coll /\ k = op.key THEN op.doc
                                      ELSE AcidContents[c][k]
        BY <2>5, <2>6
      <4> HIDE DEF S
      <4> QED  BY <3>1, <4>1, <4>2, WriteOne
    <3>5. Acid!Write(t, op.coll, op.key, op.doc)
      BY <1>2, <1>7, <2>2, <3>3, <3>4 DEF Acid!Write
    <3> QED  BY <3>1, <3>5 DEF AcidStep, Acid!Next
  <2>7. CASE op \in DocOps /\ ~Exists(op.coll)
    <3>1. \A c \in Collections : op # create(c)  BY <2>7 DEF CollectionOp, DocOps
    <3>2. UNCHANGED AcidExists  BY <2>5, <3>1
    <3>3. UNCHANGED AcidContents
      <4>1. \A c \in Collections : Exists(c) => op.coll # c  BY <2>7
      <4> QED  BY <2>5, <4>1
    <3> QED  BY <1>2, <1>7, <2>2, <3>2, <3>3 DEF AcidStep, Acid!vars
  <2>8. CASE op \notin DocOps
    <3>1. ~Exists(op.coll) /\ op.coll \in Collections /\ op = create(op.coll)
      BY <1>1, <1>2, <2>8, GoodOp DEF op
    <3>2. \A c : op = create(c) => c = op.coll  BY DEF CollectionOp
    <3>3. AcidExists' = AcidExists \cup {op.coll}  BY <2>5, <3>1, <3>2
    <3>4. UNCHANGED AcidContents
      <4>1. \A c \in Collections : Exists(c) => op.coll # c  BY <3>1
      <4> QED  BY <2>5, <4>1
    <3>5. Acid!Create(t, op.coll)
      BY <1>2, <1>7, <2>2, <3>3, <3>4 DEF Acid!Create
    <3> QED  BY <3>1, <3>5 DEF AcidStep, Acid!Next
  <2> QED  BY <2>6, <2>7, <2>8
<1>10. CASE committing[t] # NoTxn
  <2> DEFINE tid == committing[t]
  <2>1. /\ tid \in Tids /\ tid \in active /\ todo[t] \in Seq(DocOps) /\ todo[t] # <<>>
        /\ ops[tid] \in Seq(DocOps) /\ Len(todo[t]) <= Len(ops[tid])
        /\ Len(todo[t]) = Len(ops[tid]) => todo[t] = ops[tid]
    BY <1>10, CommitWrites
  <2>2. Counts(t)' /\ Ahead(t)' = todo[t]  BY <1>2, <1>10 DEF Counts, Ahead
  <2>3. CASE Counts(t)
    <3>1. Ahead(t)' = Ahead(t)  BY <1>10, <2>2, <2>3 DEF Ahead
    <3>2. UNCHANGED <<AcidExists, AcidContents, Open>>  BY <1>4, <1>6, <2>2, <2>3, <3>1
    <3>3. UNCHANGED AcidBuffer  BY <1>2, <3>2 DEF AcidBuffer
    <3> QED  BY <1>2, <1>7, <3>2, <3>3 DEF AcidStep, Acid!vars
  <2>4. CASE ~Counts(t)
    <3>1. todo[t] = ops[tid]
      <4>1. ~(Len(todo[t]) < Len(ops[tid]))  BY <1>10, <2>4 DEF Counts
      <4>2. Len(todo[t]) \in Nat /\ Len(ops[tid]) \in Nat  BY <2>1, LenProperties
      <4> QED  BY <2>1, <4>1, <4>2
    <3>2. Ahead(t) = <<>>  BY <1>10, <2>4 DEF Ahead
    <3>3. Open = active /\ Open' = active \ {tid}  BY <1>4, <1>6, <2>2, <2>4
    <3>4. AcidBuffer[tid] = ops[tid]  BY <2>1, <3>3 DEF AcidBuffer
    <3>5. AcidBuffer' = [AcidBuffer EXCEPT ![tid] = <<>>]  BY <1>2, <3>3 DEF AcidBuffer
    <3>6. UNCHANGED AcidExists
      <4>1. Head(todo[t]) \in DocOps  BY <2>1, HeadTail
      <4>2. \A c : Head(todo[t]) # create(c)  BY <4>1 DEF CollectionOp, DocOps
      <4> QED  BY <1>4, <1>6, <2>2, <3>2, <4>2
    <3>7. ASSUME NEW c \in Collections, NEW k \in Keys
          PROVE  AcidContents'[c][k] = Acid!After(AcidBuffer[tid], c, k, AcidContents[c][k])
      <4>1. AcidContents[c][k] = IF Exists(c) THEN Live(c, k) ELSE Nothing
        <5>1. LatestIn(<<>>, c, k, Live(c, k)) = Live(c, k)  BY LatestInNone
        <5> QED  BY <1>4, <3>2, <5>1
      <4>2. AcidContents'[c][k] = IF Exists(c) THEN LatestIn(ops[tid], c, k, Live(c, k))
                                  ELSE Nothing
        BY <1>6, <2>2, <3>1
      <4>3. Acid!After(AcidBuffer[tid], c, k, AcidContents[c][k])
            = LatestIn(ops[tid], c, k, AcidContents[c][k])
        BY <2>1, <3>4, AfterIsLatest
      <4>4. ~Exists(c) => LatestIn(ops[tid], c, k, Nothing) = Nothing
        <5>1. ~Exists(c) => \A i \in DOMAIN ops[tid] :
                  ops[tid][i].type = "PUT" => ops[tid][i].coll # c
          BY <1>1, <2>1 DEF GoodBuffers
        <5> QED  BY <2>1, <5>1, LatestInAbsent
      <4> QED  BY <4>1, <4>2, <4>3, <4>4
    <3>8. AcidContents' = [c \in Collections |-> [k \in Keys |->
              Acid!After(AcidBuffer[tid], c, k, AcidContents[c][k])]]
      <4>1. AcidContents' = [c \in Collections |-> [k \in Keys |-> AcidContents'[c][k]]]
        BY <1>6
      <4> QED  BY <3>7, <4>1
    <3>9. AcidRequest[t] = "commit"  BY <1>2, <1>10 DEF AcidRequest
    <3>10. Acid!Commit(t, tid)
      BY <1>2, <1>7, <2>1, <3>3, <3>5, <3>6, <3>8, <3>9 DEF Acid!Commit, Acid!End
    <3> QED  BY <2>1, <3>10 DEF AcidStep, Acid!Next
  <2> QED  BY <2>3, <2>4
<1> QED  BY <1>9, <1>10

(* An operation applied: what counted before has now happened. *)
LEMMA AcidAdvance ==
    ASSUME LoneClient, AcidInv, AcidInv', NEW t \in Threads, phase = "running",
           phase' = "running", pc[t] = "apply", NEW result \in {"ok", "absent"},
           Advance(t, result), UNCHANGED <<AcidExists, AcidContents>>
    PROVE  AcidStep
<1>1. TypeInv  BY DEF AcidInv, DurableInv, Sound, RecoveryInv
<1>2. \A u \in Threads : u = t  BY DEF LoneClient
<1>3. /\ Open = IF Counts(t) THEN active \ {committing[t]} ELSE active
      /\ Open' = IF Counts(t)' THEN active' \ {committing'[t]} ELSE active'
  BY UpViewHolds, UpViewNext DEF UpView
<1>4. NoTxn \notin active
  <2>1. active \subseteq Tids  BY <1>1 DEF TypeInv, TypeOK
  <2>2. NoTxn \notin Tids  BY ValuesAssumption, BoundsAssumption DEF Tids
  <2> QED  BY <2>1, <2>2
<1>5. Open = active \ {committing[t]}  BY <1>3, <1>4 DEF Counts
<1>6. UNCHANGED ops  BY LoneAdvance
<1>7. CASE Tail(todo[t]) = <<>>
  <2>1. /\ pc'[t] = "idle" /\ committing'[t] = NoTxn /\ active' = active \ {committing[t]}
        /\ answer' = [answer EXCEPT ![t] = IF committing[t] # NoTxn THEN "ok" ELSE result]
    BY <1>7, LoneAdvance
  <2>2. UNCHANGED Open  BY <1>3, <1>5, <2>1 DEF Counts
  <2>3. UNCHANGED AcidBuffer  BY <1>6, <2>2 DEF AcidBuffer
  <2>4. AcidRequest' = [AcidRequest EXCEPT ![t] = "none"]
    <3>1. AcidRequest'[t] = "none"  BY <2>1 DEF AcidRequest
    <3> QED  BY <1>2, <3>1 DEF AcidRequest
  <2>5. \E a \in {"ok", "absent", "error"} : answer' = [answer EXCEPT ![t] = a]
    BY <2>1
  <2>6. Acid!Finish(t)  BY <2>2, <2>3, <2>4, <2>5 DEF Acid!Finish
  <2> QED  BY <2>6 DEF AcidStep, Acid!Next
<1>8. CASE Tail(todo[t]) # <<>>
  <2>1. pc'[t] = "log" /\ committing[t] # NoTxn /\ UNCHANGED <<active, committing, answer>>
        /\ todo'[t] = Tail(todo[t])
    BY <1>8, LoneAdvance
  <2>2. Counts(t)'
    <3>1. /\ todo[t] \in Seq(DocOps) /\ todo[t] # <<>>
          /\ ops[committing[t]] \in Seq(DocOps) /\ Len(todo[t]) <= Len(ops[committing[t]])
      BY <2>1, CommitWrites
    <3>2. Len(Tail(todo[t])) = Len(todo[t]) - 1  BY <3>1, HeadTailProperties
    <3>3. Len(todo[t]) \in Nat /\ Len(ops[committing[t]]) \in Nat  BY <3>1, LenProperties
    <3>4. Len(todo'[t]) < Len(ops'[committing'[t]])  BY <1>6, <2>1, <3>1, <3>2, <3>3
    <3> QED  BY <2>1, <3>4 DEF Counts
  <2>3. UNCHANGED Open  BY <1>3, <1>5, <2>1, <2>2
  <2>4. UNCHANGED AcidBuffer  BY <1>6, <2>3 DEF AcidBuffer
  <2>5. UNCHANGED AcidRequest
    <3>1. AcidRequest'[t] = AcidRequest[t]  BY <2>1 DEF AcidRequest
    <3> QED  BY <1>2, <3>1 DEF AcidRequest
  <2> QED  BY <2>1, <2>3, <2>4, <2>5 DEF AcidStep, Acid!vars
<1> QED  BY <1>7, <1>8

LEMMA AheadNext ==
    ASSUME LoneClient, AcidInv, NEW t \in Threads, pc[t] = "apply", NEW result,
           Advance(t, result)
    PROVE  /\ Ahead(t) \in Seq(Ops) /\ Ahead(t) # <<>> /\ Ahead(t)[1] = CurrentOp(t)
           /\ Head(Ahead(t)) = CurrentOp(t)
           /\ Ahead(t)' = Tail(Ahead(t))
           /\ Ahead(t)' # <<>> => Ahead(t)' \in Seq(DocOps)
<1>1. TypeInv  BY DEF AcidInv, DurableInv, Sound, RecoveryInv
<1>2. todo[t] \in Seq(Ops) /\ todo[t] # <<>> /\ CurrentOp(t) \in Ops
  BY <1>1, CurrentOpType, LoneAdvance DEF TypeInv, TypeOK
<1>3. todo'[t] = Tail(todo[t]) /\ UNCHANGED ops  BY LoneAdvance
<1>4. CASE committing[t] = NoTxn
  <2>1. Ahead(t) = <<CurrentOp(t)>>  BY <1>4 DEF Ahead
  <2>2. pc'[t] = "idle" /\ committing'[t] = NoTxn  BY <1>4, LoneAdvance
  <2>3. Ahead(t)' = <<>>  BY <2>2 DEF Ahead
  <2>4. /\ <<CurrentOp(t)>> \in Seq(Ops) /\ <<CurrentOp(t)>> # <<>>
        /\ Tail(<<CurrentOp(t)>>) = <<>> /\ <<CurrentOp(t)>>[1] = CurrentOp(t)
        /\ Head(<<CurrentOp(t)>>) = CurrentOp(t)
    BY <1>2
  <2> QED  BY <2>1, <2>3, <2>4
<1>5. CASE committing[t] # NoTxn
  <2>1. Ahead(t) = todo[t]  BY <1>5 DEF Ahead, Counts
  <2>2. /\ todo[t] \in Seq(DocOps) /\ ops[committing[t]] \in Seq(DocOps)
        /\ Len(todo[t]) <= Len(ops[committing[t]])
    BY <1>5, CommitWrites
  <2>3. Ahead(t)' = Tail(todo[t])
    <3>1. CASE Tail(todo[t]) = <<>>
      <4>1. pc'[t] = "idle" /\ committing'[t] = NoTxn  BY <3>1, LoneAdvance
      <4> QED  BY <3>1, <4>1 DEF Ahead
    <3>2. CASE Tail(todo[t]) # <<>>
      <4>1. UNCHANGED committing  BY <3>2, LoneAdvance
      <4>2. Len(Tail(todo[t])) = Len(todo[t]) - 1  BY <1>2, HeadTailProperties
      <4>3. Len(todo[t]) \in Nat /\ Len(ops[committing[t]]) \in Nat  BY <2>2, LenProperties
      <4>4. Len(todo'[t]) < Len(ops'[committing'[t]])  BY <1>3, <2>2, <4>1, <4>2, <4>3
      <4>5. Counts(t)'  BY <1>5, <4>1, <4>4 DEF Counts
      <4> QED  BY <1>3, <1>5, <4>1, <4>5 DEF Ahead
    <3> QED  BY <3>1, <3>2
  <2>4. Tail(todo[t]) \in Seq(DocOps)  BY <1>2, <2>2, HeadTail
  <2>5. Head(todo[t]) = CurrentOp(t) /\ todo[t][1] = Head(todo[t])
    BY <1>2 DEF CurrentOp
  <2> QED  BY <1>2, <2>1, <2>3, <2>4, <2>5
<1> QED  BY <1>4, <1>5

(* A write of one key keeps what the store will hold. *)
LEMMA AcidApplied ==
    ASSUME LoneClient, AcidInv, AcidInv', NEW t \in Threads, phase = "running",
           phase' = "running", pc[t] = "apply", NEW result \in {"ok", "absent"},
           Advance(t, result), UNCHANGED collections, CurrentOp(t) \in DocOps,
           \A c \in Collections, k \in Keys :
               Live(c, k)' = IF c = CurrentOp(t).coll /\ k = CurrentOp(t).key
                             THEN CurrentOp(t).doc ELSE Live(c, k)
    PROVE  AcidStep
<1> DEFINE create(c) == CollectionOp("CREATE_COLLECTION", c)
           work == Ahead(t)
           next == Ahead(t)'
<1>1. /\ work \in Seq(Ops) /\ work # <<>> /\ work[1] = CurrentOp(t)
      /\ Head(work) = CurrentOp(t)
      /\ next = Tail(work) /\ (next # <<>> => next \in Seq(DocOps))
  BY AheadNext
<1>2. /\ AcidExists = {c \in Collections :
             Exists(c) \/ (work # <<>> /\ Head(work) = create(c))}
      /\ AcidContents = [c \in Collections |-> [k \in Keys |->
             IF Exists(c) THEN LatestIn(work, c, k, Live(c, k)) ELSE Nothing]]
  BY UpViewHolds DEF UpView
<1>3. \A c : Exists(c)' = Exists(c)  BY DEF Exists
<1>4. /\ AcidExists' = {c \in Collections :
             Exists(c) \/ (next # <<>> /\ Head(next) = create(c))}
      /\ AcidContents' = [c \in Collections |-> [k \in Keys |->
             IF Exists(c) THEN LatestIn(next, c, k, Live(c, k)') ELSE Nothing]]
  <2>1. /\ AcidExists' = {c \in Collections :
             Exists(c)' \/ (next # <<>> /\ Head(next) = create(c))}
        /\ AcidContents' = [c \in Collections |-> [k \in Keys |->
             IF Exists(c)' THEN LatestIn(next, c, k, Live(c, k)') ELSE Nothing]]
    BY UpViewNext DEF UpView, LatestIn, CollectionOp
  <2> QED  BY <1>3, <2>1
<1> HIDE DEF work, next
<1>5. UNCHANGED AcidExists
  <2>1. \A c, op : op \in DocOps => op # create(c)  BY DEF CollectionOp, DocOps
  <2>2. next # <<>> => Head(next) \in DocOps  BY <1>1, HeadTail
  <2> QED  BY <1>1, <1>2, <1>4, <2>1, <2>2
<1>6. ASSUME NEW c \in Collections, NEW k \in Keys
      PROVE  LatestIn(next, c, k, Live(c, k)') = LatestIn(work, c, k, Live(c, k))
  <2>1. LatestIn(work, c, k, Live(c, k))
        = LatestIn(Tail(work), c, k,
                   IF Concerns(work, 1, c, k) THEN work[1].doc ELSE Live(c, k))
    BY <1>1, LatestInRest
  <2>2. (IF Concerns(work, 1, c, k) THEN work[1].doc ELSE Live(c, k)) = Live(c, k)'
    BY <1>1 DEF Concerns
  <2> QED  BY <1>1, <2>1, <2>2
<1>7. UNCHANGED AcidContents  BY <1>2, <1>4, <1>6
<1> QED  BY <1>5, <1>7, AcidAdvance

(* The three operations. *)
LEMMA AcidApplyDoc ==
    ASSUME LoneClient, AcidInv, AcidInv', NEW t \in Threads, ApplyPut(t) \/ ApplyDelete(t)
    PROVE  AcidStep
<1> DEFINE op == CurrentOp(t)
<1>1. TypeInv /\ Sound /\ AtWork /\ ReplayInv
  BY DEF AcidInv, DurableInv, Sound, RecoveryInv, MemoryInv
<1>2. /\ pc[t] = "apply" /\ op.type \in {"PUT", "DELETE"}
      /\ UNCHANGED <<disk, server, collections>>
  BY DEF ApplyPut, ApplyDelete, Applying
<1>3. op \in Ops /\ op \in DocOps /\ op.coll \in Collections /\ op.key \in Keys
  <2>1. op \in DocOps  BY <1>1, <1>2, GoodOp DEF CollectionOp
  <2> QED  BY <2>1 DEF DocOps, Ops
<1>4. phase = "running" /\ phase' = "running"
  <2>1. Alive  BY DEF ApplyPut, ApplyDelete, Applying
  <2> QED  BY <1>2, <2>1 DEF Alive, AcidInv, LoneRun
<1>5. CASE ApplyPut(t)
  <2>1. /\ op.type = "PUT" /\ Advance(t, "ok")
        /\ data' = [data EXCEPT ![op.coll][op.key] = op.doc]
    BY <1>5 DEF ApplyPut, Applying
  <2>2. op.doc \in Docs  BY <1>3, <2>1 DEF DocOps
  <2>3. \A c \in Collections, k \in Keys :
            Live(c, k)' = IF c = op.coll /\ k = op.key THEN op.doc ELSE Live(c, k)
    BY <1>1, <1>3, <2>1, <2>2 DEF Live, TypeInv, TypeOK
  <2> QED  BY <1>2, <1>3, <1>4, <2>1, <2>3, AcidApplied
<1>6. CASE ApplyDelete(t)
  <2>1. /\ op.type = "DELETE"
        /\ IF Exists(op.coll) /\ Live(op.coll, op.key) # Nothing
           THEN /\ data' = [data EXCEPT ![op.coll][op.key] = Tombstone]
                /\ Advance(t, "ok")
           ELSE UNCHANGED data /\ Advance(t, "absent")
    BY <1>6 DEF ApplyDelete, Applying
  <2>2. op.doc = Nothing  BY <1>3, <2>1 DEF DocOps
  <2>3. ASSUME NEW c \in Collections, NEW k \in Keys
        PROVE  Live(c, k)' = IF c = op.coll /\ k = op.key THEN Nothing ELSE Live(c, k)
    <3>1. CASE Exists(op.coll) /\ Live(op.coll, op.key) # Nothing
      BY <1>1, <1>3, <2>1, <3>1, ValuesAssumption DEF Live, TypeInv, TypeOK
    <3>2. CASE ~(Exists(op.coll) /\ Live(op.coll, op.key) # Nothing)
      <4>1. ~Exists(op.coll) => data[op.coll] = Empty
        BY <1>1, <1>3 DEF ReplayInv, NoGhosts, Exists
      <4>2. Live(op.coll, op.key) = Nothing
        BY <1>3, <3>2, <4>1, ValuesAssumption DEF Live, Empty
      <4>3. Live(c, k)' = Live(c, k)  BY <2>1, <3>2 DEF Live
      <4> QED  BY <4>2, <4>3
    <3> QED  BY <3>1, <3>2
  <2>4. \A c \in Collections, k \in Keys :
            Live(c, k)' = IF c = op.coll /\ k = op.key THEN op.doc ELSE Live(c, k)
    BY <2>2, <2>3
  <2>5. Advance(t, "ok") \/ Advance(t, "absent")  BY <2>1
  <2>6. CASE Advance(t, "ok")  BY <1>2, <1>3, <1>4, <2>4, <2>6, AcidApplied
  <2>7. CASE Advance(t, "absent")  BY <1>2, <1>3, <1>4, <2>4, <2>7, AcidApplied
  <2> QED  BY <2>5, <2>6, <2>7
<1> QED  BY <1>5, <1>6

LEMMA AcidApplyCreate ==
    ASSUME LoneClient, AcidInv, AcidInv', NEW t \in Threads, ApplyCreate(t)
    PROVE  AcidStep
<1> DEFINE op == CurrentOp(t)
           create(c) == CollectionOp("CREATE_COLLECTION", c)
<1>1. TypeInv /\ Sound /\ AtWork /\ NoGhosts
  BY DEF AcidInv, DurableInv, Sound, RecoveryInv, MemoryInv, ReplayInv
<1>2. /\ op.type = "CREATE_COLLECTION" /\ pc[t] = "apply" /\ Advance(t, "ok") /\ UNCHANGED server
      /\ data' = [data EXCEPT ![op.coll] = Empty]
      /\ collections' = [collections EXCEPT ![op.coll] = Fresh(op.coll)]
  BY DEF ApplyCreate, Applying
<1>3. op.coll \in Collections /\ ~Exists(op.coll) /\ op = create(op.coll) /\ todo[t] = <<op>>
  BY <1>1, <1>2, GoodOp DEF DocOps
<1>4. phase = "running" /\ phase' = "running"
  <2>1. Alive  BY DEF ApplyCreate, Applying
  <2> QED  BY <1>2, <2>1 DEF Alive, AcidInv, LoneRun
<1>5. committing[t] = NoTxn
  <2>1. committing[t] # NoTxn => op \in DocOps
    <3> SUFFICES ASSUME committing[t] # NoTxn PROVE op \in DocOps  OBVIOUS
    <3>1. todo[t] \in Seq(DocOps) /\ todo[t] # <<>>  BY CommitWrites
    <3> QED  BY <3>1, HeadTail DEF CurrentOp
  <2> QED  BY <1>2, <2>1 DEF DocOps
<1>6. Ahead(t) = <<op>> /\ Head(Ahead(t)) = op /\ Ahead(t) # <<>> /\ Ahead(t)' = <<>>
  <2>1. /\ Ahead(t) # <<>> /\ Head(Ahead(t)) = op /\ Ahead(t)' = Tail(Ahead(t))
    BY <1>2, AheadNext
  <2>2. Ahead(t) = <<op>>  BY <1>2, <1>5 DEF Ahead
  <2>3. Tail(<<op>>) = <<>>  OBVIOUS
  <2> QED  BY <2>1, <2>2, <2>3
<1>7. \A c \in Collections : Exists(c)' <=> Exists(c) \/ c = op.coll
  BY <1>1, <1>2, <1>3 DEF Exists, Fresh, TypeInv, TypeOK
<1>8. UNCHANGED data
  <2>1. data[op.coll] = Empty  BY <1>1, <1>3 DEF NoGhosts, Exists
  <2> QED  BY <1>1, <1>2, <1>3, <2>1 DEF TypeInv, TypeOK
<1>9. ASSUME NEW c \in Collections, NEW k \in Keys
      PROVE  /\ Live(c, k)' = Live(c, k)
             /\ ~Exists(c) => Live(c, k) = Nothing
             /\ LatestIn(Ahead(t), c, k, Live(c, k)) = Live(c, k)
             /\ LatestIn(Ahead(t)', c, k, Live(c, k)') = Live(c, k)
  <2>1. Live(c, k)' = Live(c, k)  BY <1>8 DEF Live
  <2>2. ~Exists(c) => Live(c, k) = Nothing
    BY <1>1, ValuesAssumption DEF NoGhosts, Exists, Live, Empty
  <2>3. LatestIn(<<op>>, c, k, Live(c, k)) = Live(c, k)
    <3>1. op.key = Nothing  BY <1>3 DEF CollectionOp
    <3>2. k # Nothing  BY ValuesAssumption
    <3>3. LatestIn(<<op>>, c, k, Live(c, k))
          = IF op.coll = c /\ op.key = k THEN op.doc ELSE Live(c, k)
      <4>1. PICK S : op \in S
        <5>1. op \in {op}  OBVIOUS
        <5> QED  BY <5>1
      <4> HIDE DEF op
      <4> QED  BY <4>1, LatestInOne
    <3> QED  BY <3>1, <3>2, <3>3
  <2>4. LatestIn(<<>>, c, k, Live(c, k)') = Live(c, k)'  BY LatestInNone
  <2> QED  BY <1>6, <2>1, <2>2, <2>3, <2>4
<1>10. UNCHANGED AcidExists
  <2>1. AcidExists = {c \in Collections :
            Exists(c) \/ (Ahead(t) # <<>> /\ Head(Ahead(t)) = create(c))}
    BY <1>4, UpViewHolds DEF UpView
  <2>2. AcidExists' = {c \in Collections : Exists(c)'}
    BY <1>4, <1>6, QuietViewNext DEF QuietView
  <2>3. \A c : op = create(c) <=> c = op.coll  BY <1>3 DEF CollectionOp
  <2> QED  BY <1>6, <1>7, <2>1, <2>2, <2>3
<1>11. UNCHANGED AcidContents
  <2>1. AcidContents = [c \in Collections |-> [k \in Keys |->
            IF Exists(c) THEN LatestIn(Ahead(t), c, k, Live(c, k)) ELSE Nothing]]
    BY <1>4, UpViewHolds DEF UpView
  <2>2. AcidContents' = [c \in Collections |-> [k \in Keys |-> Live(c, k)']]
    BY <1>4, <1>6, QuietViewNext DEF QuietView
  <2> QED  BY <1>9, <2>1, <2>2
<1> QED  BY <1>2, <1>4, <1>10, <1>11, AcidAdvance

(* A first start: there is nothing to recover. *)
LEMMA AtEase ==
    ASSUME AcidInv, phase = "recovering"
    PROVE  /\ \A t \in Threads : pc[t] = "idle" /\ committing[t] = NoTxn
           /\ Open = active /\ AcidExists = {}
           /\ AcidContents = [c \in Collections |-> [k \in Keys |-> Nothing]]
<1>1. TypeInv /\ CommitsWork /\ AtRest /\ FirstRun
  BY DEF AcidInv, DurableInv, Sound, RecoveryInv, MemoryInv, CommitInv, LoneRun
<1>2. \A t \in Threads : pc[t] = "idle" /\ committing[t] = NoTxn
  BY <1>1 DEF AtRest, Alive, TypeInv, BusyHasWork, CommitsWork
<1>3. Open = active  BY <1>2 DEF Open, Begun
<1>4. Down /\ wal = <<>> /\ dirs = {}  BY <1>1 DEF Down, FirstRun
<1>5. AcidExists = {}  BY <1>4 DEF AcidExists, LogCreates
<1>6. ASSUME NEW c \in Collections, NEW k \in Keys  PROVE LogValue(c, k) = Nothing
  <2>1. Says(wal, c, k, Len(wal), Nothing)  BY <1>4, SaysNothing
  <2> QED  BY <1>1, <2>1, LogValueIs
<1>7. AcidContents = [c \in Collections |-> [k \in Keys |-> Nothing]]
  BY <1>4, <1>6 DEF AcidContents
<1> QED  BY <1>2, <1>3, <1>5, <1>7

LEMMA AcidStart ==
    ASSUME LoneClient, AcidInv, AcidInv', FinishRecovery, phase = "recovering"
    PROVE  AcidStep
<1>1. /\ \A t \in Threads : pc[t] = "idle" /\ committing[t] = NoTxn
      /\ Open = active /\ AcidExists = {}
      /\ AcidContents = [c \in Collections |-> [k \in Keys |-> Nothing]]
  BY AtEase
<1>2. /\ phase' = "running" /\ UNCHANGED <<data, txns, threads>>
      /\ collections' = [c \in Collections |->
             IF c \in dirs /\ ~Exists(c) THEN Fresh(c) ELSE collections[c]]
  BY DEF FinishRecovery
<1>3. dirs = {} /\ NoGhosts /\ \A c \in Collections : ~Exists(c)
  BY DEF AcidInv, LoneRun, FirstRun, DurableInv, Sound, ReplayInv
<1>4. ~Down'  BY <1>2 DEF Down
<1>5. \A c \in Collections : ~Exists(c)'  BY <1>2, <1>3 DEF Exists
<1>6. \A t \in Threads : ~Begun(t)' /\ Bound(t)' = <<>>
  BY <1>1, <1>2 DEF Begun, Bound
<1>7. UNCHANGED Open  BY <1>1, <1>2, <1>6 DEF Open
<1>8. UNCHANGED AcidExists  BY <1>1, <1>4, <1>5, <1>6 DEF AcidExists, BoundToCreate
<1>9. ASSUME NEW c \in Collections, NEW k \in Keys  PROVE Outcome(c, k)' = Nothing
  <2>1. Live(c, k)' = Nothing
    BY <1>2, <1>3, ValuesAssumption DEF NoGhosts, Exists, Live, Empty
  <2>2. ~AcceptsDocs(c)'  BY <1>5 DEF Exists, AcceptsDocs
  <2> QED  BY <2>1, <2>2 DEF Outcome
<1>10. UNCHANGED AcidContents
  <2>1. AcidContents' = [c \in Collections |-> [k \in Keys |-> Outcome(c, k)']]
    BY <1>4 DEF AcidContents
  <2> QED  BY <1>1, <1>9, <2>1
<1>11. UNCHANGED <<AcidBuffer, AcidRequest, answer>>
  BY <1>2, <1>7 DEF AcidBuffer, AcidRequest
<1> QED  BY <1>7, <1>8, <1>10, <1>11 DEF AcidStep, Acid!vars

LEMMA AcidStutters == ASSUME UNCHANGED vars PROVE AcidStep
<1>1. \A c, k : LogValue(c, k)' = LogValue(c, k)
  BY DEF LogValue, LogSays, Recoverable, Writes
<1>2. /\ \A t : Begun(t)' = Begun(t) /\ Bound(t)' = Bound(t)
      /\ \A c : Exists(c)' = Exists(c) /\ LogCreates(c)' = LogCreates(c)
      /\ Down' = Down /\ active' = active /\ ops' = ops /\ dirs' = dirs
  BY DEF Begun, Bound, Doomed, AcceptsDocs, CurrentOp, Exists, LogCreates, Recoverable, Down
<1>4. \A c : BoundToCreate(c)' = BoundToCreate(c)  BY <1>2 DEF BoundToCreate
<1>5. \A c, k : Outcome(c, k)' = Outcome(c, k)
  BY SMT DEF Outcome, Bound, Begun, Doomed, AcceptsDocs, CurrentOp, Live, LatestIn
<1>6. UNCHANGED Open  BY <1>2 DEF Open
<1>7. UNCHANGED AcidExists  BY <1>2, <1>4 DEF AcidExists
<1>8. UNCHANGED AcidContents  BY <1>1, <1>2, <1>5 DEF AcidContents
<1>9. UNCHANGED AcidBuffer  BY <1>2, <1>6 DEF AcidBuffer
<1>10. UNCHANGED <<AcidRequest, answer>>  BY DEF AcidRequest
<1> QED  BY <1>6, <1>7, <1>8, <1>9, <1>10 DEF AcidStep, Acid!vars

LEMMA AcidInit == Init => Acid!Init
<1> SUFFICES ASSUME Init PROVE Acid!Init  OBVIOUS
<1>1. Down  BY DEF Init, Down
<1>2. AcidExists = {}  BY <1>1 DEF Init, AcidExists, LogCreates
<1>3. ASSUME NEW c \in Collections, NEW k \in Keys  PROVE LogValue(c, k) = Nothing
  <2>1. Says(wal, c, k, Len(wal), Nothing)  BY SaysNothing DEF Init
  <2> QED  BY <2>1, TypeInit, LogValueIs
<1>4. AcidContents = [c \in Collections |-> [k \in Keys |-> Nothing]]
  BY <1>1, <1>3 DEF AcidContents
<1>5. Open = {}  BY DEF Open, Init
<1>6. AcidBuffer = [i \in Tids |-> <<>>]  BY <1>5 DEF AcidBuffer
<1>7. AcidRequest = [t \in Threads |-> "none"]  BY DEF AcidRequest, Init
<1> QED  BY <1>2, <1>4, <1>5, <1>6, <1>7 DEF Init, Acid!Init

LEMMA AcidNext == ASSUME LoneClient, AcidInv, AcidInv', [Next]_vars PROVE AcidStep
BY LoneCases, AcidRequestStep, AcidLog, AcidApplyDoc, AcidApplyCreate, AcidStart, AcidStutters

(* One orderly client at a time, on a server that is not killed, gets the  *)
(* transactions that tissdb_api_guide.md:111-125 promises: a commit takes  *)
(* all its operations into the store in one step, before it is answered; a *)
(* rollback and a failed request take none; reads in a transaction see     *)
(* its own operations.  (Another reader in mid-commit, and a crash, do see *)
(* a part of it.)                                                          *)
THEOREM EngineIsAcid ==
    ASSUME LoneClient
    PROVE  Spec => ImplementsAcidStore
<1>1. AcidInv /\ AcidInv' /\ [Next]_vars => [Acid!Next]_(Acid!vars)
  BY AcidNext DEF AcidStep
<1>2. Spec => []AcidInv  BY AcidInvariant
<1> QED  BY <1>1, <1>2, AcidInit, PTL DEF Spec, ImplementsAcidStore, Acid!Spec
=============================================================================
