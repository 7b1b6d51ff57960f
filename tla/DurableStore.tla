---------------------------- MODULE DurableStore ----------------------------
(***************************************************************************)
(* What TissDB promises to its clients about single documents: a store of  *)
(* documents in collections that a crash does not touch.  There is no log  *)
(* and no recovery here.  A request is a sequence of writes carried out    *)
(* one after the other; a write that was answered is there for good, and a *)
(* crash may or may not carry out the write each thread was busy with.     *)
(* Deleting collections and reading inside a transaction are not part of   *)
(* this contract.                                                          *)
(***************************************************************************)
EXTENDS Sequences

CONSTANTS Collections, Keys, Docs, Threads, Nothing, Ops

VARIABLES
    mode,       \* "serving", "closing" or "down"
    exists,     \* the collections there are
    store,      \* store[c][k]: the document, or Nothing
    pending,    \* the writes each thread has still to carry out
    batch,      \* is the thread's request a transaction commit?
    answer      \* the last answer to each thread's client

vars == <<mode, exists, store, pending, batch, answer>>

Empty == [k \in Keys |-> Nothing]
Answers == Docs \cup {"none", "ok", "error", "absent"}

Init ==
    /\ mode = "down"
    /\ exists = {}
    /\ store = [c \in Collections |-> Empty]
    /\ pending = [t \in Threads |-> <<>>]
    /\ batch = [t \in Threads |-> FALSE]
    /\ answer = [t \in Threads |-> "none"]

Idle(t) == mode = "serving" /\ pending[t] = <<>>

Request(t) ==
    /\ Idle(t)
    /\ pending' \in [Threads -> Seq(Ops)] /\ pending'[t] # <<>>
    /\ \A u \in Threads \ {t} : pending'[u] = pending[u]
    /\ \E isBatch \in BOOLEAN : batch' = [batch EXCEPT ![t] = isBatch]
    /\ answer' = [answer EXCEPT ![t] = "none"]
    /\ UNCHANGED <<mode, exists, store>>

Read(t, c, k) ==
    /\ Idle(t)
    /\ answer' = [answer EXCEPT ![t] =
            IF c \in exists /\ store[c][k] # Nothing THEN store[c][k] ELSE "absent"]
    /\ UNCHANGED <<mode, exists, store, pending, batch>>

(* Administration and transaction-local requests: an answer of any kind,   *)
(* and no effect on the store.                                             *)
OtherRequest(t) ==
    /\ Idle(t)
    /\ \E a \in Answers : answer' = [answer EXCEPT ![t] = a]
    /\ UNCHANGED <<mode, exists, store, pending, batch>>

Answered(t, result) ==
    /\ pending' = [pending EXCEPT ![t] = Tail(@)]
    /\ IF Tail(pending[t]) # <<>>
       THEN UNCHANGED <<batch, answer>>
       ELSE /\ answer' = [answer EXCEPT ![t] = IF batch[t] THEN "ok" ELSE result]
            /\ batch' = [batch EXCEPT ![t] = FALSE]

Busy(t, type) == mode # "down" /\ pending[t] # <<>> /\ Head(pending[t]).type = type

Write(t) ==
    LET op == Head(pending[t]) IN
    /\ Busy(t, "PUT") /\ op.coll \in exists
    /\ store' = [store EXCEPT ![op.coll][op.key] = op.doc]
    /\ Answered(t, "ok")
    /\ UNCHANGED <<mode, exists>>

Remove(t) ==
    LET op == Head(pending[t]) IN
    /\ Busy(t, "DELETE")
    /\ store' = [store EXCEPT ![op.coll][op.key] = Nothing]
    /\ Answered(t, IF op.coll \in exists /\ store[op.coll][op.key] # Nothing
                   THEN "ok" ELSE "absent")
    /\ UNCHANGED <<mode, exists>>

Create(t) ==
    LET op == Head(pending[t]) IN
    /\ Busy(t, "CREATE_COLLECTION")
    /\ exists' = exists \cup {op.coll}
    /\ Answered(t, "ok")
    /\ UNCHANGED <<mode, store>>

Reject(t) ==
    /\ \/ mode = "closing" /\ pending[t] # <<>>
       \/ Busy(t, "PUT") /\ Head(pending[t]).coll \notin exists
    /\ pending' = [pending EXCEPT ![t] = <<>>]
    /\ batch' = [batch EXCEPT ![t] = FALSE]
    /\ answer' = [answer EXCEPT ![t] = "error"]
    /\ UNCHANGED <<mode, exists, store>>

Close == /\ mode = "serving" /\ mode' = "closing"
         /\ UNCHANGED <<exists, store, pending, batch, answer>>

(* The writes that were under way when the process ended. *)
UnderWay == {Head(pending[t]) : t \in {u \in Threads : pending[u] # <<>>}}

Crash ==
    /\ mode # "down" /\ mode' = "down"
    /\ \E done \in SUBSET UnderWay :
        /\ exists' = exists \cup
               {op.coll : op \in {o \in done : o.type = "CREATE_COLLECTION"}}
        /\ store' = [c \in Collections |-> [k \in Keys |->
               LET hits == {op \in done : op.type \in {"PUT", "DELETE"}
                                          /\ op.coll = c /\ op.key = k}
               IN  IF hits = {} THEN store[c][k] ELSE (CHOOSE op \in hits : TRUE).doc]]
    /\ pending' = [t \in Threads |-> <<>>]
    /\ batch' = [t \in Threads |-> FALSE]
    /\ answer' = [t \in Threads |-> "none"]

Recover == /\ mode = "down" /\ mode' = "serving"
           /\ UNCHANGED <<exists, store, pending, batch, answer>>

Next ==
    \/ \E t \in Threads :
        \/ Request(t) \/ OtherRequest(t) \/ Write(t) \/ Remove(t) \/ Create(t) \/ Reject(t)
        \/ \E c \in Collections, k \in Keys : Read(t, c, k)
    \/ Close \/ Crash \/ Recover

Spec == Init /\ [][Next]_vars
=============================================================================
