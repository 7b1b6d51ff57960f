----------------------------- MODULE AcidStore -----------------------------
(***************************************************************************)
(* Transactions as the API guide promises them ("TissDB supports basic     *)
(* ACID transactions", docs/tissdb_api_guide.md:111): a commit changes the *)
(* store by all its operations in one step, a rollback and a crash by none *)
(* of them, and a transaction that committed is over.                      *)
(***************************************************************************)
EXTENDS Integers, Sequences

CONSTANTS Collections, Keys, Docs, Threads, Tids, Nothing

VARIABLES
    exists,     \* the collections there are
    store,      \* store[c][k]: the document, or Nothing
    active,     \* open transactions
    buffer,     \* the operations each open transaction has collected
    request,    \* what each thread is busy with: a write, a commit or nothing
    answer      \* the last answer to each thread's client

vars == <<exists, store, active, buffer, request, answer>>

Init ==
    /\ exists = {}
    /\ store = [c \in Collections |-> [k \in Keys |-> Nothing]]
    /\ active = {}
    /\ buffer = [i \in Tids |-> <<>>]
    /\ request = [t \in Threads |-> "none"]
    /\ answer = [t \in Threads |-> "none"]

(* What key k of collection c holds after the operations of seq: the last  *)
(* of them that concerns it decides.                                       *)
After(seq, c, k, old) ==
    IF \E i \in DOMAIN seq : seq[i].coll = c /\ seq[i].key = k
    THEN LET last == CHOOSE i \in DOMAIN seq :
                 /\ seq[i].coll = c /\ seq[i].key = k
                 /\ \A j \in DOMAIN seq : j > i => seq[j].coll # c \/ seq[j].key # k
         IN  seq[last].doc
    ELSE old

Accept(t) ==
    /\ request[t] = "none"
    /\ \E kind \in {"write", "commit"} : request' = [request EXCEPT ![t] = kind]
    /\ answer' = [answer EXCEPT ![t] = "none"]
    /\ UNCHANGED <<exists, store, active, buffer>>

(* A request ends.  What it did it did before; one that fails did nothing. *)
Finish(t) ==
    /\ request' = [request EXCEPT ![t] = "none"]
    /\ \E a \in {"ok", "absent", "error"} : answer' = [answer EXCEPT ![t] = a]
    /\ UNCHANGED <<exists, store, active, buffer>>

Create(t, c) ==
    /\ request[t] = "write"
    /\ exists' = exists \cup {c}
    /\ UNCHANGED <<store, active, buffer, request, answer>>

Write(t, c, k, v) ==
    /\ request[t] = "write" /\ c \in exists
    /\ store' = [store EXCEPT ![c][k] = v]
    /\ UNCHANGED <<exists, active, buffer, request, answer>>

Begin(tid) ==
    /\ tid \notin active
    /\ active' = active \cup {tid}
    /\ buffer' = [buffer EXCEPT ![tid] = <<>>]
    /\ UNCHANGED <<exists, store, request, answer>>

Collect(tid) ==
    /\ tid \in active
    /\ Len(buffer'[tid]) = Len(buffer[tid]) + 1
    /\ SubSeq(buffer'[tid], 1, Len(buffer[tid])) = buffer[tid]
    /\ \A i \in Tids \ {tid} : buffer'[i] = buffer[i]
    /\ UNCHANGED <<exists, store, active, request, answer>>

End(tid) ==
    /\ tid \in active
    /\ active' = active \ {tid}
    /\ buffer' = [buffer EXCEPT ![tid] = <<>>]

Commit(t, tid) ==
    /\ request[t] = "commit"
    /\ End(tid)
    /\ store' = [c \in Collections |-> [k \in Keys |->
                    After(buffer[tid], c, k, store[c][k])]]
    /\ UNCHANGED <<exists, request, answer>>

(* A rollback, or the commit of a transaction without operations. *)
Rollback(t, tid) ==
    /\ End(tid)
    /\ answer' = [answer EXCEPT ![t] = "ok"]
    /\ UNCHANGED <<exists, store, request>>

Reply(v) == IF v = Nothing THEN "absent" ELSE v
Stored(c, k) == IF c \in exists THEN store[c][k] ELSE Nothing

Read(t, c, k) ==
    /\ answer' = [answer EXCEPT ![t] = Reply(Stored(c, k))]
    /\ UNCHANGED <<exists, store, active, buffer, request>>

ReadInTransaction(t, tid, c, k) ==
    /\ tid \in active
    /\ answer' = [answer EXCEPT ![t] = Reply(After(buffer[tid], c, k, Stored(c, k)))]
    /\ UNCHANGED <<exists, store, active, buffer, request>>

(* Open transactions and unanswered requests are lost; the store is not. *)
Crash ==
    /\ active' = {}
    /\ buffer' = [i \in Tids |-> <<>>]
    /\ request' = [t \in Threads |-> "none"]
    /\ answer' = [t \in Threads |-> "none"]
    /\ UNCHANGED <<exists, store>>

Next ==
    \/ \E t \in Threads :
        \/ Accept(t) \/ Finish(t)
        \/ \E tid \in Tids : Commit(t, tid) \/ Rollback(t, tid)
        \/ \E c \in Collections :
            \/ Create(t, c)
            \/ \E k \in Keys :
                \/ \E v \in Docs \cup {Nothing} : Write(t, c, k, v)
                \/ Read(t, c, k)
                \/ \E tid \in Tids : ReadInTransaction(t, tid, c, k)
    \/ \E tid \in Tids : Begin(tid) \/ Collect(tid)
    \/ Crash

Spec == Init /\ [][Next]_vars
=============================================================================
