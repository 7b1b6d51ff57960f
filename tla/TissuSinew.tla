---------------------------- MODULE TissuSinew ----------------------------
(***************************************************************************)
(* Tissu Sinew, the C++ client of TissDB: the connection pool shared by    *)
(* the threads of an application, the sessions that borrow a connection    *)
(* from it, and the transactions that run on a session.                    *)
(* Source: src/quanta_tissu/tisslm/program/tissu_sinew.cpp                 *)
(***************************************************************************)
EXTENDS Naturals, Sequences, FiniteSets

CONSTANTS
    Threads,        \* application threads; each uses one session at a time
    Sockets,        \* the pool_size connections the constructor opens
    Dead            \* the sockfd_ of a session whose connection is gone: -1

ASSUME SocketsAssumption == IsFiniteSet(Sockets) /\ Dead \notin Sockets
ASSUME ThreadsAssumption == IsFiniteSet(Threads)

VARIABLES
    client,         \* the TissuClient: being made, usable, refused or destroyed
    openSockets,    \* connected file descriptors of the process
    all,            \* all_connections_
    available,      \* available_connections_
    step,           \* where each thread is
    sock,           \* sockfd_ of each thread's session
    serverTxn       \* server: is a transaction open on the connection?

pool == <<client, openSockets, all, available>>
vars == <<pool, step, sock, serverTxn>>

(* "transaction": the session has a TissuTransaction with is_active_ set.  *)
Steps == {"idle", "asleep", "woken", "session", "transaction", "notify"}
InSession(t) == step[t] \in {"session", "transaction"}

TypeOK ==
    /\ client \in {"connecting", "ready", "failed", "destroyed"}
    /\ openSockets \subseteq Sockets
    /\ all \subseteq Sockets
    /\ available \in Seq(Sockets)
    /\ step \in [Threads -> Steps]
    /\ sock \in [Threads -> Sockets \cup {Dead}]
    /\ serverTxn \in [Sockets -> BOOLEAN]

Init ==
    /\ client = "connecting"
    /\ openSockets = {} /\ all = {} /\ available = <<>>
    /\ step = [t \in Threads |-> "idle"]
    /\ sock = [t \in Threads |-> Dead]
    /\ serverTxn = [s \in Sockets |-> FALSE]

-----------------------------------------------------------------------------
(* The client: TissuClient::create and the destructor.                     *)

Connect(s) ==
    /\ client = "connecting" /\ s \notin all
    /\ openSockets' = openSockets \cup {s}
    /\ all' = all \cup {s}
    /\ available' = Append(available, s)
    /\ UNCHANGED <<client, step, sock, serverTxn>>

Connected ==
    /\ client = "connecting" /\ all = Sockets
    /\ client' = "ready"
    /\ UNCHANGED <<openSockets, all, available, step, sock, serverTxn>>

(* The exception leaves the constructor, so its destructor never runs: the *)
(* connections made so far stay open and nobody knows them.                *)
ConnectFails ==
    /\ client = "connecting" /\ all # Sockets
    /\ client' = "failed" /\ all' = {} /\ available' = <<>>
    /\ UNCHANGED <<openSockets, step, sock, serverTxn>>

(* The application may destroy the client once no thread uses it. *)
DestroyClient ==
    /\ client = "ready" /\ \A t \in Threads : step[t] = "idle"
    /\ client' = "destroyed"
    /\ openSockets' = openSockets \ all
    /\ all' = {} /\ available' = <<>>
    /\ UNCHANGED <<step, sock, serverTxn>>

-----------------------------------------------------------------------------
(* getConnection: cv_.wait_for under mtx_, with a predicate.               *)

(* The predicate holds: the front of the queue becomes the session's.      *)
Take(t) ==
    /\ available # <<>>
    /\ sock' = [sock EXCEPT ![t] = Head(available)]
    /\ available' = Tail(available)
    /\ step' = [step EXCEPT ![t] = "session"]
    /\ UNCHANGED <<client, openSockets, all, serverTxn>>

Becomes(t, where) ==
    /\ step' = [step EXCEPT ![t] = where]
    /\ UNCHANGED <<pool, sock, serverTxn>>

(* The thread looks before it sleeps, and may overtake one that is woken.  *)
GetSession(t) ==
    /\ client = "ready" /\ step[t] = "idle"
    /\ \/ Take(t)
       \/ available = <<>> /\ Becomes(t, "asleep")

Wake(t) ==
    /\ step[t] = "woken"
    /\ \/ Take(t)
       \/ available = <<>> /\ Becomes(t, "asleep")

WakeSpuriously(t) == step[t] = "asleep" /\ Becomes(t, "woken")

(* Faulty variant of TimeOut: the wait has no limit. *)
TimeOutNever(t) ==
    /\ step[t] \in {"asleep", "woken"}
    /\ Take(t)

(* connect_timeout_ms is over: the predicate is tried once more.           *)
TimeOut(t) ==
    /\ step[t] \in {"asleep", "woken"}
    /\ \/ Take(t)
       \/ available = <<>> /\ Becomes(t, "idle")

-----------------------------------------------------------------------------
(* The session's end.  releaseConnection pushes under mtx_ and notifies    *)
(* after it has unlocked it; it ignores a dead connection.                 *)

(* Faulty variant of DestroySession: it notifies only when the queue was empty. *)
DestroySessionQuietly(t) ==
    /\ step[t] = "session"
    /\ available' = IF sock[t] = Dead THEN available ELSE Append(available, sock[t])
    /\ sock' = [sock EXCEPT ![t] = Dead]
    /\ step' = [step EXCEPT ![t] =
            IF sock[t] = Dead \/ available # <<>> THEN "idle" ELSE "notify"]
    /\ UNCHANGED <<client, openSockets, all, serverTxn>>

(* Faulty variant of DestroySession: the connection is pushed before the   *)
(* session gives it up.                                                    *)
DestroySessionTwice(t) ==
    /\ step[t] = "session"
    /\ available' = IF sock[t] = Dead THEN available ELSE Append(available, sock[t])
    /\ step' = [step EXCEPT ![t] = "notify"]
    /\ UNCHANGED <<client, openSockets, all, sock, serverTxn>>

(* Faulty variant of DestroySession: a dead connection is released as well. *)
DestroySessionUnchecked(t) ==
    /\ step[t] = "session"
    /\ available' = Append(available, sock[t])
    /\ sock' = [sock EXCEPT ![t] = Dead]
    /\ step' = [step EXCEPT ![t] = "notify"]
    /\ UNCHANGED <<client, openSockets, all, serverTxn>>

DestroySession(t) ==
    /\ step[t] = "session"
    /\ available' = IF sock[t] = Dead THEN available ELSE Append(available, sock[t])
    /\ sock' = [sock EXCEPT ![t] = Dead]
    /\ step' = [step EXCEPT ![t] = IF sock[t] = Dead THEN "idle" ELSE "notify"]
    /\ UNCHANGED <<client, openSockets, all, serverTxn>>

Notify(t) ==
    /\ step[t] = "notify"
    /\ \/ \E u \in Threads :
            /\ step[u] = "asleep"
            /\ step' = [step EXCEPT ![t] = "idle", ![u] = "woken"]
       \/ /\ \A u \in Threads : step[u] # "asleep"
          /\ step' = [step EXCEPT ![t] = "idle"]
    /\ UNCHANGED <<pool, sock, serverTxn>>

-----------------------------------------------------------------------------
(* run: the query is sent, the server carries it out, the answer comes.    *)

(* What the server does with the query on its side of the connection.      *)
AfterQuery(query, wasOpen) == query = "BEGIN" \/ (query = "QUERY" /\ wasOpen)

Answered(t, query) ==
    /\ sock[t] # Dead
    /\ serverTxn' = [serverTxn EXCEPT ![sock[t]] = AfterQuery(query, @)]
    /\ UNCHANGED <<pool, sock>>

(* Faulty variant of Broken: the connection is forgotten but not closed. *)
BrokenUnclosed(t, query) ==
    /\ sock[t] # Dead
    /\ \E executed \in BOOLEAN : serverTxn' = [serverTxn EXCEPT ![sock[t]] =
            IF executed THEN AfterQuery(query, @) ELSE @]
    /\ all' = all \ {sock[t]}
    /\ sock' = [sock EXCEPT ![t] = Dead]
    /\ UNCHANGED <<client, openSockets, available>>

(* A send or a receive fails, or the answer is too long.  The server may   *)
(* have carried out the query or not.  declareConnectionDead closes the    *)
(* connection; nothing replaces it and no waiting thread is notified.      *)
Broken(t, query) ==
    /\ sock[t] # Dead
    /\ \E executed \in BOOLEAN : serverTxn' = [serverTxn EXCEPT ![sock[t]] =
            IF executed THEN AfterQuery(query, @) ELSE @]
    /\ openSockets' = openSockets \ {sock[t]}
    /\ all' = all \ {sock[t]}
    /\ sock' = [sock EXCEPT ![t] = Dead]
    /\ UNCHANGED <<client, available>>

Query(t) ==
    /\ InSession(t)
    /\ Answered(t, "QUERY") \/ Broken(t, "QUERY")
    /\ UNCHANGED step

BeginTransaction(t) ==
    /\ step[t] = "session"
    /\ \/ /\ Answered(t, "BEGIN")
          /\ step' = [step EXCEPT ![t] = "transaction"]
       \/ /\ Broken(t, "BEGIN")
          /\ UNCHANGED step

(* commit and rollback clear is_active_ only after run has returned.       *)
Finish(t, query) ==
    /\ step[t] = "transaction"
    /\ \/ /\ Answered(t, query)
          /\ step' = [step EXCEPT ![t] = "session"]
       \/ /\ Broken(t, query)
          /\ UNCHANGED step

Commit(t) == Finish(t, "COMMIT")
Rollback(t) == Finish(t, "ROLLBACK")

(* Faulty variant of DestroyTransaction: it does not roll back. *)
DestroyTransactionOnly(t) ==
    /\ step[t] = "transaction"
    /\ step' = [step EXCEPT ![t] = "session"]
    /\ UNCHANGED <<pool, sock, serverTxn>>

(* The destructor rolls back and swallows the exception if that fails.     *)
DestroyTransaction(t) ==
    /\ step[t] = "transaction"
    /\ step' = [step EXCEPT ![t] = "session"]
    /\ \/ Answered(t, "ROLLBACK")
       \/ Broken(t, "ROLLBACK")
       \/ sock[t] = Dead /\ UNCHANGED <<pool, sock, serverTxn>>

(* The server rolls back when it finds the connection closed.              *)
ServerAbandons(s) ==
    /\ serverTxn[s] /\ s \notin openSockets
    /\ serverTxn' = [serverTxn EXCEPT ![s] = FALSE]
    /\ UNCHANGED <<pool, step, sock>>

-----------------------------------------------------------------------------
Next ==
    \/ \E s \in Sockets : Connect(s) \/ ServerAbandons(s)
    \/ Connected \/ ConnectFails \/ DestroyClient
    \/ \E t \in Threads :
        \/ GetSession(t) \/ Wake(t) \/ WakeSpuriously(t) \/ TimeOut(t)
        \/ DestroySession(t) \/ Notify(t)
        \/ Query(t) \/ BeginTransaction(t) \/ Commit(t) \/ Rollback(t)
        \/ DestroyTransaction(t)

(* A woken thread runs, a wait ends at its time limit, and the server      *)
(* notices a closed connection.  Nothing says that an application gives    *)
(* its session back, nor that an answer arrives: run has no time limit.    *)
Fairness ==
    /\ \A t \in Threads : WF_vars(TimeOut(t)) /\ WF_vars(Notify(t))
    /\ \A s \in Sockets : WF_vars(ServerAbandons(s))

Spec == Init /\ [][Next]_vars /\ Fairness

-----------------------------------------------------------------------------
Queued == {available[i] : i \in DOMAIN available}

(* Every connection of the pool is open and in exactly one place: once in  *)
(* the queue, or with one session.  So no two sessions ever write to one   *)
(* connection, a closed one is never handed out, and none is lost          *)
(* (getConnection, releaseConnection, declareConnectionDead).              *)
OnePlaceEach ==
    /\ client \in {"connecting", "ready"} => openSockets = all
    /\ \A s \in all : s \in Queued \/ \E t \in Threads : sock[t] = s
    /\ Queued \subseteq all
    /\ \A i, j \in DOMAIN available : available[i] = available[j] => i = j
    /\ \A t \in Threads : sock[t] # Dead =>
        /\ sock[t] \in all \ Queued
        /\ InSession(t)
        /\ \A u \in Threads : sock[u] = sock[t] => u = t

(* A transaction open on a live connection belongs to a TissuTransaction   *)
(* that can still end it: a connection goes back to the pool, and to the   *)
(* next session, without one (~TissuTransaction, declareConnectionDead).   *)
OpenTransactionsOwned ==
    \A s \in openSockets : serverTxn[s] =>
        \E t \in Threads : step[t] = "transaction" /\ sock[t] = s

(* Threads that have been notified, or still have to notify another one.   *)
OnTheirWay == {t \in Threads : step[t] \in {"woken", "notify"}}

(* No lost wakeup: as long as a thread sleeps in getConnection, every      *)
(* connection in the queue has a thread on its way, one that is woken or   *)
(* one still to call notify_one.                                           *)
NoLostWakeup ==
    (\E t \in Threads : step[t] = "asleep") => Len(available) <= Cardinality(OnTheirWay)

(* getSession returns or throws, even when no connection ever comes back.  *)
GetSessionEnds ==
    \A t \in Threads : step[t] \in {"asleep", "woken"} ~> step[t] \notin {"asleep", "woken"}

(* A transaction nobody can end any more does not stay open on the server: *)
(* "ensuring it is either committed or rolled back".                       *)
TransactionsEnd ==
    \A s \in Sockets :
        (serverTxn[s] /\ ~\E t \in Threads : step[t] = "transaction" /\ sock[t] = s)
            ~> ~serverTxn[s]
=============================================================================
