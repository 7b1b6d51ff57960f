------------------------- MODULE TissuSinewProofs -------------------------
(***************************************************************************)
(* The pool of Tissu Sinew hands every connection to one session at a time *)
(* and never with somebody else's transaction open on it, for any number   *)
(* of threads and connections.                                             *)
(***************************************************************************)
EXTENDS TissuSinew, FiniteSetTheorems, TLAPS

(* A thread is in a session, or waits for one, only while the client lives. *)
OnlyWhenReady == client # "ready" => \A t \in Threads : step[t] = "idle"

(* No transaction is open on a connection nobody has used yet. *)
FreshUnused ==
    client \in {"connecting", "failed"} => \A s \in Sockets : ~serverTxn[s]

PoolInv ==
    /\ TypeOK
    /\ OnePlaceEach
    /\ OpenTransactionsOwned
    /\ OnlyWhenReady
    /\ FreshUnused

-----------------------------------------------------------------------------
(* What the two operations on the queue do to the set of queued connections. *)

LEMMA AppendQueue ==
    ASSUME NEW Q \in Seq(Sockets), NEW s \in Sockets
    PROVE  /\ Append(Q, s) \in Seq(Sockets)
           /\ DOMAIN Append(Q, s) = DOMAIN Q \cup {Len(Q) + 1}
           /\ \A i \in DOMAIN Q : Append(Q, s)[i] = Q[i]
           /\ Append(Q, s)[Len(Q) + 1] = s
           /\ Len(Q) + 1 \notin DOMAIN Q
    OBVIOUS

LEMMA TailQueue ==
    ASSUME NEW Q \in Seq(Sockets), Q # <<>>
    PROVE  /\ Head(Q) \in Sockets
           /\ Head(Q) = Q[1] /\ 1 \in DOMAIN Q
           /\ Tail(Q) \in Seq(Sockets)
           /\ \A i \in DOMAIN Tail(Q) : i + 1 \in DOMAIN Q /\ Tail(Q)[i] = Q[i + 1] /\ i + 1 # 1
           /\ \A j \in DOMAIN Q : j # 1 => j - 1 \in DOMAIN Tail(Q) /\ Tail(Q)[j - 1] = Q[j]
           /\ \A i, j \in DOMAIN Tail(Q) : i + 1 = j + 1 => i = j
    OBVIOUS

LEMMA InitPool == Init => PoolInv
    BY SocketsAssumption DEF Init, PoolInv, TypeOK, Steps, OnePlaceEach, Queued,
       OpenTransactionsOwned, OnlyWhenReady, FreshUnused

-----------------------------------------------------------------------------
(* The connections of the pool, while it is made and when it is destroyed. *)

LEMMA ConnectKeeps == PoolInv /\ (\E s \in Sockets : Connect(s)) => PoolInv'
<1> SUFFICES ASSUME PoolInv, NEW s \in Sockets, Connect(s) PROVE PoolInv'
    OBVIOUS
<1> USE SocketsAssumption
<1>1. available \in Seq(Sockets) /\ available' = Append(available, s)
    BY DEF PoolInv, TypeOK, Connect
<1>2. Queued' = Queued \cup {s}
    BY <1>1, AppendQueue DEF Queued
<1>3. \A t \in Threads : step[t] = "idle" /\ sock[t] = Dead
    BY DEF PoolInv, OnlyWhenReady, OnePlaceEach, InSession, Connect
<1>4. TypeOK'
    BY <1>1, AppendQueue DEF PoolInv, TypeOK, Connect
<1>5. OnePlaceEach'
  <2>1. \A i, j \in DOMAIN available' : available'[i] = available'[j] => i = j
      BY <1>1, AppendQueue DEF PoolInv, OnePlaceEach, Queued, Connect
  <2> QED BY <1>2, <1>3, <2>1 DEF PoolInv, OnePlaceEach, Connect
<1>6. OpenTransactionsOwned' /\ OnlyWhenReady' /\ FreshUnused'
    BY DEF PoolInv, TypeOK, OpenTransactionsOwned, OnlyWhenReady, FreshUnused, Connect
<1> QED BY <1>4, <1>5, <1>6 DEF PoolInv

LEMMA ClientKeeps ==
    PoolInv /\ (Connected \/ ConnectFails \/ DestroyClient) => PoolInv'
<1> SUFFICES ASSUME PoolInv, Connected \/ ConnectFails \/ DestroyClient PROVE PoolInv'
    OBVIOUS
<1> USE SocketsAssumption
<1>1. \A t \in Threads : step[t] = "idle" /\ sock[t] = Dead
    BY DEF PoolInv, OnlyWhenReady, OnePlaceEach, InSession, Connected, ConnectFails, DestroyClient
<1>2. CASE Connected
    BY <1>2 DEF Connected, PoolInv, TypeOK, OnePlaceEach, Queued, InSession,
       OpenTransactionsOwned, OnlyWhenReady, FreshUnused
<1>3. CASE ConnectFails
    BY <1>1, <1>3 DEF ConnectFails, PoolInv, TypeOK, OnePlaceEach, Queued,
       OpenTransactionsOwned, OnlyWhenReady, FreshUnused
<1>4. CASE DestroyClient
    BY <1>1, <1>4 DEF DestroyClient, PoolInv, TypeOK, OnePlaceEach, Queued,
       OpenTransactionsOwned, OnlyWhenReady, FreshUnused
<1> QED BY <1>2, <1>3, <1>4

-----------------------------------------------------------------------------
(* getConnection. *)

LEMMA TakeKeeps ==
    ASSUME PoolInv, NEW t \in Threads, step[t] \in {"idle", "asleep", "woken"},
           client = "ready", Take(t)
    PROVE  PoolInv'
<1> USE SocketsAssumption
<1> DEFINE s == Head(available)
<1>1. available \in Seq(Sockets) /\ available # <<>> /\ available' = Tail(available)
    BY DEF PoolInv, TypeOK, Take
<1>2. s \in Queued /\ s \in Sockets
    BY <1>1, TailQueue DEF Queued
<1>3. Queued' = Queued \ {s}
  <2>1. ASSUME NEW x \in Queued' PROVE x \in Queued /\ x # s
    <3>1. PICK i \in DOMAIN Tail(available) : x = Tail(available)[i]
        BY <1>1 DEF Queued
    <3>2. i + 1 \in DOMAIN available /\ x = available[i + 1] /\ i + 1 # 1
        BY <1>1, <3>1, TailQueue
    <3>3. 1 \in DOMAIN available /\ s = available[1]
        BY <1>1, TailQueue
    <3>4. x # s
        BY <3>2, <3>3 DEF PoolInv, OnePlaceEach
    <3> QED BY <3>2, <3>4 DEF Queued
  <2>2. ASSUME NEW x \in Queued, x # s PROVE x \in Queued'
    <3>1. PICK j \in DOMAIN available : x = available[j]
        BY DEF Queued
    <3>2. j # 1
        BY <1>1, <2>2, <3>1, TailQueue
    <3>3. j - 1 \in DOMAIN Tail(available) /\ x = Tail(available)[j - 1]
        BY <1>1, <3>1, <3>2, TailQueue
    <3> QED BY <1>1, <3>3 DEF Queued
  <2> QED BY <2>1, <2>2
<1>4. sock[t] = Dead
    BY DEF PoolInv, OnePlaceEach, InSession
<1>5. sock' = [sock EXCEPT ![t] = s] /\ step' = [step EXCEPT ![t] = "session"]
      /\ UNCHANGED <<client, openSockets, all, serverTxn>>
    BY DEF Take
<1>6. TypeOK'
    BY <1>1, <1>2, <1>5, TailQueue DEF PoolInv, TypeOK, Steps
<1>7. OnePlaceEach'
  <2>1. \A i, j \in DOMAIN available' : available'[i] = available'[j] => i = j
      BY <1>1, TailQueue DEF PoolInv, OnePlaceEach
  <2>2. \A x \in all' : x \in Queued' \/ \E u \in Threads : sock'[u] = x
      BY <1>3, <1>4, <1>5 DEF PoolInv, TypeOK, OnePlaceEach
  <2>3. \A u \in Threads : sock'[u] # Dead =>
            /\ sock'[u] \in all' \ Queued'
            /\ InSession(u)'
            /\ \A v \in Threads : sock'[v] = sock'[u] => v = u
      BY <1>2, <1>3, <1>4, <1>5 DEF PoolInv, TypeOK, OnePlaceEach, InSession
  <2>4. Queued' \subseteq all'
      BY <1>3, <1>5 DEF PoolInv, OnePlaceEach
  <2> QED BY <1>5, <2>1, <2>2, <2>3, <2>4 DEF PoolInv, OnePlaceEach
<1>8. OpenTransactionsOwned'
    BY <1>5 DEF PoolInv, TypeOK, OpenTransactionsOwned
<1>9. OnlyWhenReady' /\ FreshUnused'
    BY <1>5 DEF PoolInv, OnlyWhenReady, FreshUnused
<1> QED BY <1>6, <1>7, <1>8, <1>9 DEF PoolInv

(* Steps in which threads sleep, wake, give up or notify move no connection. *)
LEMMA MovesKeep ==
    ASSUME PoolInv, client = "ready",
           UNCHANGED <<pool, sock, serverTxn>>,
           step' \in [Threads -> Steps],
           \A t \in Threads : InSession(t) => step'[t] = step[t]
    PROVE  PoolInv'
<1>1. TypeOK'
    BY DEF PoolInv, TypeOK, pool
<1>2. OnePlaceEach'
    BY DEF PoolInv, OnePlaceEach, Queued, InSession, pool
<1>3. OpenTransactionsOwned'
    BY DEF PoolInv, OpenTransactionsOwned, InSession, pool
<1>4. OnlyWhenReady' /\ FreshUnused'
    BY DEF PoolInv, OnlyWhenReady, FreshUnused, pool
<1> QED BY <1>1, <1>2, <1>3, <1>4 DEF PoolInv

LEMMA GettingKeeps ==
    ASSUME PoolInv, NEW t \in Threads,
           GetSession(t) \/ Wake(t) \/ WakeSpuriously(t) \/ TimeOut(t)
    PROVE  PoolInv'
<1>1. client = "ready" /\ step[t] \in {"idle", "asleep", "woken"}
    BY DEF PoolInv, OnlyWhenReady, GetSession, Wake, WakeSpuriously, TimeOut
<1>2. CASE Take(t)
    BY <1>1, <1>2, TakeKeeps
<1>3. CASE \E where \in {"idle", "asleep", "woken"} : Becomes(t, where)
  <2>1. step' \in [Threads -> Steps] /\ \A u \in Threads : InSession(u) => step'[u] = step[u]
      BY <1>1, <1>3 DEF Becomes, PoolInv, TypeOK, Steps, InSession
  <2> QED BY <1>1, <1>3, <2>1, MovesKeep DEF Becomes
<1> QED BY <1>2, <1>3 DEF GetSession, Wake, WakeSpuriously, TimeOut

-----------------------------------------------------------------------------
(* The end of a session. *)

LEMMA DestroySessionKeeps ==
    ASSUME PoolInv, NEW t \in Threads, DestroySession(t)
    PROVE  PoolInv'
<1> USE SocketsAssumption
<1>1. CASE sock[t] = Dead
  <2>1. UNCHANGED <<pool, sock, serverTxn>> /\ step' = [step EXCEPT ![t] = "idle"]
      BY <1>1 DEF DestroySession, PoolInv, TypeOK, pool
  <2>2. TypeOK'
      BY <2>1 DEF PoolInv, TypeOK, Steps, pool
  <2>3. OnePlaceEach'
      BY <1>1, <2>1 DEF PoolInv, TypeOK, OnePlaceEach, Queued, InSession, pool
  <2>4. OpenTransactionsOwned'
      BY <2>1 DEF DestroySession, PoolInv, TypeOK, OpenTransactionsOwned, pool
  <2>5. OnlyWhenReady' /\ FreshUnused'
      BY <2>1 DEF PoolInv, TypeOK, OnlyWhenReady, FreshUnused, pool
  <2> QED BY <2>2, <2>3, <2>4, <2>5 DEF PoolInv
<1>2. CASE sock[t] # Dead
  <2> DEFINE s == sock[t]
  <2>1. /\ available' = Append(available, s) /\ step[t] = "session"
        /\ sock' = [sock EXCEPT ![t] = Dead] /\ step' = [step EXCEPT ![t] = "notify"]
        /\ UNCHANGED <<client, openSockets, all, serverTxn>>
      BY <1>2 DEF DestroySession
  <2>2. available \in Seq(Sockets) /\ s \in Sockets /\ s \in all /\ s \notin Queued
      BY <1>2 DEF PoolInv, TypeOK, OnePlaceEach
  <2>3. Queued' = Queued \cup {s}
      BY <2>1, <2>2, AppendQueue DEF Queued
  <2>4. TypeOK'
      BY <2>1, <2>2, AppendQueue DEF PoolInv, TypeOK, Steps
  <2>5. OnePlaceEach'
    <3>1. \A i, j \in DOMAIN available' : available'[i] = available'[j] => i = j
        BY <2>1, <2>2, AppendQueue DEF PoolInv, OnePlaceEach, Queued
    <3>2. \A x \in all' : x \in Queued' \/ \E u \in Threads : sock'[u] = x
        BY <2>1, <2>3 DEF PoolInv, TypeOK, OnePlaceEach
    <3>3. \A u \in Threads : sock'[u] # Dead =>
              /\ sock'[u] \in all' \ Queued'
              /\ InSession(u)'
              /\ \A v \in Threads : sock'[v] = sock'[u] => v = u
        BY <1>2, <2>1, <2>3 DEF PoolInv, TypeOK, OnePlaceEach, InSession
    <3>4. Queued' \subseteq all'
        BY <2>1, <2>2, <2>3 DEF PoolInv, OnePlaceEach
    <3> QED BY <2>1, <3>1, <3>2, <3>3, <3>4 DEF PoolInv, OnePlaceEach
  <2>6. OpenTransactionsOwned'
      BY <2>1 DEF PoolInv, TypeOK, OpenTransactionsOwned
  <2>7. OnlyWhenReady' /\ FreshUnused'
      BY <2>1 DEF PoolInv, TypeOK, OnlyWhenReady, FreshUnused
  <2> QED BY <2>4, <2>5, <2>6, <2>7 DEF PoolInv
<1> QED BY <1>1, <1>2

LEMMA NotifyKeeps ==
    ASSUME PoolInv, NEW t \in Threads, Notify(t)
    PROVE  PoolInv'
<1>1. client = "ready"
    BY DEF PoolInv, OnlyWhenReady, Notify
<1>2. step' \in [Threads -> Steps] /\ \A u \in Threads : InSession(u) => step'[u] = step[u]
    BY DEF Notify, PoolInv, TypeOK, Steps, InSession
<1> QED BY <1>1, <1>2, MovesKeep DEF Notify

-----------------------------------------------------------------------------
(* Queries.  The step a query is part of may open or close the session's   *)
(* TissuTransaction; the server's side follows it on a live connection.    *)

LEMMA AnsweredKeeps ==
    ASSUME PoolInv, NEW t \in Threads, InSession(t), NEW query, Answered(t, query),
           step' \in [Threads -> Steps], InSession(t)',
           \A u \in Threads : u # t => step'[u] = step[u],
           query = "BEGIN" => step'[t] = "transaction",
           query = "QUERY" => step'[t] = step[t],
           query \in {"BEGIN", "COMMIT", "ROLLBACK", "QUERY"}
    PROVE  PoolInv'
<1> USE SocketsAssumption
<1> DEFINE s == sock[t]
<1>1. client = "ready" /\ s \in Sockets /\ s \in all /\ s # Dead
    BY DEF PoolInv, TypeOK, OnlyWhenReady, OnePlaceEach, InSession, Answered
<1>2. /\ serverTxn' = [serverTxn EXCEPT ![s] = AfterQuery(query, serverTxn[s])]
      /\ UNCHANGED <<client, openSockets, all, available, sock>>
    BY DEF Answered, pool
<1>3. AfterQuery(query, serverTxn[s]) \in BOOLEAN
    BY <1>1 DEF AfterQuery, PoolInv, TypeOK
<1>4. TypeOK'
    BY <1>2, <1>3 DEF PoolInv, TypeOK
<1>5. OnePlaceEach'
    BY <1>2 DEF PoolInv, OnePlaceEach, Queued, InSession
<1>6. OpenTransactionsOwned'
  <2> SUFFICES ASSUME NEW x \in openSockets, serverTxn'[x]
               PROVE  \E u \in Threads : step'[u] = "transaction" /\ sock[u] = x
      BY <1>2 DEF OpenTransactionsOwned
  <2>1. CASE x = s
    <3>1. AfterQuery(query, serverTxn[s])
        BY <1>1, <1>2, <2>1 DEF PoolInv, TypeOK
    <3>2. CASE query = "BEGIN"
        BY <2>1, <3>2
    <3>3. CASE query = "QUERY"
      <4>1. serverTxn[s]
          BY <3>1, <3>3 DEF AfterQuery
      <4>2. PICK u \in Threads : step[u] = "transaction" /\ sock[u] = s
          BY <4>1, <2>1 DEF PoolInv, OpenTransactionsOwned
      <4>3. u = t
          BY <1>1, <4>2 DEF PoolInv, OnePlaceEach
      <4> QED BY <2>1, <3>3, <4>2, <4>3
    <3>4. query \notin {"COMMIT", "ROLLBACK"}
        BY <3>1 DEF AfterQuery
    <3> QED BY <3>2, <3>3, <3>4
  <2>2. CASE x # s
    <3>1. serverTxn[x]
        BY <1>1, <1>2, <2>2 DEF PoolInv, TypeOK
    <3>2. PICK u \in Threads : step[u] = "transaction" /\ sock[u] = x
        BY <3>1 DEF PoolInv, OpenTransactionsOwned
    <3> QED BY <2>2, <3>2
  <2> QED BY <2>1, <2>2
<1>7. OnlyWhenReady' /\ FreshUnused'
    BY <1>1, <1>2 DEF OnlyWhenReady, FreshUnused
<1> QED BY <1>4, <1>5, <1>6, <1>7 DEF PoolInv

LEMMA BrokenKeeps ==
    ASSUME PoolInv, NEW t \in Threads, InSession(t), NEW query, Broken(t, query),
           step' \in [Threads -> Steps], InSession(t)',
           \A u \in Threads : u # t => step'[u] = step[u]
    PROVE  PoolInv'
<1> USE SocketsAssumption
<1> DEFINE s == sock[t]
<1>1. client = "ready" /\ s \in Sockets /\ s \in all /\ s # Dead /\ s \notin Queued
    BY DEF PoolInv, TypeOK, OnlyWhenReady, OnePlaceEach, InSession, Broken
<1>2. /\ openSockets' = openSockets \ {s} /\ all' = all \ {s}
      /\ sock' = [sock EXCEPT ![t] = Dead]
      /\ UNCHANGED <<client, available>>
    BY DEF Broken
<1>3. PICK executed \in BOOLEAN :
        serverTxn' = [serverTxn EXCEPT ![s] =
            IF executed THEN AfterQuery(query, serverTxn[s]) ELSE serverTxn[s]]
    BY DEF Broken
<1>4. AfterQuery(query, serverTxn[s]) \in BOOLEAN
    BY <1>1 DEF AfterQuery, PoolInv, TypeOK
<1>5. TypeOK'
    BY <1>2, <1>3, <1>4 DEF PoolInv, TypeOK
<1>6. OnePlaceEach'
  <2>1. Queued' = Queued
      BY <1>2 DEF Queued
  <2>2. \A x \in all' : x \in Queued' \/ \E u \in Threads : sock'[u] = x
      BY <1>2, <2>1 DEF PoolInv, TypeOK, OnePlaceEach
  <2>3. \A u \in Threads : sock'[u] # Dead =>
            /\ sock'[u] \in all' \ Queued'
            /\ InSession(u)'
            /\ \A v \in Threads : sock'[v] = sock'[u] => v = u
      BY <1>1, <1>2, <2>1 DEF PoolInv, TypeOK, OnePlaceEach, InSession
  <2> QED BY <1>1, <1>2, <2>1, <2>2, <2>3 DEF PoolInv, OnePlaceEach
<1>7. OpenTransactionsOwned'
  <2> SUFFICES ASSUME NEW x \in openSockets, x # s, serverTxn'[x]
               PROVE  \E u \in Threads : step'[u] = "transaction" /\ sock'[u] = x
      BY <1>2 DEF OpenTransactionsOwned
  <2>1. serverTxn[x]
      BY <1>1, <1>3 DEF PoolInv, TypeOK
  <2>2. PICK u \in Threads : step[u] = "transaction" /\ sock[u] = x
      BY <2>1 DEF PoolInv, OpenTransactionsOwned
  <2> QED BY <1>2, <2>2 DEF PoolInv, TypeOK
<1>8. OnlyWhenReady' /\ FreshUnused'
    BY <1>1, <1>2 DEF OnlyWhenReady, FreshUnused
<1> QED BY <1>5, <1>6, <1>7, <1>8 DEF PoolInv

LEMMA RunKeeps ==
    ASSUME PoolInv, NEW t \in Threads,
           \/ Query(t) \/ BeginTransaction(t) \/ Commit(t) \/ Rollback(t)
           \/ DestroyTransaction(t)
    PROVE  PoolInv'
<1> DEFINE Others == \A u \in Threads : u # t => step'[u] = step[u]
<1>1. CASE Query(t)
  <2>1. InSession(t) /\ step' = step /\ step' \in [Threads -> Steps] /\ InSession(t)'
      BY <1>1 DEF Query, InSession, PoolInv, TypeOK
  <2> QED BY <1>1, <2>1, AnsweredKeeps, BrokenKeeps DEF Query
<1>2. CASE BeginTransaction(t)
  <2>1. InSession(t) /\ step' \in [Threads -> Steps] /\ InSession(t)' /\ Others
      BY <1>2 DEF BeginTransaction, InSession, PoolInv, TypeOK, Steps
  <2>2. CASE Answered(t, "BEGIN") /\ step' = [step EXCEPT ![t] = "transaction"]
    <3>1. step'[t] = "transaction"
        BY <2>2 DEF PoolInv, TypeOK
    <3> QED BY <2>1, <2>2, <3>1, AnsweredKeeps
  <2>3. CASE Broken(t, "BEGIN")
      BY <2>1, <2>3, BrokenKeeps
  <2> QED BY <1>2, <2>2, <2>3 DEF BeginTransaction
<1>3. CASE Commit(t)
  <2>1. InSession(t) /\ step' \in [Threads -> Steps] /\ InSession(t)' /\ Others
      BY <1>3 DEF Commit, Finish, InSession, PoolInv, TypeOK, Steps
  <2> QED BY <1>3, <2>1, AnsweredKeeps, BrokenKeeps DEF Commit, Finish
<1>4. CASE Rollback(t)
  <2>1. InSession(t) /\ step' \in [Threads -> Steps] /\ InSession(t)' /\ Others
      BY <1>4 DEF Rollback, Finish, InSession, PoolInv, TypeOK, Steps
  <2> QED BY <1>4, <2>1, AnsweredKeeps, BrokenKeeps DEF Rollback, Finish
<1>5. CASE DestroyTransaction(t)
  <2>1. InSession(t) /\ step' \in [Threads -> Steps] /\ InSession(t)' /\ Others
      BY <1>5 DEF DestroyTransaction, InSession, PoolInv, TypeOK, Steps
  <2>2. CASE sock[t] = Dead /\ UNCHANGED <<pool, sock, serverTxn>>
    <3> USE SocketsAssumption
    <3>1. TypeOK'
        BY <2>1, <2>2 DEF PoolInv, TypeOK, pool
    <3>2. OnePlaceEach'
        BY <2>1, <2>2 DEF PoolInv, OnePlaceEach, Queued, InSession, pool
    <3>3. OpenTransactionsOwned'
        BY <2>1, <2>2 DEF PoolInv, TypeOK, OpenTransactionsOwned, pool
    <3>4. OnlyWhenReady' /\ FreshUnused'
        BY <2>1, <2>2 DEF PoolInv, OnlyWhenReady, FreshUnused, InSession, pool
    <3> QED BY <3>1, <3>2, <3>3, <3>4 DEF PoolInv
  <2> QED BY <1>5, <2>1, <2>2, AnsweredKeeps, BrokenKeeps DEF DestroyTransaction
<1> QED BY <1>1, <1>2, <1>3, <1>4, <1>5

LEMMA AbandonKeeps ==
    ASSUME PoolInv, NEW s \in Sockets, ServerAbandons(s)
    PROVE  PoolInv'
<1>1. TypeOK'
    BY DEF ServerAbandons, PoolInv, TypeOK, pool
<1>2. OnePlaceEach'
    BY DEF ServerAbandons, PoolInv, OnePlaceEach, Queued, InSession, pool
<1>3. OpenTransactionsOwned'
    BY DEF ServerAbandons, PoolInv, TypeOK, OpenTransactionsOwned, pool
<1>4. OnlyWhenReady' /\ FreshUnused'
    BY DEF ServerAbandons, PoolInv, TypeOK, OnlyWhenReady, FreshUnused, pool
<1> QED BY <1>1, <1>2, <1>3, <1>4 DEF PoolInv

-----------------------------------------------------------------------------
LEMMA NextKeeps == PoolInv /\ [Next]_vars => PoolInv'
<1> SUFFICES ASSUME PoolInv, [Next]_vars PROVE PoolInv'
    OBVIOUS
<1>1. CASE UNCHANGED vars
    BY <1>1 DEF vars, pool, PoolInv, TypeOK, OnePlaceEach, Queued, InSession,
       OpenTransactionsOwned, OnlyWhenReady, FreshUnused
<1>2. CASE Next
    BY <1>2, ConnectKeeps, ClientKeeps, GettingKeeps, DestroySessionKeeps, NotifyKeeps,
       RunKeeps, AbandonKeeps DEF Next
<1> QED BY <1>1, <1>2

LEMMA PoolInvariant == Spec => []PoolInv
    BY InitPool, NextKeeps, PTL DEF Spec

(* Type correctness of the pool, its sessions and the server's view of them. *)
THEOREM PoolTypeCorrect == Spec => []TypeOK
    BY PoolInvariant, PTL DEF PoolInv

(* A connection of the pool is open and in exactly one place, the queue or *)
(* one session, whatever number of threads share the client: the contract  *)
(* of getConnection, releaseConnection and declareConnectionDead.          *)
THEOREM ConnectionsInOnePlace == Spec => []OnePlaceEach
    BY PoolInvariant, PTL DEF PoolInv

(* No connection goes back to the pool with a transaction open on it: only *)
(* a TissuTransaction that can still end it has one.                       *)
THEOREM TransactionsOwned == Spec => []OpenTransactionsOwned
    BY PoolInvariant, PTL DEF PoolInv

-----------------------------------------------------------------------------
(* No wakeup is lost.  Under PoolInv the bound is inductive: a step that    *)
(* takes a thread off its way takes a connection from the queue with it,    *)
(* passes the wakeup on to a sleeper, or finds nobody asleep or nothing in  *)
(* the queue; and a connection comes back with a thread that will notify.   *)

LEMMA FiniteCounts ==
    ASSUME NEW S, NEW T, NEW x, IsFiniteSet(S), IsFiniteSet(T)
    PROVE  /\ Cardinality(S) \in Nat /\ Cardinality(T) \in Nat
           /\ S \subseteq T => Cardinality(S) <= Cardinality(T)
           /\ S \ {x} \subseteq T => Cardinality(S) <= Cardinality(T) + 1
           /\ x \notin S /\ S \cup {x} \subseteq T => Cardinality(S) + 1 <= Cardinality(T)
<1>1. Cardinality(S) \in Nat /\ Cardinality(T) \in Nat
    BY FS_CardinalityType
<1>2. S \subseteq T => Cardinality(S) <= Cardinality(T)
    BY FS_Subset
<1>3. ASSUME S \ {x} \subseteq T PROVE Cardinality(S) <= Cardinality(T) + 1
  <2>1. /\ IsFiniteSet(S \ {x})
        /\ Cardinality(S \ {x}) = IF x \in S THEN Cardinality(S) - 1 ELSE Cardinality(S)
      BY FS_RemoveElement
  <2>2. Cardinality(S \ {x}) <= Cardinality(T)
      BY <1>3, FS_Subset
  <2> QED BY <1>1, <2>1, <2>2
<1>4. ASSUME x \notin S, S \cup {x} \subseteq T PROVE Cardinality(S) + 1 <= Cardinality(T)
  <2>1. Cardinality(S \cup {x}) = Cardinality(S) + 1
      BY <1>4, FS_AddElement
  <2>2. Cardinality(S \cup {x}) <= Cardinality(T)
      BY <1>4, FS_Subset
  <2> QED BY <2>1, <2>2
<1> QED BY <1>1, <1>2, <1>3, <1>4

LEMMA OnTheirWayFinite == IsFiniteSet(OnTheirWay) /\ Cardinality(OnTheirWay) \in Nat
    BY ThreadsAssumption, FS_Subset, FS_CardinalityType DEF OnTheirWay

LEMMA OnTheirWayFiniteNext == IsFiniteSet(OnTheirWay') /\ Cardinality(OnTheirWay') \in Nat
    BY ThreadsAssumption, FS_Subset, FS_CardinalityType DEF OnTheirWay

LEMMA GettingLosesNone ==
    ASSUME PoolInv, NoLostWakeup, NEW t \in Threads,
           GetSession(t) \/ Wake(t) \/ WakeSpuriously(t) \/ TimeOut(t)
    PROVE  NoLostWakeup'
<1>1. step \in [Threads -> Steps] /\ available \in Seq(Sockets)
    BY DEF PoolInv, TypeOK
<1>2. CASE Take(t)
  <2>1. available' = Tail(available) /\ step' = [step EXCEPT ![t] = "session"]
        /\ available # <<>>
      BY <1>2 DEF Take
  <2>2. Len(available) = Len(available') + 1 /\ Len(available') \in Nat
      BY <1>1, <2>1
  <2>3. OnTheirWay \ {t} \subseteq OnTheirWay'
      BY <1>1, <2>1 DEF OnTheirWay
  <2>4. Cardinality(OnTheirWay) <= Cardinality(OnTheirWay') + 1
      BY <2>3, FiniteCounts, OnTheirWayFinite, OnTheirWayFiniteNext
  <2>5. (\E u \in Threads : step'[u] = "asleep") => \E u \in Threads : step[u] = "asleep"
      BY <1>1, <2>1
  <2> QED BY <2>2, <2>4, <2>5, OnTheirWayFinite, OnTheirWayFiniteNext DEF NoLostWakeup
<1>3. CASE available = <<>> /\ UNCHANGED available
  <2>1. Len(available') = 0
      BY <1>3
  <2> QED BY <2>1, OnTheirWayFiniteNext DEF NoLostWakeup
<1>4. CASE WakeSpuriously(t)
  <2>1. step[t] = "asleep" /\ step' = [step EXCEPT ![t] = "woken"] /\ available' = available
      BY <1>4 DEF WakeSpuriously, Becomes, pool
  <2>2. OnTheirWay \subseteq OnTheirWay'
      BY <1>1, <2>1 DEF OnTheirWay
  <2>3. Cardinality(OnTheirWay) <= Cardinality(OnTheirWay')
      BY <2>2, FiniteCounts, OnTheirWayFinite, OnTheirWayFiniteNext
  <2>4. Len(available) <= Cardinality(OnTheirWay) /\ Len(available) \in Nat
      BY <1>1, <2>1 DEF NoLostWakeup
  <2> QED BY <2>1, <2>3, <2>4, OnTheirWayFinite, OnTheirWayFiniteNext DEF NoLostWakeup
<1> QED BY <1>2, <1>3, <1>4 DEF GetSession, Wake, TimeOut, Becomes, pool

LEMMA DestroySessionLosesNone ==
    ASSUME PoolInv, NoLostWakeup, NEW t \in Threads, DestroySession(t)
    PROVE  NoLostWakeup'
<1>1. step \in [Threads -> Steps] /\ available \in Seq(Sockets) /\ step[t] = "session"
      /\ sock[t] \in Sockets \cup {Dead}
    BY DEF PoolInv, TypeOK, DestroySession
<1>2. (\E u \in Threads : step'[u] = "asleep") => \E u \in Threads : step[u] = "asleep"
    BY <1>1 DEF DestroySession
<1>3. CASE sock[t] = Dead
  <2>1. step' = [step EXCEPT ![t] = "idle"] /\ available' = available
      BY <1>3 DEF DestroySession
  <2>2. OnTheirWay' = OnTheirWay
      BY <1>1, <2>1 DEF OnTheirWay
  <2> QED BY <1>2, <2>1, <2>2 DEF NoLostWakeup
<1>4. CASE sock[t] # Dead
  <2>1. step' = [step EXCEPT ![t] = "notify"] /\ available' = Append(available, sock[t])
      BY <1>4 DEF DestroySession
  <2>2. Len(available') = Len(available) + 1 /\ Len(available) \in Nat
      BY <1>1, <1>4, <2>1
  <2>3. t \notin OnTheirWay /\ OnTheirWay \cup {t} \subseteq OnTheirWay'
      BY <1>1, <2>1 DEF OnTheirWay
  <2>4. Cardinality(OnTheirWay) + 1 <= Cardinality(OnTheirWay')
      BY <2>3, FiniteCounts, OnTheirWayFinite, OnTheirWayFiniteNext
  <2> QED BY <1>2, <2>2, <2>4, OnTheirWayFinite, OnTheirWayFiniteNext DEF NoLostWakeup
<1> QED BY <1>3, <1>4

LEMMA NotifyLosesNone ==
    ASSUME PoolInv, NoLostWakeup, NEW t \in Threads, Notify(t)
    PROVE  NoLostWakeup'
<1>1. step \in [Threads -> Steps] /\ available \in Seq(Sockets) /\ step[t] = "notify"
      /\ available' = available
    BY DEF PoolInv, TypeOK, Notify, pool
<1>2. CASE \E u \in Threads :
            step[u] = "asleep" /\ step' = [step EXCEPT ![t] = "idle", ![u] = "woken"]
  <2>1. PICK u \in Threads :
            step[u] = "asleep" /\ step' = [step EXCEPT ![t] = "idle", ![u] = "woken"]
      BY <1>2
  <2> DEFINE Others == OnTheirWay \ {t}
  <2>2. IsFiniteSet(Others) /\ Cardinality(OnTheirWay) <= Cardinality(Others) + 1
      BY OnTheirWayFinite, FS_RemoveElement, FiniteCounts
  <2>3. u \notin Others /\ Others \cup {u} \subseteq OnTheirWay'
      BY <1>1, <2>1 DEF OnTheirWay
  <2>4. Cardinality(Others) + 1 <= Cardinality(OnTheirWay')
      BY <2>2, <2>3, FiniteCounts, OnTheirWayFiniteNext
  <2>5. Len(available) <= Cardinality(OnTheirWay) /\ Len(available) \in Nat
      BY <1>1, <2>1 DEF NoLostWakeup
  <2>6. Cardinality(Others) \in Nat
      BY <2>2, FS_CardinalityType
  <2> HIDE DEF Others
  <2> QED BY <1>1, <2>2, <2>4, <2>5, <2>6, OnTheirWayFinite, OnTheirWayFiniteNext
         DEF NoLostWakeup
<1>3. CASE (\A u \in Threads : step[u] # "asleep") /\ step' = [step EXCEPT ![t] = "idle"]
  <2>1. \A u \in Threads : step'[u] # "asleep"
      BY <1>1, <1>3
  <2> QED BY <2>1 DEF NoLostWakeup
<1> QED BY <1>2, <1>3 DEF Notify

(* Nobody sleeps or wakes in a query: a session stays a session. *)
LEMMA RunLosesNone ==
    ASSUME PoolInv, NoLostWakeup, NEW t \in Threads,
           \/ Query(t) \/ BeginTransaction(t) \/ Commit(t) \/ Rollback(t)
           \/ DestroyTransaction(t)
    PROVE  NoLostWakeup'
<1>1. step \in [Threads -> Steps]
    BY DEF PoolInv, TypeOK
<1>2. \E here \in {"session", "transaction"}, there \in {"session", "transaction"} :
        step[t] = here /\ step' = [step EXCEPT ![t] = there]
    BY <1>1 DEF Query, InSession, BeginTransaction, Commit, Rollback, Finish, DestroyTransaction
<1>3. available' = available
    BY DEF Query, BeginTransaction, Commit, Rollback, Finish, DestroyTransaction,
       Answered, Broken, pool
<1>4. OnTheirWay' = OnTheirWay
    BY <1>1, <1>2 DEF OnTheirWay
<1>5. (\E u \in Threads : step'[u] = "asleep") => \E u \in Threads : step[u] = "asleep"
    BY <1>1, <1>2
<1> QED BY <1>3, <1>4, <1>5 DEF NoLostWakeup

(* The pool is made and destroyed while no thread sleeps. *)
LEMMA ClientLosesNone ==
    ASSUME PoolInv, NoLostWakeup,
           \/ \E s \in Sockets : Connect(s) \/ ServerAbandons(s)
           \/ Connected \/ ConnectFails \/ DestroyClient
    PROVE  NoLostWakeup'
<1>1. CASE \E s \in Sockets : ServerAbandons(s)
    BY <1>1 DEF ServerAbandons, NoLostWakeup, OnTheirWay, pool
<1>2. CASE (\E s \in Sockets : Connect(s)) \/ Connected \/ ConnectFails \/ DestroyClient
  <2>1. step' = step /\ \A t \in Threads : step[t] = "idle"
      BY <1>2 DEF PoolInv, OnlyWhenReady, Connect, Connected, ConnectFails, DestroyClient
  <2> QED BY <2>1 DEF NoLostWakeup
<1> QED BY <1>1, <1>2

(* As long as a thread sleeps in getConnection, every connection in the    *)
(* queue has a thread on its way to it, woken or about to notify one: no   *)
(* thread sleeps beside a free connection for want of a notify_one.        *)
THEOREM NoWakeupIsLost == Spec => []NoLostWakeup
<1>1. Init => NoLostWakeup
    BY DEF Init, NoLostWakeup
<1>2. PoolInv /\ NoLostWakeup /\ [Next]_vars => NoLostWakeup'
  <2>1. ASSUME PoolInv, NoLostWakeup, UNCHANGED vars PROVE NoLostWakeup'
      BY <2>1 DEF vars, pool, NoLostWakeup, OnTheirWay
  <2>2. ASSUME PoolInv, NoLostWakeup, Next PROVE NoLostWakeup'
      BY <2>2, GettingLosesNone, DestroySessionLosesNone, NotifyLosesNone,
         RunLosesNone, ClientLosesNone DEF Next
  <2> QED BY <2>1, <2>2
<1> QED BY <1>1, <1>2, PoolInvariant, PTL DEF Spec
=============================================================================
