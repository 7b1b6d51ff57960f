------------------------------ MODULE WebProofs ------------------------------
(*****************************************************************************)
(* The web platform for every number of threads, processes, vocabularies and *)
(* training threads: the services keep hold of their processes, the          *)
(* administration's shared state agrees, and a request has one answer.  Each *)
(* part is proved by itself; in a run of MCWeb it starts in one of its initial*)
(* states and makes its own steps, so what is proved of it holds there.      *)
(*****************************************************************************)
EXTENDS MCWeb, Sequences, FiniteSetTheorems, TLAPS

-----------------------------------------------------------------------------
(*****************************************************************************)
(* The services.  With one client at a time the global of a service always   *)
(* holds the process that runs, but for the moment before it is assigned;    *)
(* what a request has checked stays true until it acts on it.                *)
(*****************************************************************************)
Services == {"db", "analyzer"}
Processes == [service : Services, alive : BOOLEAN]
ServiceSteps == {"idle", "clear_log", "popen", "assign", "terminate", "wait", "waiting",
                 "except", "clear"}
ServiceRequests == [pc : ServiceSteps, service : Services \cup {None},
                    p : SP!Children \cup {None}]

NoneIsNew ==
  /\ IsFiniteSet(Threads)
  /\ None \notin SP!Children
  /\ \A r \in Processes : r # None

(* A global and a request know only processes that were started. *)
ServiceTypes ==
  /\ handle \in [Services -> SP!Children \cup {None}]
  /\ child \in [SP!Children -> {None} \cup Processes]
  /\ log \in SP!Children \cup {None}
  /\ request \in [Threads -> ServiceRequests]
  /\ \A s \in Services : handle[s] # None => child[handle[s]] # None
  /\ \A t \in Threads : request[t].p # None => child[request[t].p] # None

(* With one client one request is under way at most. *)
OneRequest ==
  \A t, u \in Threads : request[t].pc # "idle" /\ request[u].pc # "idle" => t = u

(* The global of a service holds a process of that service. *)
HandleOwn ==
  \A s \in Services : handle[s] # None => child[handle[s]].service = s

(* What a request knows of its service when it has come to a step. *)
RequestFits(t) ==
  LET s == request[t].service
      p == request[t].p
      at_ == request[t].pc
  IN  /\ s \in Services
      /\ at_ \in {"clear_log", "popen", "assign"} => ~SP!Up(s)
      /\ at_ = "clear_log" => s = "analyzer"
      /\ at_ = "popen" /\ s = "analyzer" => log = None
      /\ at_ = "assign" => /\ p # None /\ child[p].service = s
                           /\ s = "analyzer" => log \in {None, p}
      /\ at_ \in {"terminate", "wait", "waiting"} => handle[s] # None
      /\ at_ = "waiting" => p = handle[s]
      /\ at_ = "clear" => handle[s] = None \/ ~SP!Alive(handle[s])

RequestsFit == \A t \in Threads : request[t].pc # "idle" => RequestFits(t)

NoneLost ==
  \A p \in SP!Children :
    SP!Alive(p) => SP!BeingAssigned(p) \/ handle[child[p].service] = p

LogOwn == log # None /\ SP!Up("analyzer") => log = handle["analyzer"]

ServiceInv ==
  /\ ServiceTypes
  /\ clients = 1 => OneRequest /\ HandleOwn /\ RequestsFit /\ NoneLost /\ LogOwn

(* The record of a request, field by field. *)
LEMMA RequestRecord ==
    ASSUME NEW r \in ServiceRequests
    PROVE  /\ r.pc \in ServiceSteps /\ r.service \in Services \cup {None}
           /\ r.p \in SP!Children \cup {None}
           /\ r = [pc |-> r.pc, service |-> r.service, p |-> r.p]
BY DEF ServiceRequests

LEMMA RequestMade ==
    ASSUME NEW at_ \in ServiceSteps, NEW s \in Services \cup {None}, NEW q \in SP!Children \cup {None}
    PROVE  /\ [pc |-> at_, service |-> s, p |-> q] \in ServiceRequests
           /\ [pc |-> at_, service |-> s, p |-> q].pc = at_
           /\ [pc |-> at_, service |-> s, p |-> q].service = s
           /\ [pc |-> at_, service |-> s, p |-> q].p = q
BY DEF ServiceRequests

LEMMA IdleRequest == SP!Idle \in ServiceRequests /\ SP!Idle.pc = "idle" /\ SP!Idle.p = None
BY DEF SP!Idle, ServiceRequests, ServiceSteps

LEMMA RequestGoes ==
    ASSUME NEW r \in ServiceRequests, NEW at_ \in ServiceSteps
    PROVE  /\ [r EXCEPT !.pc = at_] \in ServiceRequests
           /\ [r EXCEPT !.pc = at_].pc = at_
           /\ [r EXCEPT !.pc = at_].service = r.service /\ [r EXCEPT !.pc = at_].p = r.p
<1>1. [r EXCEPT !.pc = at_] = [pc |-> at_, service |-> r.service, p |-> r.p]
  BY RequestRecord
<1> QED  BY <1>1, RequestRecord, RequestMade

LEMMA RequestTakes ==
    ASSUME NEW r \in ServiceRequests, NEW at_ \in ServiceSteps, NEW q
    PROVE  /\ [[r EXCEPT !.pc = at_] EXCEPT !.p = q] = [pc |-> at_, service |-> r.service, p |-> q]
           /\ [[r EXCEPT !.p = q] EXCEPT !.pc = at_] = [pc |-> at_, service |-> r.service, p |-> q]
<1>1. [r EXCEPT !.pc = at_] = [pc |-> at_, service |-> r.service, p |-> r.p]
  BY RequestRecord
<1>2. [r EXCEPT !.p = q] = [pc |-> r.pc, service |-> r.service, p |-> q]
  BY RequestRecord
<1>3. [[pc |-> at_, service |-> r.service, p |-> r.p] EXCEPT !.p = q]
        = [pc |-> at_, service |-> r.service, p |-> q]
  OBVIOUS
<1>4. [[pc |-> r.pc, service |-> r.service, p |-> q] EXCEPT !.pc = at_]
        = [pc |-> at_, service |-> r.service, p |-> q]
  OBVIOUS
<1> QED  BY <1>1, <1>2, <1>3, <1>4

(* A process that ends keeps its service. *)
LEMMA ProcessEnds ==
    ASSUME NoneIsNew, child \in [SP!Children -> {None} \cup Processes], NEW p \in SP!Children,
           child[p] # None, child' = [child EXCEPT ![p].alive = FALSE]
    PROVE  /\ child' \in [SP!Children -> {None} \cup Processes]
           /\ \A q \in SP!Children :
                /\ child'[q] = None <=> child[q] = None
                /\ child[q] # None => child'[q].service = child[q].service
                /\ SP!Alive(q)' => SP!Alive(q) /\ q # p
<1> DEFINE r == [child[p] EXCEPT !.alive = FALSE]
<1>1. child[p] \in Processes  OBVIOUS
<1>2. r \in Processes /\ r.service = child[p].service /\ r.alive = FALSE
  BY <1>1 DEF Processes
<1>3. child' = [child EXCEPT ![p] = r]  OBVIOUS
<1> HIDE DEF r
<1>4. /\ child'[p] = r /\ child'[p] # None
      /\ \A q \in SP!Children : q # p => child'[q] = child[q]
  BY <1>2, <1>3 DEF NoneIsNew
<1>5. child' \in [SP!Children -> {None} \cup Processes]  BY <1>2, <1>3
<1> QED  BY <1>2, <1>4, <1>5 DEF SP!Alive

(* A request moves on: its record, and what has to be shown with one client. *)
LEMMA RequestMoves ==
    ASSUME ServiceTypes, NEW t \in Threads, NEW r \in ServiceRequests,
           request' = [request EXCEPT ![t] = r]
    PROVE  /\ request' \in [Threads -> ServiceRequests] /\ request'[t] = r
           /\ \A u \in Threads : u # t => request'[u] = request[u]
           /\ OneRequest /\ request[t].pc # "idle"
                => \A u \in Threads : u # t => request[u].pc = "idle" /\ request'[u].pc = "idle"
           /\ OneRequest /\ request[t].pc # "idle" => OneRequest'
           /\ OneRequest /\ request[t].pc # "idle" /\ (r.pc # "idle" => RequestFits(t)')
                => RequestsFit'
<1>1. /\ request' \in [Threads -> ServiceRequests] /\ request'[t] = r
      /\ \A u \in Threads : u # t => request'[u] = request[u]
  BY DEF ServiceTypes
<1>2. OneRequest /\ request[t].pc # "idle"
                => \A u \in Threads : u # t => request[u].pc = "idle" /\ request'[u].pc = "idle"
  BY <1>1 DEF OneRequest
<1> QED  BY <1>1, <1>2 DEF OneRequest, RequestsFit

(* Where the processes and the globals stay, their types do, if those of the request do. *)
LEMMA TypesMove ==
    ASSUME ServiceTypes, UNCHANGED <<handle, child>>, log' \in SP!Children \cup {None},
           NEW t \in Threads, NEW r \in ServiceRequests, request' = [request EXCEPT ![t] = r],
           r.p # None => child[r.p] # None
    PROVE  ServiceTypes'
<1>1. /\ request' \in [Threads -> ServiceRequests] /\ request'[t] = r
      /\ \A u \in Threads : u # t => request'[u] = request[u]
  BY RequestMoves
<1>2. \A u \in Threads : request'[u].p # None => child[request'[u].p] # None
  BY <1>1 DEF ServiceTypes
<1> QED  BY <1>1, <1>2 DEF ServiceTypes

LEMMA ServicesInit == NoneIsNew /\ SP!Init => ServiceInv
<1> SUFFICES ASSUME NoneIsNew, SP!Init PROVE ServiceInv  OBVIOUS
<1>1. \A t \in Threads : request[t] = SP!Idle  BY DEF SP!Init
<1>2. \A s \in Services : handle[s] = None  BY DEF SP!Init, Services
<1>3. ServiceTypes
  <2>1. request \in [Threads -> ServiceRequests]  BY IdleRequest DEF SP!Init
  <2>2. handle \in [Services -> SP!Children \cup {None}]  BY DEF SP!Init, Services
  <2>3. child \in [SP!Children -> {None} \cup Processes]  BY DEF SP!Init
  <2> QED  BY <1>1, <1>2, <2>1, <2>2, <2>3, IdleRequest DEF ServiceTypes, SP!Init
<1> QED  BY <1>1, <1>2, <1>3, IdleRequest
     DEF SP!Init, ServiceInv, OneRequest, HandleOwn, RequestsFit, NoneLost, LogOwn, SP!Alive

(* A request is received when no other is under way. *)
LEMMA NoRequestYet ==
    ASSUME NoneIsNew, clients = 1, SP!Cardinality(SP!Busy) < clients
    PROVE  \A t \in Threads : request[t].pc = "idle"
<1>1. \A S : SP!Cardinality(S) = Cardinality(S)
  BY DEF SP!Cardinality, Cardinality
<1>2. IsFiniteSet(SP!Busy)
  BY FS_Subset DEF NoneIsNew, SP!Busy
<1>3. SP!Busy = {}  BY <1>1, <1>2, FS_EmptySet, FS_CardinalityType
<1> QED  BY <1>3 DEF SP!Busy

LEMMA ReceivedKeeps ==
    ASSUME NoneIsNew, ServiceInv, NEW t \in Threads, NEW s \in Services, NEW at_ \in ServiceSteps,
           SP!Receive(t, s, at_), at_ # "idle",
           \/ /\ at_ \in {"popen", "clear_log"} /\ ~SP!Up(s)
              /\ at_ = "clear_log" <=> s = "analyzer"
           \/ at_ = "terminate" /\ SP!Up(s)
    PROVE  ServiceInv'
<1> DEFINE r == [pc |-> at_, service |-> s, p |-> None]
<1>1. /\ request' = [request EXCEPT ![t] = r]
      /\ UNCHANGED <<handle, child, log, clients>>
  BY DEF SP!Receive
<1>2. r \in ServiceRequests /\ r.pc = at_ /\ r.service = s /\ r.p = None  BY RequestMade
<1> HIDE DEF r
<1>3. ServiceTypes'  BY <1>1, <1>2, TypesMove DEF ServiceInv, ServiceTypes
<1>4. ASSUME clients = 1
      PROVE  OneRequest' /\ HandleOwn' /\ RequestsFit' /\ NoneLost' /\ LogOwn'
  <2>1. \A u \in Threads : request[u].pc = "idle"  BY <1>4, NoRequestYet DEF SP!Receive
  <2>2. /\ request'[t] = r
        /\ \A u \in Threads : request'[u].pc # "idle" => u = t
    BY <1>1, <1>2, <2>1, RequestMoves DEF ServiceInv
  <2>3. OneRequest'  BY <2>2 DEF OneRequest
  <2>4. HandleOwn' /\ LogOwn'
    BY <1>1, <1>4 DEF ServiceInv, HandleOwn, LogOwn, SP!Up, SP!Alive
  <2>5. RequestFits(t)'
    BY <1>1, <1>2, <2>2 DEF RequestFits, SP!Up, SP!Alive, Services
  <2>6. RequestsFit'  BY <2>2, <2>5 DEF RequestsFit
  <2>7. NoneLost'
    BY <1>1, <1>4, <2>1 DEF ServiceInv, NoneLost, SP!Alive, SP!BeingAssigned
  <2> QED  BY <2>3, <2>4, <2>6, <2>7
<1> QED  BY <1>1, <1>3, <1>4 DEF ServiceInv

(* The steps that only move the request on, and clear the log. *)
LEMMA MovedKeeps ==
    ASSUME NoneIsNew, ServiceInv, NEW t \in Threads, NEW r \in ServiceRequests,
           request' = [request EXCEPT ![t] = r], UNCHANGED <<handle, child, clients>>,
           log' = log \/ log' = None, r.p # None => child[r.p] # None,
           request[t].pc \notin {"idle", "assign"}, r.pc # "assign",
           clients = 1 /\ r.pc # "idle" => RequestFits(t)'
    PROVE  ServiceInv'
<1>1. ServiceTypes'
  <2>1. log' \in SP!Children \cup {None}  BY DEF ServiceInv, ServiceTypes
  <2> QED  BY <2>1, TypesMove DEF ServiceInv
<1>2. ASSUME clients = 1
      PROVE  OneRequest' /\ HandleOwn' /\ RequestsFit' /\ NoneLost' /\ LogOwn'
  <2>1. /\ OneRequest' /\ RequestsFit' /\ request'[t] = r
        /\ \A u \in Threads : u # t => request[u].pc = "idle" /\ request'[u].pc = "idle"
    BY <1>2, RequestMoves DEF ServiceInv
  <2>2. HandleOwn' /\ LogOwn'
    BY <1>2 DEF ServiceInv, HandleOwn, LogOwn, SP!Up, SP!Alive
  <2>3. NoneLost'
    BY <1>2, <2>1 DEF ServiceInv, NoneLost, SP!Alive, SP!BeingAssigned
  <2> QED  BY <2>1, <2>2, <2>3
<1> QED  BY <1>1, <1>2 DEF ServiceInv

LEMMA ClearLogKeeps ==
    ASSUME NoneIsNew, ServiceInv, NEW t \in Threads, SP!At(t, "analyzer", "clear_log"),
           log' = None, SP!Goto(t, "popen"), UNCHANGED <<handle, child, clients>>
    PROVE  ServiceInv'
<1> DEFINE r == [request[t] EXCEPT !.pc = "popen"]
<1>1. /\ request[t] \in ServiceRequests
      /\ request[t].p # None => child[request[t].p] # None
      /\ request[t].pc = "clear_log" /\ request[t].service = "analyzer"
      /\ "popen" \in ServiceSteps
  BY DEF SP!At, ServiceInv, ServiceTypes, ServiceSteps
<1>2. /\ r \in ServiceRequests /\ r.pc = "popen" /\ r.service = "analyzer" /\ r.p = request[t].p
  BY <1>1, RequestGoes
<1>3. request' = [request EXCEPT ![t] = r]  BY DEF SP!Goto
<1> HIDE DEF r
<1>4. ASSUME clients = 1 PROVE RequestFits(t)'
  <2>1. request'[t] = r  BY <1>2, <1>3, RequestMoves DEF ServiceInv
  <2> QED  BY <1>1, <1>2, <1>4, <2>1 DEF ServiceInv, RequestsFit, RequestFits, SP!Up, SP!Alive
<1> QED  BY <1>1, <1>2, <1>3, <1>4, MovedKeeps

LEMMA PopenKeeps ==
    ASSUME NoneIsNew, ServiceInv, NEW t \in Threads, NEW s \in Services,
           SP!At(t, s, "popen"), SP!Popen(t, s)
    PROVE  ServiceInv'
<1>1. UNCHANGED <<handle, log, clients>> /\ request[t].pc = "popen" /\ request[t].service = s
  BY DEF SP!Popen, SP!At
<1>2. CASE SP!Reply(t) /\ UNCHANGED child
  <2>1. request' = [request EXCEPT ![t] = SP!Idle]  BY <1>2 DEF SP!Reply
  <2> QED  BY <1>1, <1>2, <2>1, IdleRequest, MovedKeeps
<1>3. ASSUME NEW p \in SP!Children, child[p] = None,
             child' = [child EXCEPT ![p] = [service |-> s, alive |-> TRUE]],
             request' = [request EXCEPT ![t].pc = "assign", ![t].p = p]
      PROVE  ServiceInv'
  <2> DEFINE r == [pc |-> "assign", service |-> s, p |-> p]
  <2>1. request[t] \in ServiceRequests  BY DEF ServiceInv, ServiceTypes
  <2>2. request' = [request EXCEPT ![t] = r]
    <3>1. [[request[t] EXCEPT !.pc = "assign"] EXCEPT !.p = p] = r
      <4>1. "assign" \in ServiceSteps  BY DEF ServiceSteps
      <4>2. [[request[t] EXCEPT !.pc = "assign"] EXCEPT !.p = p]
              = [pc |-> "assign", service |-> request[t].service, p |-> p]
        BY <2>1, <4>1, RequestTakes
      <4> QED  BY <1>1, <4>2
    <3>2. request' = [request EXCEPT ![t] = [[request[t] EXCEPT !.pc = "assign"] EXCEPT !.p = p]]
      BY <1>3 DEF ServiceInv, ServiceTypes
    <3> QED  BY <3>1, <3>2
  <2>3. "assign" \in ServiceSteps  BY DEF ServiceSteps
  <2>4. r \in ServiceRequests /\ r.pc = "assign" /\ r.service = s /\ r.p = p
    BY <2>3, RequestMade
  <2> HIDE DEF r
  <2>5. [service |-> s, alive |-> TRUE] \in Processes  BY DEF Processes
  <2>6. /\ child'[p] = [service |-> s, alive |-> TRUE] /\ child'[p] # None /\ p # None
        /\ \A q \in SP!Children : q # p => child'[q] = child[q]
        /\ child' \in [SP!Children -> {None} \cup Processes]
    BY <1>3, <2>5 DEF ServiceInv, ServiceTypes, NoneIsNew
  <2>7. /\ request' \in [Threads -> ServiceRequests] /\ request'[t] = r
        /\ \A u \in Threads : u # t => request'[u] = request[u]
    BY <2>2, <2>4, RequestMoves DEF ServiceInv
  <2>8. \A u \in Threads : request[u] \in ServiceRequests /\ request[u].p \in SP!Children \cup {None}
    BY RequestRecord DEF ServiceInv, ServiceTypes
  <2>9. \A z \in Services : handle[z] \in SP!Children \cup {None} /\ handle[z] # p
    BY <1>3, <2>6 DEF ServiceInv, ServiceTypes
  <2>10. ServiceTypes'
    <3>1. \A u \in Threads : request'[u].p # None => child'[request'[u].p] # None
      BY <2>4, <2>6, <2>7, <2>8 DEF ServiceInv, ServiceTypes
    <3>2. \A z \in Services : handle[z] # None => child'[handle[z]] # None
      BY <2>6, <2>9 DEF ServiceInv, ServiceTypes
    <3> QED  BY <1>1, <2>6, <2>7, <3>1, <3>2 DEF ServiceInv, ServiceTypes
  <2>11. ASSUME clients = 1
        PROVE  OneRequest' /\ HandleOwn' /\ RequestsFit' /\ NoneLost' /\ LogOwn'
    <3>1. \A z \in Services : SP!Up(z)' <=> SP!Up(z)
      BY <1>1, <2>6, <2>9 DEF SP!Up, SP!Alive
    <3>2. RequestFits(t)
      BY <1>1, <2>11 DEF ServiceInv, RequestsFit
    <3>3. RequestFits(t)'
      BY <1>1, <2>4, <2>6, <2>7, <3>1, <3>2 DEF RequestFits
    <3>4. /\ OneRequest' /\ RequestsFit'
          /\ \A u \in Threads : u # t => request[u].pc = "idle" /\ request'[u].pc = "idle"
      BY <1>1, <2>2, <2>4, <2>11, <3>3, RequestMoves DEF ServiceInv
    <3>5. HandleOwn'
      BY <1>1, <2>6, <2>9, <2>11 DEF ServiceInv, HandleOwn
    <3>6. LogOwn'
      BY <1>1, <2>11, <3>1 DEF ServiceInv, LogOwn, Services
    <3>7. SP!BeingAssigned(p)'  BY <2>4, <2>7 DEF SP!BeingAssigned
    <3>8. \A q \in SP!Children : ~SP!BeingAssigned(q)
      BY <1>1, <3>4 DEF SP!BeingAssigned
    <3>9. NoneLost'
      BY <1>1, <2>6, <2>11, <3>7, <3>8 DEF ServiceInv, NoneLost, SP!Alive
    <3> QED  BY <3>4, <3>5, <3>6, <3>9
  <2> QED  BY <1>1, <2>10, <2>11 DEF ServiceInv
<1> QED  BY <1>2, <1>3 DEF SP!Popen

(* A global gets another process, or none, with a request's last step. *)
LEMMA AssignKeeps ==
    ASSUME NoneIsNew, ServiceInv, NEW t \in Threads, NEW s \in Services,
           SP!Assign(t, s) \/ SP!Clear(t, s)
    PROVE  ServiceInv'
<1> DEFINE p == IF request[t].pc = "assign" THEN request[t].p ELSE None
<1>1. /\ UNCHANGED <<child, log, clients>> /\ request[t].pc \in {"assign", "clear"}
      /\ request[t].service = s /\ handle' = [handle EXCEPT ![s] = p]
      /\ request' = [request EXCEPT ![t] = SP!Idle]
  BY DEF SP!Assign, SP!Clear, SP!At, SP!Reply
<1>2. p \in SP!Children \cup {None} /\ (p # None => child[p] # None)
  BY RequestRecord DEF ServiceInv, ServiceTypes
<1>3. /\ handle' \in [Services -> SP!Children \cup {None}] /\ handle'[s] = p
      /\ \A z \in Services : z # s => handle'[z] = handle[z]
  BY <1>1, <1>2 DEF ServiceInv, ServiceTypes
<1>4. ServiceTypes'
  <2>1. /\ request' \in [Threads -> ServiceRequests] /\ request'[t] = SP!Idle
        /\ \A u \in Threads : u # t => request'[u] = request[u]
    BY <1>1, IdleRequest, RequestMoves DEF ServiceInv
  <2>2. \A u \in Threads : request'[u].p # None => child[request'[u].p] # None
    BY <2>1, IdleRequest DEF ServiceInv, ServiceTypes
  <2>3. \A z \in Services : handle'[z] # None => child[handle'[z]] # None
    BY <1>2, <1>3 DEF ServiceInv, ServiceTypes
  <2> QED  BY <1>1, <1>3, <2>1, <2>2, <2>3 DEF ServiceInv, ServiceTypes
<1>5. ASSUME clients = 1
      PROVE  OneRequest' /\ HandleOwn' /\ RequestsFit' /\ NoneLost' /\ LogOwn'
  <2>1. /\ OneRequest' /\ RequestsFit'
        /\ \A u \in Threads : u # t => request[u].pc = "idle" /\ request'[u].pc = "idle"
    BY <1>1, <1>5, IdleRequest, RequestMoves DEF ServiceInv
  <2>2. RequestFits(t)  BY <1>1, <1>5 DEF ServiceInv, RequestsFit
  <2>3. /\ p # None => child[p].service = s /\ (s = "analyzer" => log \in {None, p})
        /\ ~SP!Up(s)
    BY <1>1, <2>2 DEF RequestFits, SP!Up
  <2> HIDE DEF p
  <2>4. HandleOwn'
    BY <1>1, <1>3, <1>5, <2>3 DEF ServiceInv, HandleOwn
  <2>5. LogOwn'
    <3>1. CASE s = "analyzer"  BY <1>1, <1>3, <2>3, <3>1 DEF LogOwn, SP!Up
    <3>2. CASE s # "analyzer"
      BY <1>1, <1>3, <1>5, <3>2 DEF ServiceInv, LogOwn, SP!Up, SP!Alive, Services
    <3> QED  BY <3>1, <3>2
  <2>6. NoneLost'
    <3> SUFFICES ASSUME NEW q \in SP!Children, SP!Alive(q)
                 PROVE  handle'[child[q].service] = q
      BY <1>1 DEF NoneLost, SP!Alive
    <3>1. child[q].service \in Services
      BY DEF SP!Alive, ServiceInv, ServiceTypes, Processes
    <3>2. SP!BeingAssigned(q) \/ handle[child[q].service] = q
      BY <1>5 DEF ServiceInv, NoneLost
    <3>3. q # None  BY DEF NoneIsNew
    <3>4. SP!BeingAssigned(q) => q = p
      BY <2>1 DEF SP!BeingAssigned, p
    <3>5. handle[s] # q  BY <2>3, <3>3 DEF SP!Up
    <3> QED  BY <1>3, <2>3, <3>1, <3>2, <3>3, <3>4, <3>5
  <2> QED  BY <2>1, <2>4, <2>5, <2>6
<1> QED  BY <1>1, <1>4, <1>5 DEF ServiceInv

LEMMA TerminateKeeps ==
    ASSUME NoneIsNew, ServiceInv, NEW t \in Threads, NEW s \in Services,
           SP!Terminate(t, s) \/ SP!EndWait(t, s)
    PROVE  ServiceInv'
<1>1. /\ request[t] \in ServiceRequests
      /\ request[t].p # None => child[request[t].p] # None
      /\ request[t].pc \in {"terminate", "waiting"} /\ request[t].service = s
      /\ UNCHANGED <<handle, child, log, clients>>
  BY DEF SP!Terminate, SP!EndWait, SP!At, ServiceInv, ServiceTypes
<1>2. PICK at_ \in {"except", "wait", "clear"} :
         /\ SP!Goto(t, at_)
         /\ at_ = "wait" => handle[s] # None
         /\ at_ = "clear" => request[t].pc = "waiting" /\ ~SP!Alive(request[t].p)
  BY DEF SP!Terminate, SP!EndWait, SP!At
<1> DEFINE r == [request[t] EXCEPT !.pc = at_]
<1>3. at_ \in ServiceSteps  BY DEF ServiceSteps
<1>4. r \in ServiceRequests /\ r.pc = at_ /\ r.service = s /\ r.p = request[t].p
  BY <1>1, <1>3, RequestGoes
<1>5. request' = [request EXCEPT ![t] = r]  BY <1>2 DEF SP!Goto
<1> HIDE DEF r
<1>6. ASSUME clients = 1 PROVE RequestFits(t)'
  <2>1. request'[t] = r  BY <1>4, <1>5, RequestMoves DEF ServiceInv
  <2>2. RequestFits(t)  BY <1>1, <1>6 DEF ServiceInv, RequestsFit
  <2> QED  BY <1>1, <1>2, <1>4, <2>1, <2>2 DEF RequestFits, SP!Up, SP!Alive
<1> QED  BY <1>1, <1>4, <1>5, <1>6, MovedKeeps

LEMMA StartWaitKeeps ==
    ASSUME NoneIsNew, ServiceInv, NEW t \in Threads, NEW s \in Services, SP!StartWait(t, s)
    PROVE  ServiceInv'
<1> DEFINE at_ == IF handle[s] = None THEN "except" ELSE "waiting"
           r == [pc |-> at_, service |-> s, p |-> handle[s]]
<1>1. /\ UNCHANGED <<handle, child, log, clients>>
      /\ request[t].pc = "wait" /\ request[t].service = s
      /\ request' = [request EXCEPT ![t].p = handle[s], ![t].pc = at_]
  BY DEF SP!StartWait, SP!At
<1>2. at_ \in {"except", "waiting"} /\ (at_ = "waiting" => handle[s] # None)  OBVIOUS
<1> HIDE DEF at_
<1>3. request[t] \in ServiceRequests /\ handle[s] \in SP!Children \cup {None} /\ at_ \in ServiceSteps
      /\ (handle[s] # None => child[handle[s]] # None)
  BY <1>2 DEF ServiceInv, ServiceTypes, ServiceSteps
<1>4. request' = [request EXCEPT ![t] = r]
  <2>1. [[request[t] EXCEPT !.p = handle[s]] EXCEPT !.pc = at_] = r
    BY <1>1, <1>3, RequestTakes
  <2>2. request' = [request EXCEPT ![t] = [[request[t] EXCEPT !.p = handle[s]] EXCEPT !.pc = at_]]
    BY <1>1 DEF ServiceInv, ServiceTypes
  <2> QED  BY <2>1, <2>2
<1>5. r \in ServiceRequests /\ r.pc = at_ /\ r.service = s /\ r.p = handle[s]
  BY <1>3, RequestMade
<1> HIDE DEF r
<1>6. request'[t] = r  BY <1>4, <1>5, RequestMoves DEF ServiceInv
<1>7. RequestFits(t)'
  BY <1>1, <1>2, <1>5, <1>6 DEF RequestFits, SP!Up, SP!Alive
<1> QED  BY <1>1, <1>2, <1>3, <1>4, <1>5, <1>7, MovedKeeps

(* What is known of processes and globals stays when a process ends. *)
LEMMA ProcessEndsKeeps ==
    ASSUME NoneIsNew, ServiceInv, clients = 1, NEW p \in SP!Children, child[p] # None,
           child' = [child EXCEPT ![p].alive = FALSE], UNCHANGED <<handle, log>>,
           \A q \in SP!Children : SP!BeingAssigned(q) => SP!BeingAssigned(q)'
    PROVE  HandleOwn' /\ NoneLost' /\ LogOwn' /\ \A z \in Services : SP!Up(z)' => SP!Up(z)
<1>1. /\ \A q \in SP!Children :
            /\ child'[q] = None <=> child[q] = None
            /\ child[q] # None => child'[q].service = child[q].service
            /\ SP!Alive(q)' => SP!Alive(q)
  BY ProcessEnds DEF ServiceInv, ServiceTypes
<1>2. \A z \in Services : handle[z] # None => handle[z] \in SP!Children /\ child[handle[z]] # None
  BY DEF ServiceInv, ServiceTypes
<1>3. HandleOwn'  BY <1>1, <1>2 DEF ServiceInv, HandleOwn
<1>4. NoneLost'  BY <1>1 DEF ServiceInv, NoneLost, SP!Alive
<1>5. \A z \in Services : SP!Up(z)' => SP!Up(z)  BY <1>1, <1>2 DEF SP!Up
<1>6. LogOwn'  BY <1>5 DEF ServiceInv, LogOwn, Services
<1> QED  BY <1>3, <1>4, <1>5, <1>6

LEMMA KillKeeps ==
    ASSUME NoneIsNew, ServiceInv, NEW t \in Threads, NEW s \in Services, SP!Kill(t, s)
    PROVE  ServiceInv'
<1> DEFINE r == [request[t] EXCEPT !.pc = "clear"]
<1>1. /\ request[t] \in ServiceRequests
      /\ request[t].p # None => child[request[t].p] # None
      /\ request[t].pc = "except" /\ request[t].service = s /\ "clear" \in ServiceSteps
      /\ handle[s] \in SP!Children \cup {None}
      /\ UNCHANGED <<handle, log, clients>> /\ request' = [request EXCEPT ![t] = r]
      /\ child' = IF handle[s] = None THEN child ELSE [child EXCEPT ![handle[s]].alive = FALSE]
  BY DEF SP!Kill, SP!At, SP!Goto, ServiceInv, ServiceTypes, ServiceSteps
<1>2. r \in ServiceRequests /\ r.pc = "clear" /\ r.service = s /\ r.p = request[t].p
  BY <1>1, RequestGoes
<1> HIDE DEF r
<1>3. request'[t] = r /\ request' \in [Threads -> ServiceRequests]
      /\ \A u \in Threads : u # t => request'[u] = request[u]
  BY <1>1, <1>2, RequestMoves DEF ServiceInv
<1>4. CASE handle[s] = None
  <2>1. RequestFits(t)'  BY <1>1, <1>2, <1>3, <1>4 DEF RequestFits
  <2> QED  BY <1>1, <1>2, <1>4, <2>1, MovedKeeps
<1>5. CASE handle[s] # None
  <2>1. handle[s] \in SP!Children /\ child[handle[s]] # None
        /\ child' = [child EXCEPT ![handle[s]].alive = FALSE]
    BY <1>1, <1>5 DEF ServiceInv, ServiceTypes
  <2>2. /\ child' \in [SP!Children -> {None} \cup Processes]
        /\ \A q \in SP!Children : /\ child'[q] = None <=> child[q] = None
                                  /\ SP!Alive(q)' => q # handle[s]
    BY <2>1, ProcessEnds DEF ServiceInv, ServiceTypes
  <2>3. ServiceTypes'
    <3>1. \A u \in Threads : request'[u].p # None => child'[request'[u].p] # None
      BY <1>2, <1>3, <2>2, RequestRecord DEF ServiceInv, ServiceTypes
    <3>2. \A z \in Services : handle[z] # None => child'[handle[z]] # None
      BY <2>2 DEF ServiceInv, ServiceTypes
    <3> QED  BY <1>1, <1>3, <2>2, <3>1, <3>2 DEF ServiceInv, ServiceTypes
  <2>4. ASSUME clients = 1
        PROVE  OneRequest' /\ HandleOwn' /\ RequestsFit' /\ NoneLost' /\ LogOwn'
    <3>1. RequestFits(t)'  BY <1>1, <1>2, <1>3, <2>1, <2>2 DEF RequestFits
    <3>2. OneRequest' /\ RequestsFit'
      BY <1>1, <1>2, <2>4, <3>1, RequestMoves DEF ServiceInv
    <3>3. \A q \in SP!Children : SP!BeingAssigned(q) => SP!BeingAssigned(q)'
      BY <1>1, <1>3 DEF SP!BeingAssigned
    <3> QED  BY <1>1, <2>1, <2>4, <3>2, <3>3, ProcessEndsKeeps
  <2> QED  BY <1>1, <2>3, <2>4 DEF ServiceInv
<1> QED  BY <1>4, <1>5

LEMMA ExitKeeps ==
    ASSUME NoneIsNew, ServiceInv, NEW p \in SP!Children, SP!Exit(p)
    PROVE  ServiceInv'
<1>1. /\ UNCHANGED <<handle, log, request, clients>> /\ child[p] # None
      /\ child' = [child EXCEPT ![p].alive = FALSE]
  BY DEF SP!Exit, SP!Alive
<1>2. /\ child' \in [SP!Children -> {None} \cup Processes]
      /\ \A q \in SP!Children :
            /\ child'[q] = None <=> child[q] = None
            /\ child[q] # None => child'[q].service = child[q].service
            /\ SP!Alive(q)' => SP!Alive(q)
  BY <1>1, ProcessEnds DEF ServiceInv, ServiceTypes
<1>3. /\ \A u \in Threads : request[u].p # None => request[u].p \in SP!Children
                                                   /\ child[request[u].p] # None
      /\ \A z \in Services : handle[z] # None => handle[z] \in SP!Children /\ child[handle[z]] # None
  BY RequestRecord DEF ServiceInv, ServiceTypes
<1>4. ServiceTypes'
  BY <1>1, <1>2, <1>3 DEF ServiceInv, ServiceTypes
<1>5. ASSUME clients = 1
      PROVE  OneRequest' /\ HandleOwn' /\ RequestsFit' /\ NoneLost' /\ LogOwn'
  <2>1. \A q \in SP!Children : SP!BeingAssigned(q) => SP!BeingAssigned(q)'
    BY <1>1 DEF SP!BeingAssigned
  <2>2. HandleOwn' /\ NoneLost' /\ LogOwn' /\ \A z \in Services : SP!Up(z)' => SP!Up(z)
    BY <1>1, <1>5, <2>1, ProcessEndsKeeps
  <2>3. OneRequest'  BY <1>1, <1>5 DEF ServiceInv, OneRequest
  <2>4. ASSUME NEW t \in Threads, RequestFits(t) PROVE RequestFits(t)'
    BY <1>1, <1>2, <1>3, <2>2, <2>4 DEF RequestFits
  <2>5. RequestsFit'  BY <1>1, <1>5, <2>4 DEF ServiceInv, RequestsFit
  <2> QED  BY <2>2, <2>3, <2>5
<1> QED  BY <1>1, <1>4, <1>5 DEF ServiceInv

LEMMA WriteLogKeeps ==
    ASSUME NoneIsNew, ServiceInv, NEW p \in SP!Children, SP!WriteLog(p)
    PROVE  ServiceInv'
<1>1. /\ UNCHANGED <<handle, child, request, clients>> /\ log' = p
      /\ SP!Alive(p) /\ child[p].service = "analyzer"
  BY DEF SP!WriteLog
<1>2. ServiceTypes'  BY <1>1 DEF ServiceInv, ServiceTypes
<1>3. ASSUME clients = 1
      PROVE  OneRequest' /\ HandleOwn' /\ RequestsFit' /\ NoneLost' /\ LogOwn'
  <2>1. SP!BeingAssigned(p) \/ handle["analyzer"] = p
    BY <1>1, <1>3 DEF ServiceInv, NoneLost
  <2>2. ASSUME NEW u \in Threads, request[u].pc = "assign", request[u].p = p
        PROVE  ~SP!Up("analyzer")
    BY <1>1, <1>3, <2>2 DEF ServiceInv, RequestsFit, RequestFits
  <2>3. LogOwn'
    BY <1>1, <2>1, <2>2 DEF LogOwn, SP!BeingAssigned, SP!Up, SP!Alive
  <2>4. ASSUME NEW u \in Threads, RequestFits(u), request[u].pc # "idle" PROVE RequestFits(u)'
    <3>1. CASE SP!BeingAssigned(p)
      <4>1. PICK v \in Threads : request[v].pc = "assign" /\ request[v].p = p
        BY <3>1 DEF SP!BeingAssigned
      <4>2. u = v  BY <1>3, <2>4, <4>1 DEF ServiceInv, OneRequest
      <4> QED  BY <1>1, <2>4, <4>1, <4>2 DEF RequestFits, SP!Up, SP!Alive
    <3>2. CASE handle["analyzer"] = p
      <4>1. SP!Up("analyzer")  BY <1>1, <3>2 DEF SP!Up, NoneIsNew
      <4> QED  BY <1>1, <2>4, <4>1 DEF RequestFits, SP!Up, SP!Alive
    <3> QED  BY <2>1, <3>1, <3>2
  <2>5. OneRequest' /\ RequestsFit'
    BY <1>1, <1>3, <2>4 DEF ServiceInv, OneRequest, RequestsFit
  <2>6. HandleOwn' /\ NoneLost'
    BY <1>1, <1>3 DEF ServiceInv, HandleOwn, NoneLost, SP!Alive, SP!BeingAssigned
  <2> QED  BY <2>3, <2>5, <2>6
<1> QED  BY <1>1, <1>2, <1>3 DEF ServiceInv

LEMMA ServicesKeep == ASSUME NoneIsNew, ServiceInv, [SP!Next]_(SP!vars) PROVE ServiceInv'
<1>1. "db" \in Services /\ "analyzer" \in Services  BY DEF Services
<1>2. {"popen", "clear_log", "terminate"} \subseteq ServiceSteps  BY DEF ServiceSteps
<1>3. ASSUME NEW t \in Threads, SP!StartDb(t) PROVE ServiceInv'
  <2>1. CASE ~SP!Up("db") /\ SP!Receive(t, "db", "popen")
    BY <1>1, <1>2, <2>1, ReceivedKeeps
  <2> QED  BY <1>1, <1>3, <2>1, PopenKeeps, AssignKeeps DEF SP!StartDb
<1>4. ASSUME NEW t \in Threads, SP!StartAnalyzer(t) PROVE ServiceInv'
  <2>1. CASE ~SP!Up("analyzer") /\ SP!Receive(t, "analyzer", "clear_log")
    BY <1>1, <1>2, <2>1, ReceivedKeeps
  <2> QED  BY <1>1, <1>4, <2>1, ClearLogKeeps, PopenKeeps, AssignKeeps DEF SP!StartAnalyzer
<1>5. ASSUME NEW t \in Threads, SP!StopDb(t) \/ SP!StopAnalyzer(t) PROVE ServiceInv'
  BY <1>1, <1>2, <1>5, ReceivedKeeps, TerminateKeeps, StartWaitKeeps, KillKeeps, AssignKeeps
     DEF SP!StopDb, SP!StopAnalyzer, SP!Stopping
<1>6. CASE UNCHANGED SP!vars
  <2>1. UNCHANGED <<handle, child, log, request, clients>>  BY <1>6 DEF SP!vars
  <2>2. ServiceTypes'  BY <2>1 DEF ServiceInv, ServiceTypes
  <2>3. ASSUME clients = 1 PROVE OneRequest' /\ HandleOwn' /\ NoneLost' /\ LogOwn'
    BY <2>1, <2>3 DEF ServiceInv, OneRequest, HandleOwn, NoneLost, LogOwn, SP!Up, SP!Alive,
       SP!BeingAssigned
  <2>4. ASSUME clients = 1 PROVE RequestsFit'
    BY <2>1, <2>4 DEF ServiceInv, RequestsFit, RequestFits, SP!Up, SP!Alive
  <2> QED  BY <2>1, <2>2, <2>3, <2>4 DEF ServiceInv
<1> QED  BY <1>3, <1>4, <1>5, <1>6, ExitKeeps, WriteLogKeeps DEF SP!Next

LEMMA ServicesHold ==
    NoneIsNew /\ SP!Init /\ [][SP!Next]_(SP!vars)
      => [](SP!SerialClientsLoseNone /\ SP!SerialLogIsOwn)
<1>1. ServiceInv => SP!SerialClientsLoseNone /\ SP!SerialLogIsOwn
  BY DEF ServiceInv, SP!SerialClientsLoseNone, SP!SerialLogIsOwn, NoneLost, LogOwn
<1> DEFINE Inv == NoneIsNew /\ ServiceInv
<1>2. NoneIsNew /\ SP!Init => Inv  BY ServicesInit
<1>3. Inv /\ [SP!Next]_(SP!vars) => Inv'  BY ServicesKeep DEF NoneIsNew
<1>4. Inv => SP!SerialClientsLoseNone /\ SP!SerialLogIsOwn  BY <1>1
<1> HIDE DEF Inv
<1> QED  BY <1>2, <1>3, <1>4, PTL

-----------------------------------------------------------------------------
(*****************************************************************************)
(* Administration and model.  The tokenizer is set before a model is built,  *)
(* whatever requests interleave; with one client nothing posts a size in     *)
(* between, and what is written out is the configuration.                    *)
(*****************************************************************************)
AdminConstants ==
  /\ IsFiniteSet(Threads)
  /\ None \notin Vocabs \cup {TokenizerVocab}

Trainings == 1..MaxTrainings
AdminSteps == {"idle", "open", "dump", "close", "vocab", "build", "sample"}
AdminRequests == [pc : AdminSteps, value : Vocabs \cup {TokenizerVocab, None}]
TrainerRecords == [pc : {"none", "begin", "train", "clear", "end"}, epoch : Nat]

AdminTypes ==
  /\ config \in Vocabs \cup {TokenizerVocab} /\ tokenizer \in BOOLEAN
  /\ adminRequest \in [Threads -> AdminRequests]
  /\ trainer \in [Trainings -> TrainerRecords]

(* The tokenizer comes before everything else of the model, and stays. *)
ModelLoaded ==
  /\ model # None => tokenizer
  /\ \A t \in Threads : /\ adminRequest[t].pc \in {"vocab", "build", "sample"} => tokenizer
                        /\ adminRequest[t].pc = "sample" => model # None

(* While the flag is up some thread trains, and as long as the counter is not  *)
(* full, too, unless no thread has trained yet.                                *)
TrainersSeen ==
  /\ active => \E n \in Trainings : trainer[n].pc \in {"train", "clear"}
  /\ \/ progress = MaxProgress
     \/ \E n \in Trainings : trainer[n].pc = "train"
     \/ \A n \in Trainings : trainer[n].pc \in {"none", "begin"}

OneAdminRequest ==
  \A t, u \in Threads : adminRequest[t].pc # "idle" /\ adminRequest[u].pc # "idle" => t = u

(* With one client nobody posts a size while a model is built, and what a      *)
(* request is about to write out is the configuration.                         *)
SerialAdmin ==
  /\ OneAdminRequest
  /\ \A t \in Threads : /\ adminRequest[t].pc = "build" => config = TokenizerVocab
                        /\ adminRequest[t].pc = "close" => adminRequest[t].value = config
  /\ model # None => model = TokenizerVocab
  /\ \/ \E t \in Threads : adminRequest[t].pc \in {"open", "dump", "close"}
     \/ file.state = "absent"
     \/ file.state = "written" /\ (~tokenizer => file.vocab = config)

AdminInv ==
  /\ AdminTypes /\ ModelLoaded /\ TrainersSeen
  /\ adminClients = 1 => SerialAdmin

LEMMA AdminInit == AdminConstants /\ AS!Init /\ config \in Vocabs \cup {TokenizerVocab} => AdminInv
<1> SUFFICES ASSUME AdminConstants, AS!Init PROVE AdminInv  OBVIOUS
<1>1. \A t \in Threads : adminRequest[t] = AS!Idle  BY DEF AS!Init
<1>2. AS!Idle \in AdminRequests /\ AS!Idle.pc = "idle"  BY DEF AS!Idle, AdminRequests, AdminSteps
<1>3. \A n \in Trainings : trainer[n] = [pc |-> "none", epoch |-> 0]  BY DEF AS!Init, Trainings
<1>4. [pc |-> "none", epoch |-> 0] \in TrainerRecords  BY DEF TrainerRecords
<1>5. AdminTypes
  BY <1>2, <1>4 DEF AS!Init, AdminTypes, Trainings
<1>6. ModelLoaded
  <2>1. model = None  BY DEF AS!Init
  <2> QED  BY <1>1, <1>2, <2>1 DEF ModelLoaded
<1>7. TrainersSeen
  <2>1. active = FALSE  BY DEF AS!Init
  <2> QED  BY <1>3, <2>1 DEF TrainersSeen
<1>8. SerialAdmin  BY <1>1, <1>2 DEF SerialAdmin, OneAdminRequest, AS!Init
<1> QED  BY <1>5, <1>6, <1>7, <1>8 DEF AdminInv

LEMMA NoAdminRequestYet ==
    ASSUME AdminConstants, adminClients = 1, AS!Cardinality(AS!Busy) < adminClients
    PROVE  \A t \in Threads : adminRequest[t].pc = "idle"
<1>1. \A S : AS!Cardinality(S) = Cardinality(S)
  BY DEF AS!Cardinality, Cardinality
<1>2. IsFiniteSet(AS!Busy)
  BY FS_Subset DEF AdminConstants, AS!Busy
<1>3. AS!Busy = {}  BY <1>1, <1>2, FS_EmptySet, FS_CardinalityType
<1> QED  BY <1>3 DEF AS!Busy

(* A request moves: what it becomes, and that no other is there with one client. *)
LEMMA AdminMoves ==
    ASSUME AdminTypes, NEW t \in Threads, NEW at_ \in AdminSteps, NEW v \in Vocabs \cup {TokenizerVocab, None},
           adminRequest' = [adminRequest EXCEPT ![t] = [pc |-> at_, value |-> v]]
    PROVE  /\ adminRequest' \in [Threads -> AdminRequests]
           /\ adminRequest'[t].pc = at_ /\ adminRequest'[t].value = v
           /\ \A u \in Threads : u # t => adminRequest'[u] = adminRequest[u]
           /\ OneAdminRequest /\ adminRequest[t].pc # "idle"
                => /\ OneAdminRequest'
                   /\ \A u \in Threads : u # t => adminRequest[u].pc = "idle" /\ adminRequest'[u].pc = "idle"
           /\ (\A u \in Threads : adminRequest[u].pc = "idle")
                => /\ OneAdminRequest'
                   /\ \A u \in Threads : u # t => adminRequest'[u].pc = "idle"
<1>1. [pc |-> at_, value |-> v] \in AdminRequests  BY DEF AdminRequests
<1>2. /\ adminRequest' \in [Threads -> AdminRequests]
      /\ adminRequest'[t] = [pc |-> at_, value |-> v]
      /\ \A u \in Threads : u # t => adminRequest'[u] = adminRequest[u]
  BY <1>1 DEF AdminTypes
<1> QED  BY <1>2 DEF OneAdminRequest

LEMMA AdminRecord ==
    ASSUME AdminTypes, NEW t \in Threads
    PROVE  /\ adminRequest[t].pc \in AdminSteps
           /\ adminRequest[t].value \in Vocabs \cup {TokenizerVocab, None}
           /\ \A at_ : AS!Step(t, adminRequest[t].pc, at_) =>
                adminRequest' = [adminRequest EXCEPT ![t] = [pc |-> at_, value |-> adminRequest[t].value]]
<1>1. adminRequest[t] \in AdminRequests  BY DEF AdminTypes
<1>2. adminRequest[t] = [pc |-> adminRequest[t].pc, value |-> adminRequest[t].value]
  BY <1>1 DEF AdminRequests
<1>3. \A at_ : [adminRequest[t] EXCEPT !.pc = at_] = [pc |-> at_, value |-> adminRequest[t].value]
  BY <1>2
<1> QED  BY <1>1, <1>3 DEF AdminRequests, AS!Step

LEMMA AdminIdle ==
    /\ AS!Idle = [pc |-> "idle", value |-> None] /\ "idle" \in AdminSteps
    /\ \A t : AS!Reply(t) =>
         adminRequest' = [adminRequest EXCEPT ![t] = [pc |-> "idle", value |-> None]]
BY DEF AS!Idle, AdminSteps, AS!Reply

(* Posting a configuration. *)
LEMMA PostKeeps ==
    ASSUME AdminConstants, AdminInv, NEW t \in Threads, AS!PostConfig(t)
    PROVE  AdminInv'
<1>1. UNCHANGED <<active, progress, trainer, tokenizer, model, adminClients>>
  BY DEF AS!PostConfig, AS!UpdateConfig, AS!OpenFile, AS!DumpConfig, AS!CloseFile, AS!trainingVars, AS!modelVars
<1>2. TrainersSeen'  BY <1>1 DEF AdminInv, TrainersSeen
<1>3. {"open", "dump", "close", "idle"} \subseteq AdminSteps  BY DEF AdminSteps
<1>4. ASSUME NEW at_ \in {"open", "dump", "close", "idle"}, NEW v \in Vocabs \cup {TokenizerVocab, None},
             adminRequest' = [adminRequest EXCEPT ![t] = [pc |-> at_, value |-> v]],
             config' \in Vocabs \cup {TokenizerVocab}
      PROVE  AdminTypes' /\ ModelLoaded'
  <2>1. /\ adminRequest' \in [Threads -> AdminRequests] /\ adminRequest'[t].pc = at_
        /\ \A u \in Threads : u # t => adminRequest'[u] = adminRequest[u]
    BY <1>3, <1>4, AdminMoves DEF AdminInv
  <2> QED  BY <1>1, <1>4, <2>1 DEF AdminInv, AdminTypes, ModelLoaded
<1>5. ASSUME NEW vocab \in Vocabs, AS!UpdateConfig(t, vocab) PROVE AdminInv'
  <2>1. /\ adminRequest' = [adminRequest EXCEPT ![t] = [pc |-> "open", value |-> None]]
        /\ config' = vocab
    BY <1>5 DEF AS!UpdateConfig, AS!Receive
  <2>2. AdminTypes' /\ ModelLoaded'  BY <1>4, <2>1
  <2>3. ASSUME adminClients = 1 PROVE SerialAdmin'
    <3>1. \A u \in Threads : adminRequest[u].pc = "idle"
      BY <1>5, <2>3, NoAdminRequestYet DEF AS!UpdateConfig, AS!Receive
    <3>2. /\ OneAdminRequest' /\ adminRequest'[t].pc = "open"
          /\ \A u \in Threads : u # t => adminRequest'[u].pc = "idle"
      BY <1>3, <2>1, <3>1, AdminMoves DEF AdminInv
    <3> QED  BY <1>1, <2>3, <3>2 DEF AdminInv, SerialAdmin
  <2> QED  BY <1>1, <1>2, <2>2, <2>3 DEF AdminInv
<1>6. ASSUME NEW at_ \in {"dump", "close", "idle"}, NEW v \in Vocabs \cup {TokenizerVocab, None},
             adminRequest[t].pc \in {"open", "dump", "close"}, UNCHANGED config,
             adminRequest' = [adminRequest EXCEPT ![t] = [pc |-> at_, value |-> v]],
             at_ = "close" => v = config,
             at_ = "idle" /\ adminClients = 1 => file' = [state |-> "written", vocab |-> config]
      PROVE  AdminInv'
  <2>1. AdminTypes' /\ ModelLoaded'
    <3>1. config \in Vocabs \cup {TokenizerVocab}  BY DEF AdminInv, AdminTypes
    <3> QED  BY <1>4, <1>6, <3>1, ZenonT(60)
  <2>2. ASSUME adminClients = 1 PROVE SerialAdmin'
    <3>1. /\ OneAdminRequest' /\ adminRequest'[t].pc = at_ /\ adminRequest'[t].value = v
          /\ \A u \in Threads : u # t => adminRequest'[u].pc = "idle"
      BY <1>3, <1>6, <2>2, AdminMoves DEF AdminInv, SerialAdmin
    <3>2. at_ = "idle" => file'.state = "written" /\ file'.vocab = config'
      BY <1>6, <2>2
    <3> QED  BY <1>1, <1>6, <2>2, <3>1, <3>2, ZenonT(60) DEF AdminInv, SerialAdmin
  <2> QED  BY <1>1, <1>2, <2>1, <2>2 DEF AdminInv
<1>7. CASE AS!OpenFile(t)
  <2>1. /\ AS!Step(t, "open", "dump") /\ UNCHANGED config /\ adminRequest[t].pc = "open"
    BY <1>7 DEF AS!OpenFile, AS!Step
  <2> QED  BY <1>6, <2>1, AdminRecord DEF AdminInv
<1>8. CASE AS!DumpConfig(t)
  <2>1. config \in Vocabs \cup {TokenizerVocab}  BY DEF AdminInv, AdminTypes
  <2> QED  BY <1>6, <1>8, <2>1 DEF AS!DumpConfig
<1>9. CASE AS!CloseFile(t)
  <2>1. /\ adminRequest[t].pc = "close" /\ UNCHANGED config
        /\ file' = [state |-> "written", vocab |-> adminRequest[t].value]
        /\ AS!Reply(t)
    BY <1>9 DEF AS!CloseFile
  <2>2. adminClients = 1 => adminRequest[t].value = config  BY <2>1 DEF AdminInv, SerialAdmin
  <2> QED  BY <1>6, <2>1, <2>2, AdminIdle
<1> QED  BY <1>5, <1>7, <1>8, <1>9 DEF AS!PostConfig

(* The training threads. *)
LEMMA TrainingKeeps ==
    ASSUME AdminConstants, AdminInv,
           (\E t \in Threads : AS!StartTraining(t)) \/ \E n \in Trainings : AS!Training(n)
    PROVE  AdminInv'
<1>1. UNCHANGED <<config, file, tokenizer, model, adminRequest, adminClients>>
  BY DEF AS!StartTraining, AS!Training, AS!BeginTraining, AS!TrainEpoch, AS!EndTraining, AS!modelVars
<1>2. ModelLoaded' /\ (adminClients = 1 => SerialAdmin')
  BY <1>1 DEF AdminInv, ModelLoaded, SerialAdmin, OneAdminRequest
<1>3. PICK n \in Trainings :
        \/ /\ trainer[n].pc = "none" /\ trainer' = [trainer EXCEPT ![n].pc = "begin"]
           /\ UNCHANGED <<active, progress>>
        \/ AS!Training(n)
  BY DEF AS!StartTraining, Trainings
<1>4. trainer[n] \in TrainerRecords /\ trainer[n].epoch \in Nat  BY DEF AdminInv, AdminTypes, TrainerRecords
<1>5. \A at_ : /\ [trainer[n] EXCEPT !.pc = at_].pc = at_
               /\ at_ \in {"begin", "train", "clear", "end"} => [trainer[n] EXCEPT !.pc = at_] \in TrainerRecords
  BY <1>4 DEF TrainerRecords
<1>6. /\ [trainer[n] EXCEPT !.epoch = @ + 1].pc = trainer[n].pc
      /\ [trainer[n] EXCEPT !.epoch = @ + 1] \in TrainerRecords
  BY <1>4 DEF TrainerRecords
<1>7. PICK r \in TrainerRecords :
        /\ trainer' = [trainer EXCEPT ![n] = r]
        /\ \/ trainer[n].pc = "none" /\ r.pc = "begin" /\ UNCHANGED <<active, progress>>
           \/ trainer[n].pc = "begin" /\ r.pc = "train" /\ active' = TRUE /\ UNCHANGED progress
           \/ trainer[n].pc = "train" /\ r.pc = "clear" /\ UNCHANGED active /\ progress' = MaxProgress
           \/ trainer[n].pc = "train" /\ r.pc = "train" /\ UNCHANGED active
           \/ trainer[n].pc = "clear" /\ r.pc = "end" /\ active' = FALSE /\ UNCHANGED progress
  <2>1. CASE /\ trainer[n].pc = "none" /\ trainer' = [trainer EXCEPT ![n].pc = "begin"]
             /\ UNCHANGED <<active, progress>>
    <3>1. trainer' = [trainer EXCEPT ![n] = [trainer[n] EXCEPT !.pc = "begin"]]  BY <2>1
    <3> QED  BY <1>5, <2>1, <3>1
  <2>2. CASE AS!BeginTraining(n)
    <3>1. trainer' = [trainer EXCEPT ![n] = [trainer[n] EXCEPT !.pc = "train"]]
      BY <2>2 DEF AS!BeginTraining
    <3> QED  BY <1>5, <2>2, <3>1 DEF AS!BeginTraining
  <2>3. CASE AS!TrainEpoch(n)
    <3>1. CASE trainer[n].epoch = MaxProgress
      <4>1. trainer' = [trainer EXCEPT ![n] = [trainer[n] EXCEPT !.pc = "clear"]]
        BY <2>3, <3>1 DEF AS!TrainEpoch
      <4> QED  BY <1>5, <2>3, <3>1, <4>1 DEF AS!TrainEpoch
    <3>2. CASE trainer[n].epoch # MaxProgress
      <4>1. trainer' = [trainer EXCEPT ![n] = [trainer[n] EXCEPT !.epoch = @ + 1]]
        BY <2>3, <3>2 DEF AS!TrainEpoch
      <4> QED  BY <1>6, <2>3, <4>1 DEF AS!TrainEpoch
    <3> QED  BY <3>1, <3>2
  <2>4. CASE AS!EndTraining(n)
    <3>1. trainer' = [trainer EXCEPT ![n] = [trainer[n] EXCEPT !.pc = "end"]]
      BY <2>4 DEF AS!EndTraining
    <3> QED  BY <1>5, <2>4, <3>1 DEF AS!EndTraining
  <2> QED  BY <1>3, <2>1, <2>2, <2>3, <2>4 DEF AS!Training
<1>8. /\ trainer' \in [Trainings -> TrainerRecords] /\ trainer'[n] = r
      /\ \A m \in Trainings : m # n => trainer'[m] = trainer[m]
  BY <1>7 DEF AdminInv, AdminTypes
<1>9. AdminTypes'  BY <1>1, <1>8 DEF AdminInv, AdminTypes
<1>10. TrainersSeen'
  <2>1. active' => \E m \in Trainings : trainer'[m].pc \in {"train", "clear"}
    BY <1>7, <1>8 DEF AdminInv, TrainersSeen
  <2>2. \/ progress' = MaxProgress
        \/ \E m \in Trainings : trainer'[m].pc = "train"
        \/ \A m \in Trainings : trainer'[m].pc \in {"none", "begin"}
    BY <1>7, <1>8 DEF AdminInv, TrainersSeen
  <2> QED  BY <2>1, <2>2 DEF TrainersSeen
<1> QED  BY <1>1, <1>2, <1>9, <1>10 DEF AdminInv

(* Loading the model and generating with it. *)
LEMMA GenerateKeeps ==
    ASSUME AdminConstants, AdminInv, NEW t \in Threads, AS!Generate(t)
    PROVE  AdminInv'
<1>1. UNCHANGED <<active, progress, trainer, file, adminClients>>
  BY DEF AS!Generate, AS!LoadTokenizer, AS!SetVocab, AS!BuildModel, AS!Loaded, AS!Sample, AS!trainingVars
<1>2. TrainersSeen'  BY <1>1 DEF AdminInv, TrainersSeen
<1>3. {"vocab", "build", "sample", "idle"} \subseteq AdminSteps  BY DEF AdminSteps
<1>4. ASSUME NEW at_ \in {"vocab", "build", "sample", "idle"}, NEW v \in Vocabs \cup {TokenizerVocab, None},
             adminRequest' = [adminRequest EXCEPT ![t] = [pc |-> at_, value |-> v]],
             config' \in {config, TokenizerVocab}, tokenizer' \in {tokenizer, TRUE},
             model' \in {model, config}, at_ # "idle" => tokenizer', at_ = "sample" => model' # None,
             model' # None => tokenizer',
             adminClients = 1 =>
               /\ \/ \A u \in Threads : adminRequest[u].pc = "idle"
                  \/ adminRequest[t].pc \in {"vocab", "build", "sample"}
               /\ at_ = "build" => config' = TokenizerVocab
               /\ model' # model => adminRequest[t].pc = "build"
               /\ config' # config => tokenizer
      PROVE  AdminInv'
  <2>1. /\ adminRequest' \in [Threads -> AdminRequests] /\ adminRequest'[t].pc = at_
        /\ \A u \in Threads : u # t => adminRequest'[u] = adminRequest[u]
    BY <1>3, <1>4, AdminMoves DEF AdminInv
  <2>2. config # None /\ (model # None => model' # None)  BY <1>4 DEF AdminConstants, AdminInv, AdminTypes
  <2>3. AdminTypes'
    <3>1. tokenizer' \in BOOLEAN  BY <1>4 DEF AdminInv, AdminTypes
    <3>2. config' \in Vocabs \cup {TokenizerVocab}  BY <1>4 DEF AdminInv, AdminTypes
    <3>3. trainer' \in [Trainings -> TrainerRecords]  BY <1>1 DEF AdminInv, AdminTypes
    <3> QED  BY <2>1, <3>1, <3>2, <3>3 DEF AdminTypes
  <2>4. ModelLoaded'
    <3>1. tokenizer => tokenizer'  BY <1>4
    <3>2. /\ model' # None => tokenizer'
          /\ at_ # "idle" => tokenizer'
          /\ at_ = "sample" => model' # None
      BY <1>4
    <3>3. ASSUME NEW u \in Threads, u # t
          PROVE  /\ adminRequest'[u].pc \in {"vocab", "build", "sample"} => tokenizer'
                 /\ adminRequest'[u].pc = "sample" => model' # None
      BY <2>1, <2>2, <3>1, <3>3 DEF AdminInv, ModelLoaded
    <3>4. at_ \in {"vocab", "build", "sample"} => at_ # "idle"  OBVIOUS
    <3> QED  BY <2>1, <3>2, <3>3, <3>4 DEF ModelLoaded
  <2>5. ASSUME adminClients = 1 PROVE SerialAdmin'
    <3>1. /\ OneAdminRequest'
          /\ \A u \in Threads : u # t => adminRequest[u].pc = "idle" /\ adminRequest'[u].pc = "idle"
      BY <1>3, <1>4, <2>5, AdminMoves DEF AdminInv, SerialAdmin
    <3>2. model' # None => model' = TokenizerVocab
      BY <1>4, <2>5 DEF AdminInv, SerialAdmin
    <3>3. file.state = "absent" \/ (file.state = "written" /\ (~tokenizer => file.vocab = config))
      BY <1>4, <2>5, <3>1 DEF AdminInv, SerialAdmin
    <3>4. file'.state = "absent" \/ (file'.state = "written" /\ (~tokenizer' => file'.vocab = config'))
      <4>1. file' = file  BY <1>1
      <4>2. ~tokenizer' => ~tokenizer /\ config' = config
        <5>1. tokenizer => tokenizer'  BY <1>4
        <5>2. config' # config => tokenizer  BY <1>4, <2>5
        <5> QED  BY <5>1, <5>2
      <4> QED  BY <3>3, <4>1, <4>2
    <3> QED  BY <1>4, <2>1, <2>5, <3>1, <3>2, <3>4 DEF SerialAdmin
  <2> QED  BY <1>1, <1>2, <2>3, <2>4, <2>5 DEF AdminInv
<1>5. adminRequest[t].value \in Vocabs \cup {TokenizerVocab, None}  BY AdminRecord DEF AdminInv
<1>6. config # None /\ (model # None => tokenizer)
  BY DEF AdminConstants, AdminInv, AdminTypes, ModelLoaded
<1>7. CASE AS!LoadTokenizer(t)
  <2>1. /\ adminRequest' = [adminRequest EXCEPT ![t] = [pc |-> "vocab", value |-> None]]
        /\ tokenizer' = TRUE /\ UNCHANGED <<config, model>> /\ AS!Cardinality(AS!Busy) < adminClients
    BY <1>7 DEF AS!LoadTokenizer, AS!Receive
  <2>2. adminClients = 1 => \A u \in Threads : adminRequest[u].pc = "idle"  BY <2>1, NoAdminRequestYet
  <2> QED  BY <1>4, <2>1, <2>2
<1>8. CASE AS!SetVocab(t)
  <2>1. /\ AS!Step(t, "vocab", "build") /\ adminRequest[t].pc = "vocab" /\ config' = TokenizerVocab
        /\ UNCHANGED <<tokenizer, model>>
    BY <1>8 DEF AS!SetVocab, AS!Step, AS!modelVars
  <2>2. adminRequest' = [adminRequest EXCEPT ![t] = [pc |-> "build", value |-> adminRequest[t].value]]
    BY <2>1, AdminRecord DEF AdminInv
  <2>3. tokenizer  BY <2>1 DEF AdminInv, ModelLoaded
  <2> QED  BY <1>4, <1>5, <1>6, <2>1, <2>2, <2>3
<1>9. CASE AS!BuildModel(t)
  <2>1. adminRequest[t].pc = "build" /\ UNCHANGED <<config, tokenizer>>  BY <1>9 DEF AS!BuildModel
  <2>2. tokenizer  BY <2>1 DEF AdminInv, ModelLoaded
  <2>3. CASE model' = config /\ adminRequest' = [adminRequest EXCEPT ![t].pc = "sample"]
    <3>1. adminRequest' = [adminRequest EXCEPT ![t] = [pc |-> "sample", value |-> adminRequest[t].value]]
      <4>1. AS!Step(t, adminRequest[t].pc, "sample")  BY <2>3 DEF AS!Step
      <4> QED  BY <4>1, AdminRecord DEF AdminInv
    <3> QED  BY <1>4, <1>5, <1>6, <2>1, <2>2, <2>3, <3>1
  <2>4. CASE AS!Reply(t) /\ UNCHANGED model
    BY <1>4, <1>6, <2>1, <2>2, <2>4, AdminIdle
  <2> QED  BY <1>9, <2>3, <2>4 DEF AS!BuildModel
<1>10. CASE AS!Loaded(t)
  <2>1. /\ adminRequest' = [adminRequest EXCEPT ![t] = [pc |-> "sample", value |-> None]]
        /\ model # None /\ UNCHANGED <<config, tokenizer, model>> /\ AS!Cardinality(AS!Busy) < adminClients
    BY <1>10 DEF AS!Loaded, AS!Receive, AS!modelVars
  <2>2. adminClients = 1 => \A u \in Threads : adminRequest[u].pc = "idle"  BY <2>1, NoAdminRequestYet
  <2> QED  BY <1>4, <1>6, <2>1, <2>2
<1>11. CASE AS!Sample(t)
  <2>1. /\ adminRequest[t].pc = "sample" /\ UNCHANGED <<config, tokenizer, model>> /\ AS!Reply(t)
    BY <1>11 DEF AS!Sample, AS!modelVars
  <2> QED  BY <1>4, <1>6, <2>1, AdminIdle
<1> QED  BY <1>7, <1>8, <1>9, <1>10, <1>11 DEF AS!Generate

LEMMA AdminKeeps == ASSUME AdminConstants, AdminInv, [AS!Next]_(AS!vars) PROVE AdminInv'
<1>1. CASE UNCHANGED AS!vars
  <2>1. UNCHANGED <<config, file, active, progress, trainer, tokenizer, model, adminRequest, adminClients>>
    BY <1>1 DEF AS!vars
  <2>2. AdminTypes' /\ ModelLoaded'  BY <2>1 DEF AdminInv, AdminTypes, ModelLoaded
  <2>3. TrainersSeen'  BY <2>1 DEF AdminInv, TrainersSeen
  <2>4. adminClients = 1 => SerialAdmin'  BY <2>1 DEF AdminInv, SerialAdmin, OneAdminRequest
  <2> QED  BY <2>1, <2>2, <2>3, <2>4 DEF AdminInv
<1> QED  BY <1>1, PostKeeps, TrainingKeeps, GenerateKeeps DEF AS!Next, Trainings

LEMMA AdminHolds ==
    AdminConstants /\ AS!Init /\ [][AS!Next]_(AS!vars)
      => [](/\ AS!SampleHasBoth /\ AS!TrainingAtRest
            /\ AS!SerialVocabAgrees /\ AS!SerialFileWhole)
<1>1. AdminInv => /\ AS!SampleHasBoth /\ AS!TrainingAtRest
                  /\ AS!SerialVocabAgrees /\ AS!SerialFileWhole
  <2> SUFFICES ASSUME AdminInv PROVE /\ AS!SampleHasBoth /\ AS!TrainingAtRest
                                     /\ AS!SerialVocabAgrees /\ AS!SerialFileWhole
    OBVIOUS
  <2>1. AS!SampleHasBoth /\ AS!SerialVocabAgrees
    BY DEF AdminInv, ModelLoaded, SerialAdmin, AS!SampleHasBoth, AS!SerialVocabAgrees
  <2>2. AS!TrainingAtRest  BY DEF AdminInv, TrainersSeen, Trainings, AS!TrainingAtRest
  <2>3. AS!SerialFileWhole  BY DEF AdminInv, SerialAdmin, AS!SerialFileWhole, AS!Busy
  <2> QED  BY <2>1, <2>2, <2>3
<1> DEFINE Inv == AdminConstants /\ AdminInv
<1>2. AdminConstants /\ AS!Init => Inv  BY AdminInit DEF AS!Init
<1>3. Inv /\ [AS!Next]_(AS!vars) => Inv'  BY AdminKeeps DEF AdminConstants
<1>4. Inv => /\ AS!SampleHasBoth /\ AS!TrainingAtRest
             /\ AS!SerialVocabAgrees /\ AS!SerialFileWhole
  BY <1>1
<1> HIDE DEF Inv
<1> QED  BY <1>2, <1>3, <1>4, PTL

-----------------------------------------------------------------------------
(*****************************************************************************)
(* The server.  Until a request is done it has no answer, and a command of the*)
(* client is never passed by the handler that takes it.                      *)
(*****************************************************************************)
Commands == {"db_status", "db_query", "model_generate", "tisslang_run", "task_list",
             "task_status", "training_start", "training_status"}
HandlerNames == {"db", "model", "analytics", "tisslang", "nexus", "admin", "tasks"}

(* The route of a command. *)
RouteOf(c) == [path |-> API!CliRequests[c].path, method |-> API!CliRequests[c].method]

(* Every command has one handler that takes it. *)
LEMMA CommandsHaveOneHandler ==
    /\ DOMAIN API!CliRequests = Commands
    /\ \A c \in Commands : /\ API!CliRequests[c].handler \in HandlerNames
                           /\ API!CliRequests[c].method # "HEAD"
                           /\ \A h \in HandlerNames :
                                RouteOf(c) \in API!Routes[h] <=> h = API!CliRequests[c].handler
<1>1. DOMAIN API!CliRequests = Commands  BY DEF API!CliRequests, Commands
<1>2. \A c \in Commands : API!CliRequests[c].handler \in HandlerNames /\ API!CliRequests[c].method # "HEAD"
  BY DEF API!CliRequests, Commands, HandlerNames
<1>3. \A c \in Commands, h \in HandlerNames : RouteOf(c) \in API!Routes[h] <=> h = API!CliRequests[c].handler
  <2>1. /\ API!Routes["db"] = API!DbRoutes /\ API!Routes["model"] = API!ModelRoutes
        /\ API!Routes["analytics"] = API!AnalyticsRoutes /\ API!Routes["tisslang"] = API!TissLangRoutes
        /\ API!Routes["nexus"] = API!NexusRoutes /\ API!Routes["admin"] = API!AdminRoutes
        /\ API!Routes["tasks"] = API!TaskRoutes
    BY DEF API!Routes
  <2>2. ASSUME NEW c \in Commands PROVE RouteOf(c) \in API!DbRoutes <=> "db" = API!CliRequests[c].handler
    BY DEF RouteOf, Commands, API!CliRequests, API!DbRoutes, API!Methods
  <2>3. ASSUME NEW c \in Commands PROVE RouteOf(c) \in API!ModelRoutes <=> "model" = API!CliRequests[c].handler
    BY DEF RouteOf, Commands, API!CliRequests, API!ModelRoutes, API!Methods
  <2>4. ASSUME NEW c \in Commands PROVE RouteOf(c) \in API!AnalyticsRoutes <=> "analytics" = API!CliRequests[c].handler
    BY DEF RouteOf, Commands, API!CliRequests, API!AnalyticsRoutes, API!Methods
  <2>5. ASSUME NEW c \in Commands PROVE RouteOf(c) \in API!TissLangRoutes <=> "tisslang" = API!CliRequests[c].handler
    BY DEF RouteOf, Commands, API!CliRequests, API!TissLangRoutes, API!Methods
  <2>6. ASSUME NEW c \in Commands PROVE RouteOf(c) \in API!NexusRoutes <=> "nexus" = API!CliRequests[c].handler
    BY DEF RouteOf, Commands, API!CliRequests, API!NexusRoutes, API!Methods
  <2>7. ASSUME NEW c \in Commands PROVE RouteOf(c) \in API!AdminRoutes <=> "admin" = API!CliRequests[c].handler
    BY DEF RouteOf, Commands, API!CliRequests, API!AdminRoutes, API!Methods
  <2>8. ASSUME NEW c \in Commands PROVE RouteOf(c) \in API!TaskRoutes <=> "tasks" = API!CliRequests[c].handler
    BY DEF RouteOf, Commands, API!CliRequests, API!TaskRoutes, API!Methods
  <2> QED  BY <2>1, <2>2, <2>3, <2>4, <2>5, <2>6, <2>7, <2>8 DEF HandlerNames
<1> QED  BY <1>1, <1>2, <1>3

LEMMA HandlersAreListed ==
    /\ Len(API!Handlers) = 7
    /\ \A k \in 1..7 : API!Handlers[k] \in HandlerNames
    /\ \A h \in HandlerNames : \E k \in 1..7 : API!Handlers[k] = h
BY DEF API!Handlers, HandlerNames

LEMMA CommandsAreServed == \A c \in Commands : API!CliRequests[c].path \in API!ApiPaths
<1> SUFFICES ASSUME NEW c \in Commands PROVE API!CliRequests[c].path \in API!ApiPaths  OBVIOUS
<1>1. PICK h \in HandlerNames : RouteOf(c) \in API!Routes[h]  BY CommandsHaveOneHandler
<1>2. h \in DOMAIN API!Routes  BY DEF API!Routes, HandlerNames
<1>3. RouteOf(c) \in API!Served  BY <1>1, <1>2 DEF API!Served
<1>4. RouteOf(c).path \in {r.path : r \in API!Served}  BY <1>3
<1> QED  BY <1>4 DEF RouteOf, API!ApiPaths

(* Until it is done a request has no answer; a command keeps its own method,   *)
(* path and body, and no handler that takes it has been passed.                *)
CommandIntact(c) ==
  /\ call.method = API!CliRequests[c].method /\ call.path = API!CliRequests[c].path
  /\ call.body = "json"
  /\ \E k \in 1..7 : API!Handlers[k] = API!CliRequests[c].handler /\ next <= k
  /\ pc = "done" => next <= 7 /\ API!Handlers[next] = API!CliRequests[c].handler

ApiInv ==
  /\ next \in Nat \ {0}
  /\ pc \in {"waiting", "method", "handlers", "done"}
  /\ pc # "done" => replies = <<>> /\ broke = FALSE
  /\ pc = "done" => broke = TRUE \/ Len(replies) = 1
  /\ pc \in {"waiting", "method"} => next = 1
  /\ call.from \in Commands => CommandIntact(call.from)

LEMMA ApiInit == API!Init => ApiInv
<1> SUFFICES ASSUME API!Init PROVE ApiInv  OBVIOUS
<1>1. call.from = "browser"  BY DEF API!Init, API!NoRequest
<1>2. "browser" \notin Commands  BY DEF Commands
<1> QED  BY <1>1, <1>2 DEF API!Init, ApiInv

LEMMA AnswerIsOne ==
    ASSUME replies = <<>>
    PROVE  \A status, json : API!Answer(status, json) => Len(replies') = 1
BY DEF API!Answer

LEMMA ArriveKeeps == ASSUME ApiInv, API!Arrive PROVE ApiInv'
<1>1. /\ pc' = "method" /\ next = 1 /\ UNCHANGED <<next, replies, broke>>
      /\ replies = <<>> /\ broke = FALSE
  BY DEF API!Arrive, ApiInv
<1>2. CASE call'.from = "browser"
  <2>1. "browser" \notin Commands  BY DEF Commands
  <2> QED  BY <1>1, <1>2, <2>1 DEF ApiInv
<1>3. CASE \E c \in DOMAIN API!CliRequests :
             call' = [method |-> API!CliRequests[c].method, path |-> API!CliRequests[c].path,
                      body |-> "json", from |-> c]
  <2>1. PICK c \in Commands :
             call' = [method |-> API!CliRequests[c].method, path |-> API!CliRequests[c].path,
                      body |-> "json", from |-> c]
    BY <1>3, CommandsHaveOneHandler
  <2>2. PICK k \in 1..7 : API!Handlers[k] = API!CliRequests[c].handler
    BY CommandsHaveOneHandler, HandlersAreListed
  <2>3. call'.from = c /\ CommandIntact(c)'  BY <1>1, <2>1, <2>2 DEF CommandIntact
  <2>4. CommandIntact(call.from)'  BY <2>3 DEF CommandIntact
  <2> QED  BY <1>1, <2>4 DEF ApiInv
<1> QED  BY <1>2, <1>3 DEF API!Arrive

(* Answers without a handler: no command ends there. *)
LEMMA NoHandlerKeeps ==
    ASSUME ApiInv, API!ServeStatic \/ API!AnswerMethod \/ API!ReadBody
    PROVE  ApiInv'
<1>1. pc = "method" /\ UNCHANGED <<call, next, broke>>
  BY DEF API!ServeStatic, API!AnswerMethod, API!ReadBody
<1>2. replies = <<>> /\ broke = FALSE /\ next = 1  BY <1>1 DEF ApiInv
<1>3. \/ pc' = "done" /\ Len(replies') = 1
      \/ pc' = "handlers" /\ replies' = replies
  BY <1>2, AnswerIsOne DEF API!ServeStatic, API!AnswerMethod, API!ReadBody
<1>4. ASSUME call.from \in Commands PROVE pc' = "handlers" /\ CommandIntact(call.from)'
  <2>1. /\ call.method # "HEAD" /\ call.path \in API!ApiPaths /\ call.body = "json"
        /\ CommandIntact(call.from)
    BY <1>4, CommandsHaveOneHandler, CommandsAreServed DEF ApiInv, CommandIntact
  <2>2. pc' = "handlers"
    BY <2>1 DEF API!ServeStatic, API!AnswerMethod, API!ReadBody, API!IsApi
  <2> QED  BY <1>1, <2>1, <2>2 DEF CommandIntact
<1> QED  BY <1>1, <1>2, <1>3, <1>4 DEF ApiInv

(* A command is taken by its own handler and by no other. *)
LEMMA CommandTaken ==
    ASSUME ApiInv, call.from \in Commands, next <= 7
    PROVE  API!Takes(API!Handlers[next]) <=> API!Handlers[next] = API!CliRequests[call.from].handler
<1>1. [path |-> call.path, method |-> call.method] = RouteOf(call.from)
  BY DEF ApiInv, CommandIntact, RouteOf
<1>2. API!Handlers[next] \in HandlerNames  BY HandlersAreListed DEF ApiInv
<1> QED  BY <1>1, <1>2, CommandsHaveOneHandler DEF API!Takes

LEMMA HandlersKeep ==
    ASSUME ApiInv, API!Refuse \/ API!Handle \/ API!HandleBreaks \/ API!NotFound
    PROVE  ApiInv'
<1>1. pc = "handlers" /\ UNCHANGED call /\ replies = <<>> /\ broke = FALSE /\ next \in Nat \ {0}
  BY DEF API!Refuse, API!Handle, API!HandleBreaks, API!NotFound, ApiInv
<1>2. Len(API!Handlers) = 7  BY HandlersAreListed
<1>3. CASE API!Refuse
  <2>1. /\ next <= 7 /\ ~API!Takes(API!Handlers[next]) /\ next' = next + 1
        /\ UNCHANGED <<pc, replies, broke>>
    BY <1>2, <1>3 DEF API!Refuse
  <2>2. ASSUME call.from \in Commands PROVE CommandIntact(call.from)'
    <3>1. PICK k \in 1..7 : API!Handlers[k] = API!CliRequests[call.from].handler /\ next <= k
      BY <2>2 DEF ApiInv, CommandIntact
    <3>2. next # k  BY <2>1, <2>2, <3>1, CommandTaken
    <3>3. next' <= k  BY <1>1, <2>1, <3>1, <3>2
    <3> QED  BY <1>1, <2>1, <2>2, <3>1, <3>3 DEF ApiInv, CommandIntact
  <2> QED  BY <1>1, <2>1, <2>2 DEF ApiInv
<1>4. CASE API!Handle \/ API!HandleBreaks
  <2>1. /\ next <= 7 /\ API!Takes(API!Handlers[next]) /\ UNCHANGED next /\ pc' = "done"
    BY <1>2, <1>4 DEF API!Handle, API!HandleBreaks
  <2>2. broke' = TRUE \/ Len(replies') = 1
    BY <1>1, <1>4, AnswerIsOne, ZenonT(60) DEF API!Handle, API!HandleBreaks
  <2>3. ASSUME call.from \in Commands PROVE CommandIntact(call.from)'
    <3>1. API!Handlers[next] = API!CliRequests[call.from].handler  BY <2>1, <2>3, CommandTaken
    <3> QED  BY <1>1, <2>1, <2>3, <3>1 DEF ApiInv, CommandIntact
  <2> QED  BY <1>1, <2>1, <2>2, <2>3 DEF ApiInv
<1>5. CASE API!NotFound
  <2>1. next > 7 /\ pc' = "done" /\ UNCHANGED <<next, broke>> /\ Len(replies') = 1
    BY <1>1, <1>2, <1>5, AnswerIsOne DEF API!NotFound
  <2>2. call.from \notin Commands  BY <1>1, <2>1 DEF ApiInv, CommandIntact
  <2> QED  BY <1>1, <2>1, <2>2 DEF ApiInv
<1> QED  BY <1>3, <1>4, <1>5

LEMMA ApiHolds ==
    API!Init /\ [][API!Next]_(API!vars) => [](API!OneAnswer /\ API!CliReachesHandler)
<1>1. ApiInv => API!OneAnswer /\ API!CliReachesHandler
  BY CommandsHaveOneHandler, HandlersAreListed DEF ApiInv, CommandIntact, API!OneAnswer, API!CliReachesHandler
<1>2. ApiInv /\ [API!Next]_(API!vars) => ApiInv'
  <2> SUFFICES ASSUME ApiInv, [API!Next]_(API!vars) PROVE ApiInv'  OBVIOUS
  <2>1. CASE UNCHANGED API!vars
    <3>1. UNCHANGED <<pc, call, next, replies, broke>>  BY <2>1 DEF API!vars
    <3> QED  BY <3>1 DEF ApiInv, CommandIntact
  <2> QED  BY <2>1, ArriveKeeps, NoHandlerKeeps, HandlersKeep DEF API!Next
<1> QED  BY <1>1, <1>2, ApiInit, PTL

-----------------------------------------------------------------------------
(*****************************************************************************)
(* The database manager is proved in a module of its own; its steps in a run *)
(* of MCWeb are the steps that module speaks of.                             *)
(*****************************************************************************)
Manager == INSTANCE DatabaseManagerProofs
             WITH threads <- dbThreads, clients <- dbClients,
                  MaxRestarts <- [c \in Nat |-> IF c = 1 THEN SerialRestarts ELSE OtherRestarts]

LEMMA CardinalitiesAgree == \A S : DM!Cardinality(S) = Manager!Cardinality(S)
BY DEF DM!Cardinality, Manager!Cardinality

LEMMA TextsAgree ==
    /\ DM!EmptyText = Manager!EmptyText /\ DM!Idle = Manager!Idle /\ DM!Served = Manager!Served
    /\ DM!Busy = Manager!Busy
    /\ \A n : DM!BusyWith(n) = Manager!BusyWith(n)
    /\ \A names : DM!TextOf(names) = Manager!TextOf(names)
    /\ \A old, new : DM!WriteOver(old, new) = Manager!WriteOver(old, new)
<1>1. \A names : DM!TextOf(names) = Manager!TextOf(names)
  BY CardinalitiesAgree DEF DM!TextOf, Manager!TextOf
<1>2. DM!Busy = Manager!Busy /\ DM!Served = Manager!Served
  BY DEF DM!Busy, Manager!Busy, DM!Served, Manager!Served
<1>3. \A n : DM!BusyWith(n) = Manager!BusyWith(n)
  BY <1>2 DEF DM!BusyWith, Manager!BusyWith
<1> QED  BY <1>1, <1>2, <1>3 DEF DM!EmptyText, Manager!EmptyText, DM!Idle, Manager!Idle,
            DM!WriteOver, Manager!WriteOver

LEMMA ManagerInit == DM!Init => Manager!Init
BY CardinalitiesAgree, TextsAgree DEF DM!Init, Manager!Init

LEMMA ManagerRequests ==
    ASSUME NEW t \in Threads
    PROVE  /\ DM!CreateDatabase(t) => Manager!CreateDatabase(t)
           /\ DM!DeleteDatabase(t) => Manager!DeleteDatabase(t)
           /\ \A n : DM!Put(t, n) => Manager!Put(t, n)
<1>1. \A n, what : DM!Expect(n, what) <=> Manager!Expect(n, what)
  BY DEF DM!Expect, Manager!Expect
<1>2. ASSUME NEW op, NEW n, NEW at_, DM!Begin(t, op, n, at_) PROVE Manager!Begin(t, op, n, at_)
  BY <1>1, <1>2, TextsAgree, CardinalitiesAgree DEF DM!Begin, Manager!Begin
<1>3. \A n : /\ DM!CreateCheck(t, n) => Manager!CreateCheck(t, n)
             /\ DM!DeleteCheck(t, n) => Manager!DeleteCheck(t, n)
  BY <1>2 DEF DM!CreateCheck, DM!DeleteCheck, Manager!CreateCheck, Manager!DeleteCheck
<1>4. /\ DM!MakeDirectory(t) => Manager!MakeDirectory(t)
      /\ DM!OpenEngine(t) => Manager!OpenEngine(t)
      /\ DM!EraseEngine(t) => Manager!EraseEngine(t)
      /\ DM!RemoveDirectory(t) => Manager!RemoveDirectory(t)
  BY DEF DM!MakeDirectory, Manager!MakeDirectory, DM!OpenEngine, Manager!OpenEngine, DM!EraseEngine,
         Manager!EraseEngine, DM!RemoveDirectory, Manager!RemoveDirectory, DM!Goto, Manager!Goto
<1>5. \A n : DM!Put(t, n) => Manager!Put(t, n)
  BY <1>1, TextsAgree, CardinalitiesAgree DEF DM!Put, Manager!Put
<1> QED  BY <1>3, <1>4, <1>5 DEF DM!CreateDatabase, DM!DeleteDatabase, Manager!CreateDatabase,
            Manager!DeleteDatabase

LEMMA ManagerNext == [DM!Next]_(DM!vars) => [Manager!Next]_(Manager!vars)
<1>1. DM!Start => Manager!Start
  BY TextsAgree DEF DM!Start, Manager!Start, DM!Readable, Manager!Readable
<1>2. DM!End => Manager!End
  BY TextsAgree DEF DM!End, Manager!End
<1>3. ASSUME NEW t \in Threads
      PROVE  /\ DM!SaveManifest(t) => Manager!SaveManifest(t)
             /\ DM!Answer(t) => Manager!Answer(t)
  <2>1. DM!SaveManifest(t) => Manager!SaveManifest(t)
    BY TextsAgree DEF DM!SaveManifest, Manager!SaveManifest, DM!ListNames, Manager!ListNames,
       DM!Truncate, Manager!Truncate, DM!WriteManifest, Manager!WriteManifest, DM!Goto, Manager!Goto
  <2>2. DM!Answer(t) => Manager!Answer(t)
    BY TextsAgree DEF DM!Answer, Manager!Answer, DM!Expect, Manager!Expect
  <2> QED  BY <2>1, <2>2
<1>4. UNCHANGED DM!vars => UNCHANGED Manager!vars  BY DEF DM!vars, Manager!vars
<1>5. DM!Next => Manager!Next
  <2>1. ASSUME NEW t \in Threads,
               \/ DM!CreateDatabase(t) \/ DM!DeleteDatabase(t) \/ DM!SaveManifest(t) \/ DM!Answer(t)
               \/ \E n \in Names : DM!Put(t, n)
        PROVE  Manager!Next
    BY <1>3, <2>1, ManagerRequests DEF Manager!Next
  <2>2. DM!Start \/ DM!End => Manager!Next
    BY <1>1, <1>2 DEF Manager!Next
  <2> QED  BY <2>1, <2>2 DEF DM!Next
<1> QED  BY <1>4, <1>5

LEMMA ManagerHolds ==
    DM!Init /\ [][DM!Next]_(DM!vars)
      => [](DM!FirstRunKeepsPromises /\ DM!WrittenStays /\ DM!SerialPromisesKept)
<1>1. DM!Init /\ [][DM!Next]_(DM!vars) => Manager!Spec
  BY ManagerInit, ManagerNext, PTL DEF Manager!Spec
<1>2. Manager!FiniteConstants
  BY WebAssumption DEF Manager!FiniteConstants, Manager!IsFiniteSet, IsFiniteSet
<1>3. /\ Manager!FirstRunKeepsPromises => DM!FirstRunKeepsPromises
      /\ Manager!WrittenStays => DM!WrittenStays
      /\ Manager!SerialPromisesKept => DM!SerialPromisesKept
  BY TextsAgree DEF DM!FirstRunKeepsPromises, Manager!FirstRunKeepsPromises, DM!PromisesKept,
     Manager!PromisesKept, DM!WrittenStays, Manager!WrittenStays, DM!SerialPromisesKept,
     Manager!SerialPromisesKept, DM!ManifestCanBeRead, Manager!ManifestCanBeRead, DM!Readable,
     Manager!Readable, DM!Contents, Manager!Contents
<1> QED  BY <1>1, <1>2, <1>3, Manager!FirstRunPromisesHold, Manager!WrittenHolds,
            Manager!SerialPromisesHold, PTL

-----------------------------------------------------------------------------
(*****************************************************************************)
(* The test runner.  A completed test run keeps the output it was completed  *)
(* with, for any number of runs, of requests that stop them, and of          *)
(* characters.                                                               *)
(*****************************************************************************)
RunEntry == [status : {"running", "stopped", "completed", "failed"},
             success : {None} \cup BOOLEAN, process : BOOLEAN, internal : BOOLEAN,
             banner : BOOLEAN, text : [TR!Streams -> Nat]]

(* A run that somebody works on has an entry. *)
EntryOK ==
    /\ entry \in [Runs -> {None} \cup RunEntry]
    /\ runner \in [Runs -> {"none", "spawn", "publish", "wait", "join", "success", "complete",
                            "except", "end"}]
    /\ reader \in [Runs -> [TR!Streams -> {"none", "reading", "done"}]]
    /\ stopper \in [Threads -> [pc : {"idle", "kill", "mark"}, run : Runs \cup {None}]]
    /\ \A r \in Runs : runner[r] # "none" => entry[r] \in RunEntry
    /\ \A r \in Runs, k \in TR!Streams : reader[r][k] # "none" => entry[r] \in RunEntry
    /\ \A t \in Threads : stopper[t].pc # "idle" => /\ stopper[t].run \in Runs
                                                    /\ entry[stopper[t].run] \in RunEntry

ReadersDone(r) == \A k \in TR!Streams : reader[r][k] = "done"

(* From the verdict on, which follows the join, both readers are done; before *)
(* it no run is completed.                                                    *)
VerdictInv ==
    \A r \in Runs :
        /\ runner[r] \in {"success", "complete"} => ReadersDone(r)
        /\ entry[r] \in RunEntry /\ entry[r].status = "completed"
             => runner[r] = "end" /\ ReadersDone(r)

RunInv == EntryOK /\ VerdictInv

LEMMA InitRuns == TR!Init /\ None \notin RunEntry => RunInv
    BY DEF TR!Init, RunInv, EntryOK, VerdictInv

(* What a handler writes into an entry leaves it an entry. *)
LEMMA EntryChanges ==
    ASSUME NEW e \in RunEntry
    PROVE  /\ [e EXCEPT !["process"] = TRUE] \in RunEntry
           /\ \A b \in BOOLEAN : [e EXCEPT !["success"] = b] \in RunEntry
           /\ [e EXCEPT !["status"] = "completed"] \in RunEntry
           /\ [e EXCEPT !.status = "failed", !.internal = TRUE] \in RunEntry
           /\ [e EXCEPT !.status = "stopped", !.banner = TRUE] \in RunEntry
           /\ \A k \in TR!Streams : [e EXCEPT !.text[k] = @ + 1] \in RunEntry
<1>1. /\ [e EXCEPT !["process"] = TRUE] \in RunEntry
      /\ \A b \in BOOLEAN : [e EXCEPT !["success"] = b] \in RunEntry
      /\ [e EXCEPT !["status"] = "completed"] \in RunEntry
    BY DEF RunEntry
<1>2. /\ [e EXCEPT !.status = "failed", !.internal = TRUE] \in RunEntry
      /\ [e EXCEPT !.status = "stopped", !.banner = TRUE] \in RunEntry
    BY DEF RunEntry
<1>3. \A k \in TR!Streams : [e EXCEPT !.text[k] = @ + 1] \in RunEntry
    BY DEF RunEntry
<1> QED
    BY <1>1, <1>2, <1>3

LEMMA RunTestKeeps ==
    ASSUME RunInv, NEW r \in Runs, TR!RunTest(r)
    PROVE  RunInv'
<1>0. EntryOK /\ VerdictInv
    BY DEF RunInv
<1>1. EntryOK'
  <2>1. [status |-> "running", success |-> None, process |-> FALSE, internal |-> FALSE,
         banner |-> FALSE, text |-> [k \in TR!Streams |-> 0]] \in RunEntry
    BY DEF RunEntry
  <2>2. /\ entry' \in [Runs -> {None} \cup RunEntry] /\ entry'[r] \in RunEntry
        /\ \A h \in Runs : h # r => entry'[h] = entry[h]
    BY <1>0, <2>1 DEF TR!RunTest, EntryOK
  <2> QED
    BY <1>0, <2>2 DEF TR!RunTest, TR!GoRunner, EntryOK
<1>2. VerdictInv'
    BY <1>0, <1>1 DEF TR!RunTest, TR!GoRunner, EntryOK, VerdictInv, ReadersDone
<1> QED
    BY <1>1, <1>2 DEF RunInv

LEMMA SpawnKeeps ==
    ASSUME RunInv, NEW r \in Runs, TR!Spawn(r)
    PROVE  RunInv'
<1>0. EntryOK /\ VerdictInv
    BY DEF RunInv
<1>1. EntryOK'
    BY <1>0, EntryChanges DEF TR!Spawn, TR!GoRunner, EntryOK
<1>2. VerdictInv'
    BY <1>0, <1>1 DEF TR!Spawn, TR!GoRunner, EntryOK, VerdictInv, ReadersDone
<1> QED
    BY <1>1, <1>2 DEF RunInv

LEMMA PublishKeeps ==
    ASSUME RunInv, NEW r \in Runs, TR!Publish(r)
    PROVE  RunInv'
<1>0. EntryOK /\ VerdictInv
    BY DEF RunInv
<1>1. EntryOK'
    BY <1>0, EntryChanges DEF TR!Publish, TR!GoRunner, TR!Set, EntryOK
<1>2. VerdictInv'
    BY <1>0, <1>1 DEF TR!Publish, TR!GoRunner, TR!Set, EntryOK, VerdictInv, ReadersDone
<1> QED
    BY <1>1, <1>2 DEF RunInv

LEMMA ReapKeeps ==
    ASSUME RunInv, NEW r \in Runs, TR!Reap(r)
    PROVE  RunInv'
<1>0. EntryOK /\ VerdictInv
    BY DEF RunInv
<1>1. EntryOK'
    BY <1>0, EntryChanges DEF TR!Reap, TR!GoRunner, EntryOK
<1>2. VerdictInv'
    BY <1>0, <1>1 DEF TR!Reap, TR!GoRunner, VerdictInv, ReadersDone
<1> QED
    BY <1>1, <1>2 DEF RunInv

LEMMA DecideKeeps ==
    ASSUME RunInv, NEW r \in Runs, TR!Decide(r)
    PROVE  RunInv'
<1>0. EntryOK /\ VerdictInv
    BY DEF RunInv
<1>1. EntryOK'
    BY <1>0, EntryChanges DEF TR!Decide, TR!GoRunner, EntryOK
<1>2. VerdictInv'
    BY <1>0, <1>1 DEF TR!Decide, TR!GoRunner, VerdictInv, ReadersDone
<1> QED
    BY <1>1, <1>2 DEF RunInv

LEMMA SetSuccessKeeps ==
    ASSUME RunInv, NEW r \in Runs, TR!SetSuccess(r)
    PROVE  RunInv'
<1>0. EntryOK /\ VerdictInv
    BY DEF RunInv
<1>1. EntryOK'
    BY <1>0, EntryChanges DEF TR!SetSuccess, TR!GoRunner, TR!Set, EntryOK
<1>2. VerdictInv'
    BY <1>0, <1>1 DEF TR!SetSuccess, TR!GoRunner, TR!Set, EntryOK, VerdictInv, ReadersDone
<1> QED
    BY <1>1, <1>2 DEF RunInv

LEMMA CompleteKeeps ==
    ASSUME RunInv, NEW r \in Runs, TR!Complete(r)
    PROVE  RunInv'
<1>0. EntryOK /\ VerdictInv
    BY DEF RunInv
<1>1. EntryOK'
    BY <1>0, EntryChanges DEF TR!Complete, TR!GoRunner, TR!Set, EntryOK
<1>2. VerdictInv'
    BY <1>0, <1>1 DEF TR!Complete, TR!GoRunner, TR!Set, EntryOK, VerdictInv, ReadersDone
<1> QED
    BY <1>1, <1>2 DEF RunInv

LEMMA SpawnFailedKeeps ==
    ASSUME RunInv, NEW r \in Runs, TR!SpawnFailed(r)
    PROVE  RunInv'
<1>0. EntryOK /\ VerdictInv
    BY DEF RunInv
<1>1. EntryOK'
    BY <1>0, EntryChanges DEF TR!SpawnFailed, TR!GoRunner, EntryOK
<1>2. VerdictInv'
    BY <1>0, <1>1 DEF TR!SpawnFailed, TR!GoRunner, EntryOK, VerdictInv, ReadersDone
<1> QED
    BY <1>1, <1>2 DEF RunInv

LEMMA ReadStreamKeeps ==
    ASSUME RunInv, NEW r \in Runs, NEW k \in TR!Streams, TR!ReadStream(r, k)
    PROVE  RunInv'
<1>0. EntryOK /\ VerdictInv
    BY DEF RunInv
<1>1. EntryOK'
  <2>1. entry[r] \in RunEntry
    BY <1>0 DEF TR!ReadStream, EntryOK
  <2>2. CASE entry' = [entry EXCEPT ![r].text[k] = @ + 1] /\ UNCHANGED reader
    <3>1. /\ entry' \in [Runs -> {None} \cup RunEntry] /\ entry'[r] \in RunEntry
          /\ \A h \in Runs : h # r => entry'[h] = entry[h]
      BY <1>0, <2>1, <2>2, EntryChanges DEF EntryOK
    <3> QED
      BY <1>0, <2>2, <3>1 DEF TR!ReadStream, EntryOK
  <2>3. CASE reader' = [reader EXCEPT ![r][k] = "done"] /\ UNCHANGED entry
    BY <1>0, <2>1, <2>3 DEF TR!ReadStream, EntryOK
  <2> QED
    BY <2>2, <2>3 DEF TR!ReadStream
<1>2. VerdictInv'
    BY <1>0, <1>1 DEF TR!ReadStream, EntryOK, VerdictInv, ReadersDone, RunEntry
<1> QED
    BY <1>1, <1>2 DEF RunInv

LEMMA ScriptWriteKeeps ==
    ASSUME RunInv, NEW r \in Runs, NEW k \in TR!Streams, TR!Write(r, k)
    PROVE  RunInv'
<1>0. EntryOK /\ VerdictInv
    BY DEF RunInv
<1>1. EntryOK'
    BY <1>0, EntryChanges DEF TR!Write, EntryOK
<1>2. VerdictInv'
    BY <1>0, <1>1 DEF TR!Write, VerdictInv, ReadersDone
<1> QED
    BY <1>1, <1>2 DEF RunInv

LEMMA ScriptExitKeeps ==
    ASSUME RunInv, NEW r \in Runs, TR!Exit(r)
    PROVE  RunInv'
<1>0. EntryOK /\ VerdictInv
    BY DEF RunInv
<1>1. EntryOK'
    BY <1>0, EntryChanges DEF TR!Exit, EntryOK
<1>2. VerdictInv'
    BY <1>0, <1>1 DEF TR!Exit, VerdictInv, ReadersDone
<1> QED
    BY <1>1, <1>2 DEF RunInv

LEMMA StopCheckKeeps ==
    ASSUME RunInv, NEW t \in Threads, NEW r \in Runs, TR!StopCheck(t, r)
    PROVE  RunInv'
<1>0. EntryOK /\ VerdictInv
    BY DEF RunInv
<1>1. EntryOK'
  <2>1. entry[r] \in RunEntry
    BY <1>0 DEF TR!StopCheck, EntryOK
  <2> QED
    BY <1>0, <2>1 DEF TR!StopCheck, EntryOK
<1>2. VerdictInv'
    BY <1>0, <1>1 DEF TR!StopCheck, VerdictInv, ReadersDone
<1> QED
    BY <1>1, <1>2 DEF RunInv

LEMMA KillGroupKeeps ==
    ASSUME RunInv, NEW t \in Threads, TR!KillGroup(t)
    PROVE  RunInv'
<1>0. EntryOK /\ VerdictInv
    BY DEF RunInv
<1>1. EntryOK'
    BY <1>0, EntryChanges DEF TR!KillGroup, EntryOK
<1>2. VerdictInv'
    BY <1>0, <1>1 DEF TR!KillGroup, VerdictInv, ReadersDone
<1> QED
    BY <1>1, <1>2 DEF RunInv

LEMMA MarkStoppedKeeps ==
    ASSUME RunInv, NEW t \in Threads, TR!MarkStopped(t)
    PROVE  RunInv'
<1>0. EntryOK /\ VerdictInv
    BY DEF RunInv
<1>1. EntryOK'
  <2>1. stopper[t].run \in Runs /\ entry[stopper[t].run] \in RunEntry
    BY <1>0 DEF TR!MarkStopped, EntryOK
  <2>2. /\ entry' \in [Runs -> {None} \cup RunEntry] /\ entry'[stopper[t].run] \in RunEntry
        /\ \A h \in Runs : h # stopper[t].run => entry'[h] = entry[h]
    BY <1>0, <2>1, EntryChanges DEF TR!MarkStopped, EntryOK
  <2>3. /\ stopper' \in [Threads -> [pc : {"idle", "kill", "mark"}, run : Runs \cup {None}]]
        /\ stopper'[t].pc = "idle" /\ \A u \in Threads : u # t => stopper'[u] = stopper[u]
    BY <1>0 DEF TR!MarkStopped, EntryOK
  <2>4. \A h \in Runs : entry[h] \in RunEntry => entry'[h] \in RunEntry
    BY <2>2
  <2> QED
    BY <1>0, <2>2, <2>3, <2>4 DEF TR!MarkStopped, EntryOK
<1>2. VerdictInv'
  <2>1. stopper[t].run \in Runs /\ entry[stopper[t].run] \in RunEntry
    BY <1>0 DEF TR!MarkStopped, EntryOK
  <2>2. entry'[stopper[t].run].status = "stopped"
    BY <1>0, <2>1 DEF TR!MarkStopped, EntryOK, RunEntry
  <2>3. \A h \in Runs : h # stopper[t].run => entry'[h] = entry[h]
    BY <1>0, <2>1 DEF TR!MarkStopped, EntryOK
  <2>4. runner' = runner /\ reader' = reader
    BY DEF TR!MarkStopped
  <2> SUFFICES ASSUME NEW h \in Runs
               PROVE  /\ runner[h] \in {"success", "complete"} => ReadersDone(h)
                      /\ entry'[h] \in RunEntry /\ entry'[h].status = "completed"
                           => runner[h] = "end" /\ ReadersDone(h)
    BY <2>4 DEF VerdictInv, ReadersDone
  <2>5. entry'[h].status = "completed" => h # stopper[t].run
    BY <2>2
  <2> QED
    BY <1>0, <2>3, <2>5 DEF VerdictInv
<1> QED
    BY <1>1, <1>2 DEF RunInv

LEMMA RunKeeps == RunInv /\ [TR!Next]_(TR!vars) => RunInv'
<1> SUFFICES ASSUME RunInv, [TR!Next]_(TR!vars) PROVE RunInv'
    OBVIOUS
<1>1. CASE UNCHANGED TR!vars
    BY <1>1 DEF TR!vars, RunInv, EntryOK, VerdictInv, ReadersDone
<1>2. CASE \E r \in Runs : TR!RunTest(r) \/ TR!RunTask(r) \/ TR!Exit(r)
    BY <1>2, RunTestKeeps, SpawnKeeps, PublishKeeps, ReapKeeps, DecideKeeps, SetSuccessKeeps,
       CompleteKeeps, SpawnFailedKeeps, ScriptExitKeeps DEF TR!RunTask
<1>3. CASE \E r \in Runs : \E k \in TR!Streams : TR!ReadStream(r, k) \/ TR!Write(r, k)
    BY <1>3, ReadStreamKeeps, ScriptWriteKeeps
<1>4. CASE \E t \in Threads : (\E r \in Runs : TR!StopCheck(t, r)) \/ TR!KillGroup(t) \/ TR!MarkStopped(t)
    BY <1>4, StopCheckKeeps, KillGroupKeeps, MarkStoppedKeeps
<1> QED
    BY <1>1, <1>2, <1>3, <1>4 DEF TR!Next

(* Only a reader that is not done adds to the text of an entry. *)
LEMMA TextStays ==
    ASSUME RunInv, [TR!Next]_(TR!vars), NEW r \in Runs, entry[r] # None, entry[r].status = "completed"
    PROVE  entry'[r].text = entry[r].text
<1>1. entry[r] \in RunEntry /\ ReadersDone(r) /\ runner[r] = "end"
    BY DEF RunInv, EntryOK, VerdictInv
<1>2. \A e \in RunEntry : /\ [e EXCEPT !["process"] = TRUE].text = e.text
                          /\ \A b : [e EXCEPT !["success"] = b].text = e.text
                          /\ [e EXCEPT !["status"] = "completed"].text = e.text
                          /\ [e EXCEPT !.status = "failed", !.internal = TRUE].text = e.text
                          /\ [e EXCEPT !.status = "stopped", !.banner = TRUE].text = e.text
    BY DEF RunEntry
<1>3. CASE \E h \in Runs : TR!RunTest(h) \/ TR!RunTask(h) \/ TR!Exit(h)
  <2>1. PICK h \in Runs : TR!RunTest(h) \/ TR!RunTask(h) \/ TR!Exit(h)
    BY <1>3
  <2>2. entry'[r] = entry[r]
    BY <1>1, <2>1 DEF RunInv, EntryOK, TR!RunTest, TR!RunTask, TR!Exit, TR!Spawn, TR!Publish, TR!Reap, TR!Decide, TR!SetSuccess, TR!Complete, TR!SpawnFailed, TR!Set
  <2> QED
    BY <2>2
<1>4. CASE \E h \in Runs : \E k \in TR!Streams : TR!ReadStream(h, k) \/ TR!Write(h, k)
  <2>1. PICK h \in Runs, k \in TR!Streams : TR!ReadStream(h, k) \/ TR!Write(h, k)
    BY <1>4
  <2>2. entry'[r] = entry[r]
    BY <1>1, <2>1 DEF RunInv, EntryOK, ReadersDone, TR!ReadStream, TR!Write
  <2> QED
    BY <2>2
<1>5. CASE \E t \in Threads : (\E h \in Runs : TR!StopCheck(t, h)) \/ TR!KillGroup(t) \/ TR!MarkStopped(t)
  <2>1. PICK t \in Threads : (\E h \in Runs : TR!StopCheck(t, h)) \/ TR!KillGroup(t) \/ TR!MarkStopped(t)
    BY <1>5
  <2>2. \/ entry' = entry
        \/ entry' = [entry EXCEPT ![stopper[t].run].status = "stopped", ![stopper[t].run].banner = TRUE]
    BY <2>1 DEF TR!StopCheck, TR!KillGroup, TR!MarkStopped
  <2>3. CASE r # stopper[t].run \/ entry' = entry
    BY <2>2, <2>3 DEF RunInv, EntryOK
  <2>4. CASE r = stopper[t].run /\ entry' # entry
    <3>1. entry'[r] = [entry[r] EXCEPT !.status = "stopped", !.banner = TRUE]
      BY <2>2, <2>4 DEF RunInv, EntryOK
    <3> QED
      BY <1>1, <1>2, <3>1
  <2> QED
    BY <2>3, <2>4
<1> QED
    BY <1>3, <1>4, <1>5 DEF TR!Next, TR!vars

LEMMA RunsHold ==
    ASSUME None \notin RunEntry
    PROVE  TR!Init /\ [][TR!Next]_(TR!vars) => TR!CompletedIsFinal
<1>1. RunInv /\ [TR!Next]_(TR!vars)
        => [\A r \in Runs : (entry[r] # None /\ entry[r].status = "completed")
                                => entry'[r].text = entry[r].text]_(TR!vars)
    BY TextStays
<1> QED
    BY InitRuns, RunKeeps, <1>1, PTL DEF TR!CompletedIsFinal

-----------------------------------------------------------------------------
(*****************************************************************************)
(* The run of all parts.                                                     *)
(*****************************************************************************)
LEMMA WebRunComponents ==
    Spec => /\ SP!Init /\ [][SP!Next]_(SP!vars)
            /\ AS!Init /\ [][AS!Next]_(AS!vars)
            /\ API!Init /\ [][API!Next]_(API!vars)
            /\ DM!Init /\ [][DM!Next]_(DM!vars)
            /\ TR!Init /\ [][TR!Next]_(TR!vars)
<1>1. Init => SP!Init /\ AS!Init /\ API!Init /\ DM!Init /\ TR!Init
  BY DEF Init
<1>2. [Next]_vars => [SP!Next]_(SP!vars)
  BY DEF Next, vars, serviceVars, SP!vars
<1>3. [Next]_vars => [AS!Next]_(AS!vars)
  BY DEF Next, vars, adminVars, AS!vars
<1>4. [Next]_vars => [API!Next]_(API!vars)
  BY DEF Next, vars, apiVars, API!vars
<1>5. [Next]_vars => [DM!Next]_(DM!vars)
  BY DEF Next, vars, managerVars, DM!vars
<1>6. [Next]_vars => [TR!Next]_(TR!vars)
  BY DEF Next, vars, testVars, TR!vars
<1> QED  BY <1>1, <1>2, <1>3, <1>4, <1>5, <1>6, PTL DEF Spec

LEMMA WebConstants == NoneIsNew /\ AdminConstants /\ None \notin RunEntry
BY WebAssumption DEF NoneIsNew, AdminConstants, Processes, Services, SP!Children, RunEntry, TR!Streams

(* db_lifecycle_handler.py, analyzer_handler.py: with one client at a time, for     *)
(* any number of processes and request threads, no process that runs escapes the    *)
(* global a later stop reads, however requests fail and processes exit, and the      *)
(* analyzer's log is that of the analyzer that runs.                                 *)
THEOREM ServicesKeepTheirProcesses == Spec => []ServicesLoseNone
<1>1. SP!SerialClientsLoseNone /\ SP!SerialLogIsOwn => ServicesLoseNone
  BY DEF ServicesLoseNone
<1> QED  BY WebRunComponents, WebConstants, ServicesHold, <1>1, PTL

(* admin_handler.py:16-95, model_handler.py:20-80: whatever requests and training    *)
(* threads interleave, sampling finds a model with its tokenizer and the training    *)
(* flag and counter end up right; with one client the model's vocabulary is the      *)
(* tokenizer's and the configuration file is whole at rest.                          *)
THEOREM AdminStateStays == Spec => []AdminStateAgrees
<1>1. /\ AS!SampleHasBoth /\ AS!TrainingAtRest
      /\ AS!SerialVocabAgrees /\ AS!SerialFileWhole
      => AdminStateAgrees
  BY DEF AdminStateAgrees
<1> QED  BY WebRunComponents, WebConstants, AdminHolds, <1>1, PTL

(* server.py, dev/cli.py: a request whose connection holds has exactly one answer,   *)
(* and every command of the client is answered by the handler it is meant for, which *)
(* no handler before it in the list takes away.                                      *)
THEOREM RequestsAreAnsweredOnce == Spec => []ApiAnswersOnce
<1>1. API!OneAnswer /\ API!CliReachesHandler => ApiAnswersOnce
  BY DEF ApiAnswersOnce
<1> QED  BY WebRunComponents, ApiHolds, <1>1, PTL

(* database_manager.cpp:27-135: what was answered for is served until the process    *)
(* ends, and with one client at a time after every restart, but for an end while the *)
(* manifest was empty; what was written stays in its directory in any case.          *)
THEOREM DatabasesStay == Spec => []DatabasesAreKept
<1>1. DM!FirstRunKeepsPromises /\ DM!WrittenStays /\ DM!SerialPromisesKept => DatabasesAreKept
  BY DEF DatabasesAreKept
<1> QED  BY WebRunComponents, ManagerHolds, <1>1, PTL

(* testing_handler.py:84-89: a run is completed only after the threads that    *)
(* copy its output are joined, so that no stop and no reader changes the       *)
(* output of a completed run.                                                  *)
THEOREM CompletedRunsKeepOutput == Spec => TR!CompletedIsFinal
BY WebRunComponents, WebConstants, RunsHold, PTL
================================================================================
