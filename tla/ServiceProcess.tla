---------------------------- MODULE ServiceProcess ----------------------------
(* The handlers that keep one child process in a module global: the database   *)
(* (db_lifecycle_handler.py) and the analyzer (analyzer_handler.py).  Both are  *)
(* written the same way: start checks the global and spawns, stop terminates,   *)
(* waits five seconds and clears the global, and any exception kills and        *)
(* clears.  The global is read anew at every use and no lock is held, so every  *)
(* use is a step.  Requests that are refused change nothing and are stuttering  *)
(* steps, as are the status and log requests, which only read.                  *)
EXTENDS Naturals, FiniteSets

CONSTANTS Services,   \* {"db", "analyzer"} or a part of it
          Threads,    \* request threads of the server
          MaxProcs,   \* bound: processes ever started
          None        \* the global holds no process

VARIABLES handle,   \* the global of each service: a process or None
          child,    \* the processes: unborn, or the service and whether it runs
          log,      \* the analyzer's log file: the process that wrote it, or None
          request,  \* what each request thread is doing
          clients   \* how many clients send requests at the same time

vars == <<handle, child, log, request, clients>>

Children == 1..MaxProcs
Idle == [pc |-> "idle", service |-> None, p |-> None]
Alive(p) == child[p] # None /\ child[p].alive

\* `_process and _process.poll() is None`
Up(s) == handle[s] # None /\ Alive(handle[s])

Init ==
  /\ handle = [s \in Services |-> None]
  /\ child = [p \in Children |-> None]
  /\ log = None
  /\ request = [t \in Threads |-> Idle]
  /\ clients \in 1..Cardinality(Threads)

Busy == {t \in Threads : request[t].pc # "idle"}

\* A client sends a request: thread t runs its first step.
Receive(t, s, pc) ==
  /\ request[t].pc = "idle" /\ Cardinality(Busy) < clients
  /\ request' = [request EXCEPT ![t] = [pc |-> pc, service |-> s, p |-> None]]
  /\ UNCHANGED <<handle, child, log, clients>>

At(t, s, pc) == request[t].pc = pc /\ request[t].service = s
Goto(t, pc) == request' = [request EXCEPT ![t].pc = pc]
Reply(t) == request' = [request EXCEPT ![t] = Idle]

(* start -----------------------------------------------------------------------*)

\* Popen, which may fail, and then the global; a failure is answered with 500.
Popen(t, s) ==
  /\ \/ \E p \in Children :
          /\ child[p] = None /\ \A q \in 1..(p - 1) : child[q] # None
          /\ child' = [child EXCEPT ![p] = [service |-> s, alive |-> TRUE]]
          /\ request' = [request EXCEPT ![t].pc = "assign", ![t].p = p]
     \/ Reply(t) /\ UNCHANGED child
  /\ UNCHANGED <<handle, log, clients>>

Assign(t, s) ==
  /\ At(t, s, "assign")
  /\ handle' = [handle EXCEPT ![s] = request[t].p]
  /\ Reply(t)
  /\ UNCHANGED <<child, log, clients>>

\* A plausible bug: start without the look at the global.
StartDbAgain(t) ==
  \/ Receive(t, "db", "popen")
  \/ At(t, "db", "popen") /\ Popen(t, "db")
  \/ Assign(t, "db")

\* The database needs its binary: without it the request ends in Popen's failure.
StartDb(t) ==
  \/ ~Up("db") /\ Receive(t, "db", "popen")
  \/ At(t, "db", "popen") /\ Popen(t, "db")
  \/ Assign(t, "db")

\* The analyzer's old log is removed before the new process is spawned.
StartAnalyzer(t) ==
  \/ ~Up("analyzer") /\ Receive(t, "analyzer", "clear_log")
  \/ /\ At(t, "analyzer", "clear_log")
     /\ log' = None
     /\ Goto(t, "popen")
     /\ UNCHANGED <<handle, child, clients>>
  \/ At(t, "analyzer", "popen") /\ Popen(t, "analyzer")
  \/ Assign(t, "analyzer")

(* stop ------------------------------------------------------------------------*)

\* terminate() on None raises; on a process it only asks it to end.
Terminate(t, s) ==
  /\ At(t, s, "terminate")
  /\ Goto(t, IF handle[s] = None THEN "except" ELSE "wait")
  /\ UNCHANGED <<handle, child, log, clients>>

\* The global is read again for wait(), which may be another process by now.
StartWait(t, s) ==
  /\ At(t, s, "wait")
  /\ request' = [request EXCEPT ![t].p = handle[s],
                                ![t].pc = IF handle[s] = None THEN "except" ELSE "waiting"]
  /\ UNCHANGED <<handle, child, log, clients>>

\* The wait ends when the process has, or raises after five seconds.
EndWait(t, s) ==
  /\ At(t, s, "waiting")
  /\ Goto(t, IF Alive(request[t].p) THEN "except" ELSE "clear")
  /\ UNCHANGED <<handle, child, log, clients>>

Kill(t, s) ==
  /\ At(t, s, "except")
  /\ child' = IF handle[s] = None THEN child ELSE [child EXCEPT ![handle[s]].alive = FALSE]
  /\ Goto(t, "clear")
  /\ UNCHANGED <<handle, log, clients>>

Clear(t, s) ==
  /\ At(t, s, "clear")
  /\ handle' = [handle EXCEPT ![s] = None]
  /\ Reply(t)
  /\ UNCHANGED <<child, log, clients>>

Stopping(t, s) == Terminate(t, s) \/ StartWait(t, s) \/ EndWait(t, s) \/ Kill(t, s) \/ Clear(t, s)

StopDb(t) == (Up("db") /\ Receive(t, "db", "terminate")) \/ Stopping(t, "db")
StopAnalyzer(t) ==
  (Up("analyzer") /\ Receive(t, "analyzer", "terminate")) \/ Stopping(t, "analyzer")

(* the processes ----------------------------------------------------------------*)

Exit(p) ==
  /\ Alive(p)
  /\ child' = [child EXCEPT ![p].alive = FALSE]
  /\ UNCHANGED <<handle, log, request, clients>>

WriteLog(p) ==
  /\ Alive(p) /\ child[p].service = "analyzer"
  /\ log' = p
  /\ UNCHANGED <<handle, child, request, clients>>

Next == \/ \E t \in Threads : StartDb(t) \/ StartAnalyzer(t) \/ StopDb(t) \/ StopAnalyzer(t)
        \/ \E p \in Children : Exit(p) \/ WriteLog(p)

Spec == Init /\ [][Next]_vars

\* A process whose Popen has returned to a thread that has yet to assign it.
BeingAssigned(p) == \E t \in Threads : request[t].pc = "assign" /\ request[t].p = p

\* While clients send one request at a time no process escapes: a live process
\* is the one its service's global holds, so a later stop can end it.
SerialClientsLoseNone ==
  clients = 1 => \A p \in Children :
                   Alive(p) => BeingAssigned(p) \/ handle[child[p].service] = p

\* And then the analyzer's log never holds lines of an analyzer that was
\* replaced by the one now running.
SerialLogIsOwn ==
  (clients = 1 /\ log # None /\ Up("analyzer")) => log = handle["analyzer"]
================================================================================
