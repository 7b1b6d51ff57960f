------------------------------ MODULE TaskManager ------------------------------
(* The web platform's task manager (managers/task_manager.py): one dictionary  *)
(* of tasks, the request threads that start and stop tasks, and one reader     *)
(* thread per process that was started.  Nothing in the class is locked, so    *)
(* every look at the dictionary is a step of its own.  A refused request       *)
(* returns before it changes anything and is a stuttering step here.           *)
EXTENDS Naturals, FiniteSets

CONSTANTS Ids,        \* task ids a client may use
          Threads,    \* request threads of the server
          MaxStarts,  \* bound: processes ever started
          MaxLines,   \* bound: lines a process writes
          LogLimit,   \* log lines kept per task (1000 in the code)
          None        \* no task entry

VARIABLES tasks,    \* the dictionary: an entry or None for each id
          procs,    \* the processes of the operating system, by start order
          readers,  \* the reader thread of each process
          threads   \* the request threads

vars == <<tasks, procs, readers, threads>>

Procs == 1..MaxStarts
Status == {"running", "completed", "failed", "stopped"}

Unborn == [id |-> None, state |-> "unborn", code |-> 0, pipe |-> 0, written |-> 0]
Idle == [pc |-> "idle", id |-> None, p |-> 0]

Running(id) == tasks[id] # None /\ tasks[id].status = "running"
Alive(p) == procs[p].state = "alive"

Init ==
  /\ tasks = [id \in Ids |-> None]
  /\ procs = [p \in Procs |-> Unborn]
  /\ readers = [p \in Procs |-> "none"]
  /\ threads = [t \in Threads |-> Idle]

\* A thread moves to pc; the other fields of its record stay.
Goto(t, pc) == threads' = [threads EXCEPT ![t].pc = pc]

\* The thread's request is answered.
Reply(t) == threads' = [threads EXCEPT ![t] = Idle]

(* start_task ----------------------------------------------------------------*)

\* The check of start_task: the id is free, or its last task has ended.
StartCheck(t, id) ==
  /\ threads[t].pc = "idle"
  /\ ~Running(id)
  /\ threads' = [threads EXCEPT ![t] = [pc |-> "spawn", id |-> id, p |-> 0]]
  /\ UNCHANGED <<tasks, procs, readers>>

\* Popen in a session of its own.
Spawn(t) ==
  /\ threads[t].pc = "spawn"
  /\ \E p \in Procs :
       /\ procs[p].state = "unborn" /\ \A q \in 1..(p - 1) : procs[q].state # "unborn"
       /\ procs' = [procs EXCEPT ![p].state = "alive", ![p].id = threads[t].id]
       /\ threads' = [threads EXCEPT ![t].pc = "record", ![t].p = p]
  /\ UNCHANGED <<tasks, readers>>

\* The new entry replaces whatever the id had.
Record(t) ==
  /\ threads[t].pc = "record"
  /\ tasks' = [tasks EXCEPT ![threads[t].id] =
                 [process |-> threads[t].p, status |-> "running", logs |-> 0]]
  /\ Goto(t, "reader")
  /\ UNCHANGED <<procs, readers>>

StartReader(t) ==
  /\ threads[t].pc = "reader"
  /\ readers' = [readers EXCEPT ![threads[t].p] = "reading"]
  /\ Reply(t)
  /\ UNCHANGED <<tasks, procs>>

(* the process and its reader thread -------------------------------------------*)

WriteLine(p) ==
  /\ Alive(p) /\ procs[p].written < MaxLines
  /\ procs' = [procs EXCEPT ![p].pipe = @ + 1, ![p].written = @ + 1]
  /\ UNCHANGED <<tasks, readers, threads>>

Exit(p) ==
  /\ Alive(p)
  /\ \E code \in {0, 1} :
       procs' = [procs EXCEPT ![p].state = "exited", ![p].code = code]
  /\ UNCHANGED <<tasks, readers, threads>>

\* The reader looks its id up again for every line: the entry it appends to is
\* the one the dictionary holds now.
AppendLine(p) ==
  /\ readers[p] = "reading" /\ procs[p].pipe > 0
  /\ procs' = [procs EXCEPT ![p].pipe = @ - 1]
  /\ tasks' = [tasks EXCEPT ![procs[p].id].logs = @ + 1]
  /\ readers' = [readers EXCEPT ![p] = "measure"]
  /\ UNCHANGED threads

MeasureLogs(p) ==
  /\ readers[p] = "measure"
  /\ readers' = [readers EXCEPT ![p] =
                   IF tasks[procs[p].id].logs > LogLimit THEN "pop" ELSE "reading"]
  /\ UNCHANGED <<tasks, procs, threads>>

\* pop(0) of an empty list raises and ends the reader thread.
DropOldest(p) ==
  LET id == procs[p].id IN
  /\ readers[p] = "pop"
  /\ tasks' = [tasks EXCEPT ![id].logs = IF @ > 0 THEN @ - 1 ELSE 0]
  /\ readers' = [readers EXCEPT ![p] = IF tasks[id].logs > 0 THEN "reading" ELSE "crashed"]
  /\ UNCHANGED <<procs, threads>>

\* End of file, wait(), and the verdict, in whatever entry the id has now.
Verdict(p) == IF procs[p].code = 0 THEN "completed" ELSE "failed"

\* A plausible bug: a check that the entry is still this process's, the wrong way round.
FinishForOthers(p) ==
  /\ readers[p] = "reading" /\ procs[p].pipe = 0 /\ procs[p].state = "exited"
  /\ tasks' = IF tasks[procs[p].id].process = p THEN tasks
              ELSE [tasks EXCEPT ![procs[p].id].status = Verdict(p)]
  /\ readers' = [readers EXCEPT ![p] = "done"]
  /\ UNCHANGED <<procs, threads>>

Finish(p) ==
  /\ readers[p] = "reading" /\ procs[p].pipe = 0 /\ procs[p].state = "exited"
  /\ tasks' = [tasks EXCEPT ![procs[p].id].status = Verdict(p)]
  /\ readers' = [readers EXCEPT ![p] = "done"]
  /\ UNCHANGED <<procs, threads>>

(* stop_task -------------------------------------------------------------------*)

StopCheck(t, id) ==
  /\ threads[t].pc = "idle"
  /\ Running(id)
  /\ threads' = [threads EXCEPT ![t] = [pc |-> "signal", id |-> id, p |-> 0]]
  /\ UNCHANGED <<tasks, procs, readers>>

\* The process is read after the check; SIGTERM asks it to exit, nothing more.
Signal(t) ==
  /\ threads[t].pc = "signal"
  /\ threads' = [threads EXCEPT ![t].pc = "wait", ![t].p = tasks[threads[t].id].process]
  /\ UNCHANGED <<tasks, procs, readers>>

WaitReturns(t) ==
  /\ threads[t].pc = "wait" /\ ~Alive(threads[t].p)
  /\ Goto(t, "mark")
  /\ UNCHANGED <<tasks, procs, readers>>

\* Five seconds have passed: SIGKILL to the group, which no process survives.
WaitTimesOut(t) ==
  /\ threads[t].pc = "wait" /\ Alive(threads[t].p)
  /\ procs' = [procs EXCEPT ![threads[t].p].state = "exited", ![threads[t].p].code = 1]
  /\ Goto(t, "mark")
  /\ UNCHANGED <<tasks, readers>>

MarkStopped(t) ==
  /\ threads[t].pc = "mark"
  /\ tasks' = [tasks EXCEPT ![threads[t].id].status = "stopped"]
  /\ Reply(t)
  /\ UNCHANGED <<procs, readers>>

StartTask(t) == (\E id \in Ids : StartCheck(t, id)) \/ Spawn(t) \/ Record(t) \/ StartReader(t)
StopTask(t) == \/ \E id \in Ids : StopCheck(t, id)
               \/ Signal(t) \/ WaitReturns(t) \/ WaitTimesOut(t) \/ MarkStopped(t)
ReadLogs(p) == AppendLine(p) \/ MeasureLogs(p) \/ DropOldest(p) \/ Finish(p)

Next == \/ \E t \in Threads : StartTask(t) \/ StopTask(t)
        \/ \E p \in Procs : WriteLine(p) \/ Exit(p) \/ ReadLogs(p)

\* The operating system schedules every thread that can run.  Nothing makes a
\* client send a request or a process write or exit.
Fairness ==
  /\ \A t \in Threads : WF_vars(Spawn(t) \/ Record(t) \/ StartReader(t) \/ Signal(t)
                                \/ WaitReturns(t) \/ WaitTimesOut(t) \/ MarkStopped(t))
  /\ \A p \in Procs : WF_vars(ReadLogs(p))

Spec == Init /\ [][Next]_vars /\ Fairness

Entry == [process : Procs, status : Status, logs : Nat]
Process == [id : Ids \cup {None}, state : {"unborn", "alive", "exited"}, code : {0, 1},
            pipe : Nat, written : Nat]
Thread == [pc : {"idle", "spawn", "record", "reader", "signal", "wait", "mark"},
           id : Ids \cup {None}, p : Procs \cup {0}]

TypeOK ==
  /\ tasks \in [Ids -> {None} \cup Entry]
  /\ procs \in [Procs -> Process]
  /\ readers \in [Procs -> {"none", "reading", "measure", "pop", "done", "crashed"}]
  /\ threads \in [Threads -> Thread]

\* The processes an id was ever started with.
StartsOf(id) == {p \in Procs : procs[p].state # "unborn" /\ procs[p].id = id}

\* A process is tracked while its task says it is running.
Tracked(p) == \E id \in Ids : Running(id) /\ tasks[id].process = p

\* Popen has returned to a thread that has yet to enter the process.
BeingRecorded(p) == \E t \in Threads : threads[t].pc = "record" /\ threads[t].p = p

\* "Eliminates Process Orphanage by tracking all spawned tasks": a live process
\* is the process of a task that is running.
NoOrphans == \A p \in Procs : Alive(p) => BeingRecorded(p) \/ Tracked(p)

\* Orphans come only from a second start of an id: the only process of an id is
\* tracked for as long as it lives, however its stops and its reader interleave.
OnlyProcessTracked ==
  \A p \in Procs : Alive(p) /\ StartsOf(procs[p].id) = {p} => BeingRecorded(p) \/ Tracked(p)

\* The log of a task is kept near its limit: only lines that readers have added
\* and not yet weighed exceed it, though several readers share the list.
LogsBounded ==
  \A id \in Ids : tasks[id] # None =>
    tasks[id].logs <= LogLimit
                      + Cardinality({p \in StartsOf(id) : readers[p] \in {"measure", "pop"}})

\* A task whose process has ended is not reported as running for ever.
EndIsNoticed ==
  \A id \in Ids, p \in Procs :
    (Running(id) /\ tasks[id].process = p /\ ~Alive(p))
      ~> ~(Running(id) /\ tasks[id].process = p)
================================================================================
