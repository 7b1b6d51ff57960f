------------------------------ MODULE TestRunner ------------------------------
(* The test handler (testing_handler.py): every run of a test script is an     *)
(* entry of a dictionary under a fresh uuid, a thread that starts the script   *)
(* and waits for it, two threads that copy its output, and whatever requests   *)
(* stop it meanwhile.                                                          *)
EXTENDS Naturals

CONSTANTS Runs,      \* uuids of test runs
          Threads,   \* request threads that may stop a run
          MaxChars,  \* bound: characters a script writes
          None

Streams == {"stdout", "stderr"}

VARIABLES entry,    \* _tasks: the entry of a run, or None before it is requested
          script,   \* the bash process of a run
          runner,   \* the run_task thread of a run
          reader,   \* its read_stream threads
          stopper   \* the request threads that stop runs

vars == <<entry, script, runner, reader, stopper>>

Init ==
  /\ entry = [r \in Runs |-> None]
  /\ script = [r \in Runs |-> [state |-> "none", code |-> 0,
                               pipe |-> [k \in Streams |-> 0]]]
  /\ runner = [r \in Runs |-> "none"]
  /\ reader = [r \in Runs |-> [k \in Streams |-> "none"]]
  /\ stopper = [t \in Threads |-> [pc |-> "idle", run |-> None]]

Set(r, field, value) == entry' = [entry EXCEPT ![r][field] = value]
GoRunner(r, pc) == runner' = [runner EXCEPT ![r] = pc]

\* A request with a known script name: the entry, then the thread.
RunTest(r) ==
  /\ entry[r] = None
  /\ entry' = [entry EXCEPT ![r] = [status |-> "running", success |-> None, process |-> FALSE,
                                    internal |-> FALSE, banner |-> FALSE, text |-> [k \in Streams |-> 0]]]
  /\ GoRunner(r, "spawn")
  /\ UNCHANGED <<script, reader, stopper>>

(* run_task ---------------------------------------------------------------------*)

Spawn(r) ==
  /\ runner[r] = "spawn"
  /\ \/ /\ script' = [script EXCEPT ![r].state = "alive"]
        /\ GoRunner(r, "publish")
     \/ GoRunner(r, "except") /\ UNCHANGED script
  /\ UNCHANGED <<entry, reader, stopper>>

\* Until the process is in the entry a stop request is refused.
Publish(r) ==
  /\ runner[r] = "publish"
  /\ Set(r, "process", TRUE)
  /\ GoRunner(r, "wait")
  /\ reader' = [reader EXCEPT ![r] = [k \in Streams |-> "reading"]]
  /\ UNCHANGED <<script, stopper>>

\* wait() reaps the process; from here on its process group is gone.
Reap(r) ==
  /\ runner[r] = "wait" /\ script[r].state = "zombie"
  /\ script' = [script EXCEPT ![r].state = "reaped"]
  /\ GoRunner(r, "join")
  /\ UNCHANGED <<entry, reader, stopper>>

\* A plausible bug: the verdict without joining the reader threads.
DecideUnjoined(r) ==
  /\ runner[r] = "join"
  /\ GoRunner(r, IF entry[r].status = "running" THEN "success" ELSE "end")
  /\ UNCHANGED <<entry, script, reader, stopper>>

\* Both readers joined, then the look at the status.
Decide(r) ==
  /\ runner[r] = "join" /\ \A k \in Streams : reader[r][k] = "done"
  /\ GoRunner(r, IF entry[r].status = "running" THEN "success" ELSE "end")
  /\ UNCHANGED <<entry, script, reader, stopper>>

SetSuccess(r) ==
  /\ runner[r] = "success"
  /\ Set(r, "success", script[r].code = 0)
  /\ GoRunner(r, "complete")
  /\ UNCHANGED <<script, reader, stopper>>

Complete(r) ==
  /\ runner[r] = "complete"
  /\ Set(r, "status", "completed")
  /\ GoRunner(r, "end")
  /\ UNCHANGED <<script, reader, stopper>>

SpawnFailed(r) ==
  /\ runner[r] = "except"
  /\ entry' = [entry EXCEPT ![r].status = "failed", ![r].internal = TRUE]
  /\ GoRunner(r, "end")
  /\ UNCHANGED <<script, reader, stopper>>

RunTask(r) == Spawn(r) \/ Publish(r) \/ Reap(r) \/ Decide(r) \/ SetSuccess(r) \/ Complete(r)
              \/ SpawnFailed(r)

\* read(1) until the end of the stream.
ReadStream(r, k) ==
  /\ reader[r][k] = "reading"
  /\ \/ /\ script[r].pipe[k] > 0
        /\ script' = [script EXCEPT ![r].pipe[k] = @ - 1]
        /\ entry' = [entry EXCEPT ![r].text[k] = @ + 1]
        /\ UNCHANGED reader
     \/ /\ script[r].pipe[k] = 0 /\ script[r].state \in {"zombie", "reaped"}
        /\ reader' = [reader EXCEPT ![r][k] = "done"]
        /\ UNCHANGED <<entry, script>>
  /\ UNCHANGED <<runner, stopper>>

(* the script -------------------------------------------------------------------*)

Write(r, k) ==
  /\ script[r].state = "alive" /\ script[r].pipe[k] < MaxChars
  /\ entry[r].text[k] + script[r].pipe[k] < MaxChars
  /\ script' = [script EXCEPT ![r].pipe[k] = @ + 1]
  /\ UNCHANGED <<entry, runner, reader, stopper>>

Exit(r) ==
  /\ script[r].state = "alive"
  /\ \E code \in {0, 1} : script' = [script EXCEPT ![r].state = "zombie", ![r].code = code]
  /\ UNCHANGED <<entry, runner, reader, stopper>>

(* handle_stop_test --------------------------------------------------------------*)

StopCheck(t, r) ==
  /\ stopper[t].pc = "idle"
  /\ entry[r] # None /\ entry[r].status = "running" /\ entry[r].process
  /\ stopper' = [stopper EXCEPT ![t] = [pc |-> "kill", run |-> r]]
  /\ UNCHANGED <<entry, script, runner, reader>>

\* killpg: SIGTERM ends the script or is ignored by it; a reaped process has no
\* group any more and the request is answered with 500.
KillGroup(t) ==
  LET r == stopper[t].run IN
  /\ stopper[t].pc = "kill"
  /\ stopper' = [stopper EXCEPT ![t].pc = IF script[r].state = "reaped" THEN "idle" ELSE "mark"]
  /\ \/ UNCHANGED script
     \/ /\ script[r].state = "alive"
        /\ script' = [script EXCEPT ![r].state = "zombie", ![r].code = 1]
  /\ UNCHANGED <<entry, runner, reader>>

MarkStopped(t) ==
  /\ stopper[t].pc = "mark"
  /\ entry' = [entry EXCEPT ![stopper[t].run].status = "stopped",
                            ![stopper[t].run].banner = TRUE]
  /\ stopper' = [stopper EXCEPT ![t].pc = "idle"]
  /\ UNCHANGED <<script, runner, reader>>

Next == \/ \E r \in Runs : \/ RunTest(r) \/ RunTask(r) \/ Exit(r)
                           \/ \E k \in Streams : ReadStream(r, k) \/ Write(r, k)
        \/ \E t \in Threads : \/ \E r \in Runs : StopCheck(t, r)
                              \/ KillGroup(t) \/ MarkStopped(t)

Fairness ==
  /\ \A r \in Runs : WF_vars(RunTask(r)) /\ \A k \in Streams : WF_vars(ReadStream(r, k))
  /\ \A t \in Threads : WF_vars(KillGroup(t) \/ MarkStopped(t))

Spec == Init /\ [][Next]_vars /\ Fairness

\* A verdict comes after all the output: the script's text in a completed run
\* is what it was when the run was completed.
CompletedIsFinal ==
  [][\A r \in Runs : (entry[r] # None /\ entry[r].status = "completed")
                        => entry'[r].text = entry[r].text]_vars

\* A run whose script has ended is settled, whatever stops raced with the end.
EndedRunSettles ==
  \A r \in Runs : script[r].state \in {"zombie", "reaped"}
                    ~> (entry[r] # None /\ entry[r].status # "running")

\* "Update status only if it wasn't stopped manually": the status a stop request
\* wrote is never replaced.
StoppedStays ==
  [][\A r \in Runs : (entry[r] # None /\ entry[r].status = "stopped")
                        => entry'[r].status = "stopped"]_vars
================================================================================
