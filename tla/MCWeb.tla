--------------------------------- MODULE MCWeb ---------------------------------
(* The servers whose request threads share tables and files, for TLC: the web  *)
(* platform's parts, and TissDB's database manager.  They share no state across *)
(* these modules, so each behaviour picks one part at the start and only that   *)
(* part moves: the state spaces add up instead of multiplying.                  *)
EXTENDS Naturals, FiniteSets

CONSTANTS Ids, Threads, MaxStarts, MaxLines, LogLimit, MaxProcs, Runs, MaxChars,
          Vocabs, TokenizerVocab, MaxProgress, MaxTrainings, Names,
          SerialRestarts, OtherRestarts,  \* bounds: ends of the process with one client, and more
          None

VARIABLES part,
          tasks, procs, readers, threads,
          handle, child, log, request, clients,
          entry, script, runner, reader, stopper,
          config, file, active, progress, trainer, tokenizer, model, adminRequest, adminClients,
          pc, call, next, replies, broke,
          phase, databases, disk, manifest, dbThreads, dbClients, promise, torn, ends

TM == INSTANCE TaskManager
SP == INSTANCE ServiceProcess WITH Services <- {"db", "analyzer"}
TR == INSTANCE TestRunner
AS == INSTANCE AdminService WITH request <- adminRequest, clients <- adminClients,
                                 Trainings <- 1..MaxTrainings
API == INSTANCE ApiServer WITH request <- call
DM == INSTANCE DatabaseManager WITH threads <- dbThreads, clients <- dbClients,
                  MaxRestarts <- [c \in Nat |-> IF c = 1 THEN SerialRestarts ELSE OtherRestarts]

\* Threads and databases are finitely many, and None is no process, record or size.
ASSUME WebAssumption ==
  /\ IsFiniteSet(Threads) /\ IsFiniteSet(Names)
  /\ None \notin 1..MaxProcs
  /\ None \notin [service : {"db", "analyzer"}, alive : BOOLEAN]
  /\ None \notin Vocabs \cup {TokenizerVocab}
  /\ None \notin [status : {"running", "stopped", "completed", "failed"},
                  success : {None} \cup BOOLEAN, process : BOOLEAN, internal : BOOLEAN,
                  banner : BOOLEAN, text : [{"stdout", "stderr"} -> Nat]]

Parts == {"tasks", "services", "tests", "admin", "api", "databases"}

taskVars == <<tasks, procs, readers, threads>>
serviceVars == <<handle, child, log, request, clients>>
testVars == <<entry, script, runner, reader, stopper>>
adminVars == <<config, file, active, progress, trainer, tokenizer, model, adminRequest,
               adminClients>>
apiVars == <<pc, call, next, replies, broke>>
managerVars == <<phase, databases, disk, manifest, dbThreads, dbClients, promise, torn, ends>>
vars == <<part, taskVars, serviceVars, testVars, adminVars, apiVars, managerVars>>

\* A part that does not move has one initial state.
Init ==
  /\ part \in Parts
  /\ TM!Init /\ SP!Init /\ TR!Init /\ AS!Init /\ API!Init /\ DM!Init
  /\ part # "services" => clients = 1
  /\ part # "admin" => adminClients = 1 /\ config = TokenizerVocab
  /\ part # "databases" => dbClients = 1

Next ==
  /\ UNCHANGED part
  /\ \/ /\ part = "tasks" /\ TM!Next
        /\ UNCHANGED <<serviceVars, testVars, adminVars, apiVars, managerVars>>
     \/ /\ part = "services" /\ SP!Next
        /\ UNCHANGED <<taskVars, testVars, adminVars, apiVars, managerVars>>
     \/ /\ part = "tests" /\ TR!Next
        /\ UNCHANGED <<taskVars, serviceVars, adminVars, apiVars, managerVars>>
     \/ /\ part = "admin" /\ AS!Next
        /\ UNCHANGED <<taskVars, serviceVars, testVars, apiVars, managerVars>>
     \/ /\ part = "api" /\ API!Next
        /\ UNCHANGED <<taskVars, serviceVars, testVars, adminVars, managerVars>>
     \/ /\ part = "databases" /\ DM!Next
        /\ UNCHANGED <<taskVars, serviceVars, testVars, adminVars, apiVars>>

Spec == Init /\ [][Next]_vars /\ TM!Fairness /\ TR!Fairness

\* TaskManager: a process whose id was started once is tracked for as long as it
\* lives, however stops, exits and the reader interleave; a log exceeds its limit by no
\* more than the lines whose readers have not weighed them yet; and a task whose process
\* has ended stops being reported as running.
TasksAreTracked ==
  /\ [](part = "tasks" => TM!OnlyProcessTracked /\ TM!LogsBounded)
  /\ TM!EndIsNoticed

\* ServiceProcess: with one client at a time no database or analyzer process escapes
\* the global a later stop reads, and the analyzer's log is the running analyzer's own.
ServicesLoseNone ==
  part = "services" => SP!SerialClientsLoseNone /\ SP!SerialLogIsOwn

\* TestRunner: a run is completed only after all of its output was copied, and a run
\* whose script has ended is settled.
TestsSettle == TR!CompletedIsFinal /\ TR!EndedRunSettles

\* AdminService: a generate request that samples has a model and a tokenizer, and when
\* all training threads have ended flag and counter say so; with one client the model's
\* vocabulary is the tokenizer's and the configuration file is whole at rest.
AdminStateAgrees ==
  part = "admin" => /\ AS!SampleHasBoth /\ AS!TrainingAtRest
                    /\ AS!SerialVocabAgrees /\ AS!SerialFileWhole

\* ApiServer: a request has one answer unless the connection broke, and every command
\* of the client reaches the handler it is meant for.
ApiAnswersOnce == part = "api" => API!OneAnswer /\ API!CliReachesHandler

\* DatabaseManager: what was answered for is served until the process ends, and with one
\* client at a time after every restart, but for an end while the manifest was empty;
\* what was written stays in its directory in any case.
DatabasesAreKept ==
  part = "databases" => DM!FirstRunKeepsPromises /\ DM!WrittenStays /\ DM!SerialPromisesKept
================================================================================
