------------------------------ MODULE NexusFlow ------------------------------
(* The integration script (integrations/tissdb_integration.py): it starts the  *)
(* TissDB server, fills it with graphs (migration_tools/populate_nexus_db.py), *)
(* reads them back (nexus_flow_integration.py), asks the model server with     *)
(* them as context and leaves the answer in a file.                            *)
(* Every call to the database is a step during which the server may answer,    *)
(* refuse, stop answering or die.                                              *)
EXTENDS Naturals, Sequences, SequencesExt, FiniteSets

CONSTANTS Graphs,       \* ids of the graphs, in the order they are written
          Retries       \* check_db_connection's retries

VARIABLES server,    \* the TissDB process: "none", "starting", "up", "hung", "dead"
          store,     \* what it holds: "db", "collection" and the graphs
          pc,        \* where the script is
          tries,     \* tries of check_db_connection left
          context,   \* NEXUS_GRAPH_DATA
          prompt,    \* the graphs that went with the prompt
          output     \* the output file: "none", "cut" while it is written, "answer", "error"

vars == <<server, store, pc, tries, context, prompt, output>>

\* A place in the script; put and get have one for every graph.
At(step) == <<step, 0>>

Init ==
  /\ server = "none" /\ store = {} /\ pc = At("start") /\ tries = Retries
  /\ context = <<>> /\ prompt = <<>> /\ output = "none"

(* the server process --------------------------------------------------------------*)

Comes == /\ server = "starting" /\ server' = "up" /\ UNCHANGED <<store, pc, tries, context, prompt, output>>
Hangs == /\ server \in {"starting", "up"} /\ server' = "hung" /\ UNCHANGED <<store, pc, tries, context, prompt, output>>
Dies  == /\ server \in {"starting", "up", "hung"} /\ server' = "dead"
         /\ UNCHANGED <<store, pc, tries, context, prompt, output>>

(* starting and populating ----------------------------------------------------------*)

\* No executable: the script ends.
StartTissdb ==
  /\ pc = At("start")
  /\ \/ pc' = At("aborted") /\ UNCHANGED server
     \/ pc' = At("health") /\ server' = "starting"
  /\ UNCHANGED <<store, tries, context, prompt, output>>

\* A try that fails is followed by another after a delay, until none is left: then
\* nothing is populated, and start_tissdb goes on all the same.
CheckConnection ==
  /\ pc = At("health")
  /\ \/ server = "up" /\ pc' = At("databases") /\ UNCHANGED tries
     \/ /\ tries' = tries - 1
        /\ pc' = IF tries = 1 THEN At("poll") ELSE pc
  /\ UNCHANGED <<server, store, context, prompt, output>>

\* A request answered, with the effect it has on the server.
Answered(step, after, effect) ==
  /\ pc = step /\ server = "up"
  /\ pc' = after /\ store' = store \cup effect
  /\ UNCHANGED <<server, tries, context, prompt, output>>
\* A request that raises: refused, or cut off by its timeout when it has one.  A
\* server that hangs may have done what it was asked.
Raised(step, after, timeout, effect) ==
  /\ pc = step /\ (server # "hung" \/ timeout)
  /\ pc' = after
  /\ store' \in IF server \in {"hung", "up"} THEN {store, store \cup effect} ELSE {store}
  /\ UNCHANGED <<server, tries, context, prompt, output>>

\* A plausible bug: a database that could not be made does not end the population.
SetupDatabaseGoesOn ==
  \/ Answered(At("databases"), IF "db" \in store THEN At("collections") ELSE At("create db"), {})
  \/ Raised(At("databases"), At("poll"), TRUE, {})
  \/ Answered(At("create db"), At("collections"), {"db"})
  \/ Raised(At("create db"), At("collections"), FALSE, {"db"})

\* setup_database looks before it creates; only the looking has a timeout, and any
\* failure ends the population.
SetupDatabase ==
  \/ Answered(At("databases"), IF "db" \in store THEN At("collections") ELSE At("create db"), {})
  \/ Raised(At("databases"), At("poll"), TRUE, {})
  \/ Answered(At("create db"), At("collections"), {"db"})
  \/ Raised(At("create db"), At("poll"), FALSE, {"db"})
SetupCollection ==
  \/ Answered(At("collections"), IF "collection" \in store THEN <<"put", 1>> ELSE At("create collection"), {})
  \/ Raised(At("collections"), At("poll"), TRUE, {})
  \/ Answered(At("create collection"), <<"put", 1>>, {"collection"})
  \/ Raised(At("create collection"), At("poll"), FALSE, {"collection"})

\* A graph that cannot be written is logged, and the next one is tried.
PopulateGraphs ==
  \E i \in DOMAIN Graphs :
    LET after == IF i = Len(Graphs) THEN At("poll") ELSE <<"put", i + 1>> IN
    \/ Answered(<<"put", i>>, after, {Graphs[i]})
    \/ Raised(<<"put", i>>, after, TRUE, {Graphs[i]})

(* the hook, the model, the file ------------------------------------------------------*)

\* A server process that has ended by now aborts the script.
PollServer ==
  /\ pc = At("poll")
  /\ pc' = IF server = "dead" THEN At("aborted") ELSE <<"get", 1>>
  /\ UNCHANGED <<server, store, tries, context, prompt, output>>

\* A graph that is missing, or cannot be read, is left out.
GetGraph ==
  \E i \in DOMAIN Graphs :
    /\ pc = <<"get", i>>
    /\ \/ server = "up" /\ Graphs[i] \in store /\ context' = Append(context, Graphs[i])
       \/ UNCHANGED context
    /\ pc' = IF i = Len(Graphs) THEN At("ask") ELSE <<"get", i + 1>>
    /\ UNCHANGED <<server, store, tries, prompt, output>>

\* The context goes before the prompt; there is none without graphs.
Ask ==
  /\ pc = At("ask") /\ prompt' = context
  /\ pc' \in {At("write answer"), At("write error")}
  /\ UNCHANGED <<server, store, tries, context, output>>

\* open("w") empties the file, the write fills it: an answer or what went wrong.
\* A failed write of the answer is what went wrong, too.
Write == [answer |-> "write answer", error |-> "write error"]
Fill == [answer |-> "fill answer", error |-> "fill error"]
OpenOutput(result) ==
  /\ pc = At(Write[result])
  /\ output' = "cut" /\ pc' = At(Fill[result])
  /\ UNCHANGED <<server, store, tries, context, prompt>>
FillOutput(result) ==
  /\ pc = At(Fill[result])
  /\ \/ output' = result /\ pc' = At("ready")
     \/ result = "answer" /\ pc' = At("write error") /\ UNCHANGED output
  /\ UNCHANGED <<server, store, tries, context, prompt>>

Shutdown ==
  /\ pc = At("ready") /\ pc' = At("stopped") /\ server' = "dead"
  /\ UNCHANGED <<store, tries, context, prompt, output>>

Next ==
  \/ Comes \/ Hangs \/ Dies \/ StartTissdb \/ CheckConnection \/ SetupDatabase
  \/ SetupCollection \/ PopulateGraphs \/ PollServer \/ GetGraph \/ Ask \/ Shutdown
  \/ \E result \in {"answer", "error"} : OpenOutput(result) \/ FillOutput(result)

Progress ==
  \/ StartTissdb \/ CheckConnection \/ SetupDatabase \/ SetupCollection \/ PopulateGraphs
  \/ PollServer \/ GetGraph \/ Ask
  \/ \E result \in {"answer", "error"} : OpenOutput(result) \/ FillOutput(result)

Spec == Init /\ [][Next]_vars /\ WF_vars(Progress)

(* properties --------------------------------------------------------------------------*)

\* A collection is not made in a database that is not there, nor a graph put in a
\* collection that is not, whichever requests failed.
StoreIsBuiltInOrder ==
  /\ "collection" \in store => "db" \in store
  /\ Range(Graphs) \cap store # {} => "collection" \in store

\* The graphs that go with the prompt were read from the server, each once, in the
\* order they were asked for.
ContextIsRead ==
  /\ Range(prompt) \subseteq store
  /\ \E place \in [DOMAIN context -> DOMAIN Graphs] : \A i \in DOMAIN context :
       /\ context[i] = Graphs[place[i]]
       /\ \A j \in DOMAIN context : i < j => place[i] < place[j]

\* The script ends up serving an answer or an error, or aborts; the one thing that
\* holds it for ever is a server that hangs on one of the two requests that have no
\* timeout.
ScriptSettles ==
  <>[](\/ pc \in {At("ready"), At("stopped"), At("aborted")}
       \/ server = "hung" /\ pc \in {At("create db"), At("create collection")})
==============================================================================
