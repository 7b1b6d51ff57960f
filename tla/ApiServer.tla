------------------------------- MODULE ApiServer -------------------------------
(* One request through the web platform's server (server.py), from the method  *)
(* of the connection to the handler that serves its endpoint, and the          *)
(* development client that sends such requests (dev/cli.py).  What the handlers *)
(* do to shared state is in the modules of the handlers; here a handler is its  *)
(* endpoint and the ways its answer can go wrong.                              *)
EXTENDS Naturals, Sequences

VARIABLES pc,       \* where the request is in the server
          request,  \* method, endpoint, body, and the client that sent it
          next,     \* index of the handler to try
          replies,  \* the status lines written to the connection, with their bodies
          broke     \* the answer failed after its status line was written

vars == <<pc, request, next, replies, broke>>

Methods == {"GET", "HEAD", "POST", "PUT", "DELETE"}
Handlers == <<"db", "model", "analytics", "tisslang", "nexus", "admin", "tasks">>

\* The endpoints of handle_db, with the methods each accepts and what it asks
\* the database for.
DbRoutes ==
  {[path |-> p, method |-> m] : p \in {"db/query", "db/databases", "db/collections", "db/stats"},
                                m \in Methods}
  \cup {[path |-> "db/doc", method |-> "PUT"],
        [path |-> "db/collection", method |-> "POST"],
        [path |-> "db/collection", method |-> "DELETE"]}

ModelRoutes == {[path |-> p, method |-> m] : p \in {"model/generate", "model/cpp/generate"},
                                             m \in Methods}
AnalyticsRoutes == {[path |-> p, method |-> m] : p \in {"analytics/chart", "analytics/trade"},
                                                 m \in Methods}
TissLangRoutes == {[path |-> "tisslang/run", method |-> m] : m \in Methods}
NexusRoutes == {[path |-> "nexus/graph", method |-> m] : m \in Methods}
AdminRoutes ==
  {[path |-> "config", method |-> m] : m \in {"GET", "POST"}}
  \cup {[path |-> p, method |-> m] : p \in {"training/start", "training/status", "tests/run",
                                            "admin/migrate"}, m \in Methods}

\* The tasks handler takes every path that begins with "tasks" and counts slashes.
TaskRoutes == {[path |-> "tasks", method |-> "GET"],
               [path |-> "tasks/id", method |-> "GET"],
               [path |-> "tasks/id", method |-> "DELETE"]}

Routes == [h \in {"db", "model", "analytics", "tisslang", "nexus", "admin", "tasks"} |->
             CASE h = "db" -> DbRoutes [] h = "model" -> ModelRoutes
               [] h = "analytics" -> AnalyticsRoutes [] h = "tisslang" -> TissLangRoutes
               [] h = "nexus" -> NexusRoutes [] h = "admin" -> AdminRoutes
               [] h = "tasks" -> TaskRoutes]

Served == UNION {Routes[h] : h \in DOMAIN Routes}
ApiPaths == {r.path : r \in Served} \cup {"unknown"}

\* The requests of the command line client and the handler each is meant for.
CliRequests ==
  [db_status |-> [method |-> "GET", path |-> "db/databases", handler |-> "db"],
   db_query |-> [method |-> "POST", path |-> "db/query", handler |-> "db"],
   model_generate |-> [method |-> "POST", path |-> "model/generate", handler |-> "model"],
   tisslang_run |-> [method |-> "POST", path |-> "tisslang/run", handler |-> "tisslang"],
   task_list |-> [method |-> "GET", path |-> "tasks", handler |-> "tasks"],
   task_status |-> [method |-> "GET", path |-> "tasks/id", handler |-> "tasks"],
   training_start |-> [method |-> "POST", path |-> "training/start", handler |-> "admin"],
   training_status |-> [method |-> "GET", path |-> "training/status", handler |-> "admin"]]

NoRequest == [method |-> "GET", path |-> "", body |-> "empty", from |-> "browser"]

Init == pc = "waiting" /\ request = NoRequest /\ next = 1 /\ replies = <<>> /\ broke = FALSE

Answer(status, json) == replies' = Append(replies, [status |-> status, json |-> json])

\* A browser sends anything; the client sends its own commands, its JSON whole.
Arrive ==
  /\ pc = "waiting"
  /\ \/ \E m \in Methods, p \in ApiPaths \cup {"page", "route", "missing.file"},
          b \in {"empty", "json", "garbled", "huge"} :
            request' = [method |-> m, path |-> p, body |-> b, from |-> "browser"]
     \/ \E c \in DOMAIN CliRequests :
            request' = [method |-> CliRequests[c].method, path |-> CliRequests[c].path,
                        body |-> "json", from |-> c]
  /\ pc' = "method"
  /\ UNCHANGED <<next, replies, broke>>

IsApi == request.path \in ApiPaths

\* do_GET and do_HEAD serve files; a missing file is index.html when its name has
\* no extension.  Reading it may fail.
ServeStatic ==
  /\ pc = "method" /\ ~IsApi /\ request.method \in {"GET", "HEAD"}
  /\ \/ request.path # "missing.file" /\ Answer(200, FALSE)
     \/ request.path = "missing.file" /\ Answer(404, FALSE)
     \/ request.path # "missing.file" /\ Answer(500, FALSE)
  /\ pc' = "done"
  /\ UNCHANGED <<request, next, broke>>

\* HEAD of an endpoint is answered without asking a handler; the other methods
\* have nothing but endpoints.
AnswerMethod ==
  /\ pc = "method"
  /\ \/ IsApi /\ request.method = "HEAD" /\ Answer(200, FALSE)
     \/ ~IsApi /\ request.method \in {"POST", "PUT", "DELETE"} /\ Answer(405, FALSE)
  /\ pc' = "done"
  /\ UNCHANGED <<request, next, broke>>

\* handle_api: the size and the JSON of the body before any handler.
ReadBody ==
  /\ pc = "method" /\ IsApi /\ request.method # "HEAD"
  /\ CASE request.body = "huge" -> Answer(413, FALSE) /\ pc' = "done"
       [] request.body = "garbled" -> Answer(400, FALSE) /\ pc' = "done"
       [] OTHER -> pc' = "handlers" /\ UNCHANGED replies
  /\ UNCHANGED <<request, next, broke>>

Takes(h) == [path |-> request.path, method |-> request.method] \in Routes[h]

Refuse ==
  /\ pc = "handlers" /\ next <= Len(Handlers) /\ ~Takes(Handlers[next])
  /\ next' = next + 1
  /\ UNCHANGED <<pc, request, replies, broke>>

\* A plausible bug: a handler that has answered returns nothing, and the next is tried.
HandleFallsThrough ==
  /\ pc = "handlers" /\ next <= Len(Handlers) /\ Takes(Handlers[next])
  /\ \E s \in {200, 400} : Answer(s, TRUE)
  /\ next' = next + 1
  /\ UNCHANGED <<pc, request, broke>>

\* A handler's answer is JSON except for TissLang, which writes a failure as
\* plain text, and for what the database itself sent through the proxy.
Handle ==
  /\ pc = "handlers" /\ next <= Len(Handlers)
  /\ LET h == Handlers[next] IN
     /\ Takes(h)
     /\ \/ \E s \in {200, 400} : Answer(s, TRUE)
        \/ h = "db" /\ Answer(404, FALSE)
        \/ Answer(500, h # "tisslang")
  /\ pc' = "done"
  /\ UNCHANGED <<request, next, broke>>

\* The status line is out when writing the rest fails: the except clause of the
\* handler, or of the server, writes a second answer behind it.
HandleBreaks ==
  /\ pc = "handlers" /\ next <= Len(Handlers) /\ Takes(Handlers[next])
  /\ replies' = replies \o <<[status |-> 200, json |-> FALSE],
                             [status |-> 500, json |-> Handlers[next] # "tisslang"]>>
  /\ broke' = TRUE
  /\ pc' = "done"
  /\ UNCHANGED <<request, next>>

NotFound ==
  /\ pc = "handlers" /\ next > Len(Handlers)
  /\ Answer(404, TRUE)
  /\ pc' = "done"
  /\ UNCHANGED <<request, next, broke>>

Next == Arrive \/ ServeStatic \/ AnswerMethod \/ ReadBody \/ Refuse \/ Handle \/ HandleBreaks
        \/ NotFound

Spec == Init /\ [][Next]_vars

\* A connection carries one answer, and exactly one: no handler falls through to
\* the next one, or to the 404, after it has written its own.
OneAnswer == pc = "done" /\ ~broke => Len(replies) = 1

\* Every command of the client reaches the handler it is meant for.
CliReachesHandler ==
  (request.from \in DOMAIN CliRequests /\ pc = "done")
    => next <= Len(Handlers) /\ Handlers[next] = CliRequests[request.from].handler

\* The client prints resp.json(): it can, whenever the server is not cut off,
\* but for a script that failed and a database that answered for itself.
CliCanPrint ==
  (request.from \in DOMAIN CliRequests /\ pc = "done" /\ ~broke /\ ~replies[1].json)
    => request.from \in {"tisslang_run", "db_status", "db_query"}
================================================================================
