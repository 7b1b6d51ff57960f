----------------------------- MODULE DatabaseManager -----------------------------
(* TissDB's database manager (tissdb/storage/database_manager.cpp): a table of *)
(* engines in memory, a directory for each, and a manifest that says which of  *)
(* them the next start opens.  The three change one after the other, in        *)
(* request threads that nothing orders.  A refused request changes nothing and *)
(* is a stuttering step.  The engines' own logs are the subject of LSMTree:    *)
(* here a database is empty or has been written to.                            *)
EXTENDS Naturals, FiniteSets

CONSTANTS Names,       \* names of databases, of one length
          Threads,     \* request threads
          MaxRestarts  \* bound: how often the process ends, for each number of clients

VARIABLES phase,      \* of the process: down, up, or failed in its start
          databases,  \* databases_: what each engine holds, "none" without one
          disk,       \* what each directory holds, "none" without one
          manifest,   \* the file's text: the names it begins with, and its length
          threads,    \* the request threads
          clients,    \* how many requests are under way at most
          promise,    \* history: what the answers tell a client to expect
          torn,       \* history: the process ended while the manifest was empty
          ends        \* how often the process has ended

vars == <<phase, databases, disk, manifest, threads, clients, promise, torn, ends>>

Contents == {"none", "empty", "written"}

\* The text of a manifest: {"databases":[...]}, or nothing.
TextOf(names) == [names |-> names, length |-> 1 + Cardinality(names)]
EmptyText == [names |-> {}, length |-> 0]
Readable(text) == text.length = 0 \/ text = TextOf(text.names)

\* A write begins at the start of the file and leaves what stands behind its end.
WriteOver(old, new) ==
  IF old.length > new.length THEN [new EXCEPT !.length = old.length] ELSE new

Idle == [pc |-> "idle", op |-> "none", name |-> "none", names |-> {}]
Served == {n \in Names : databases[n] # "none"}

Init ==
  /\ phase = "down"
  /\ databases = [n \in Names |-> "none"]
  /\ disk = [n \in Names |-> "none"]
  /\ manifest = EmptyText
  /\ threads = [t \in Threads |-> Idle]
  /\ clients \in 1..Cardinality(Threads)
  /\ promise = [n \in Names |-> "none"]
  /\ torn = FALSE
  /\ ends = 0

(* start and end of the process -------------------------------------------------*)

\* The constructor opens what the manifest lists; an engine makes a directory
\* that is missing.  A text that is no JSON ends main.
Start ==
  /\ phase \in {"down", "failed"}
  /\ IF Readable(manifest)
     THEN /\ phase' = "up"
          /\ disk' = [n \in Names |-> IF n \in manifest.names /\ disk[n] = "none"
                                      THEN "empty" ELSE disk[n]]
          /\ databases' = [n \in Names |-> IF n \in manifest.names THEN disk'[n] ELSE "none"]
     ELSE phase' = "failed" /\ UNCHANGED <<databases, disk>>
  /\ UNCHANGED <<manifest, threads, clients, promise, torn, ends>>

\* A crash, or main's return: request threads are not waited for.
End ==
  /\ phase = "up" /\ ends < MaxRestarts[clients]
  /\ phase' = "down"
  /\ databases' = [n \in Names |-> "none"]
  /\ threads' = [t \in Threads |-> Idle]
  /\ torn' = (torn \/ \E t \in Threads : threads[t].pc = "write")
  /\ ends' = ends + 1
  /\ UNCHANGED <<disk, manifest, clients, promise>>

(* requests -----------------------------------------------------------------------*)

Busy == {t \in Threads : threads[t].pc # "idle"}
BusyWith(n) == {t \in Busy : threads[t].name = n}

\* After two requests at once for one name nobody knows what to expect of it.
Expect(n, what) ==
  promise' = [promise EXCEPT ![n] = IF @ = "unknown" THEN "unknown" ELSE what]

Goto(t, pc) == threads' = [threads EXCEPT ![t].pc = pc]

\* The check of create_database, or of delete_database, lets the request pass.
Begin(t, op, n, pc) ==
  /\ phase = "up" /\ threads[t].pc = "idle" /\ Cardinality(Busy) < clients
  /\ threads' = [threads EXCEPT ![t] = [pc |-> pc, op |-> op, name |-> n, names |-> {}]]
  /\ Expect(n, IF BusyWith(n) = {} THEN "open" ELSE "unknown")
  /\ UNCHANGED <<phase, databases, disk, manifest, clients, torn, ends>>

CreateCheck(t, n) == databases[n] = "none" /\ Begin(t, "create", n, "mkdir")
DeleteCheck(t, n) == databases[n] # "none" /\ Begin(t, "delete", n, "erase")

MakeDirectory(t) ==
  /\ threads[t].pc = "mkdir"
  /\ disk' = [disk EXCEPT ![threads[t].name] = IF @ = "none" THEN "empty" ELSE @]
  /\ Goto(t, "open")
  /\ UNCHANGED <<phase, databases, manifest, clients, promise, torn, ends>>

\* The new engine recovers what the directory holds, and replaces one that
\* another request has entered in the meantime.
OpenEngine(t) ==
  LET n == threads[t].name IN
  /\ threads[t].pc = "open"
  /\ disk' = [disk EXCEPT ![n] = IF @ = "none" THEN "empty" ELSE @]
  /\ databases' = [databases EXCEPT ![n] = disk'[n]]
  /\ Goto(t, "list")
  /\ UNCHANGED <<phase, manifest, clients, promise, torn, ends>>

EraseEngine(t) ==
  /\ threads[t].pc = "erase"
  /\ databases' = [databases EXCEPT ![threads[t].name] = "none"]
  /\ Goto(t, "rmdir")
  /\ UNCHANGED <<phase, disk, manifest, clients, promise, torn, ends>>

\* A plausible bug: the directory of a deleted database is left where it is.
RemoveNothing(t) ==
  /\ threads[t].pc = "rmdir"
  /\ Goto(t, "list")
  /\ UNCHANGED <<phase, databases, disk, manifest, clients, promise, torn, ends>>

RemoveDirectory(t) ==
  /\ threads[t].pc = "rmdir"
  /\ disk' = [disk EXCEPT ![threads[t].name] = "none"]
  /\ Goto(t, "list")
  /\ UNCHANGED <<phase, databases, manifest, clients, promise, torn, ends>>

\* save_manifest: the list is made, the file is emptied, the text is written.
ListNames(t) ==
  /\ threads[t].pc = "list"
  /\ threads' = [threads EXCEPT ![t].pc = "truncate", ![t].names = Served]
  /\ UNCHANGED <<phase, databases, disk, manifest, clients, promise, torn, ends>>

Truncate(t) ==
  /\ threads[t].pc = "truncate"
  /\ manifest' = EmptyText
  /\ Goto(t, "write")
  /\ UNCHANGED <<phase, databases, disk, clients, promise, torn, ends>>

WriteManifest(t) ==
  /\ threads[t].pc = "write"
  /\ manifest' = WriteOver(manifest, TextOf(threads[t].names))
  /\ Goto(t, "answer")
  /\ UNCHANGED <<phase, databases, disk, clients, promise, torn, ends>>

Answer(t) ==
  /\ threads[t].pc = "answer"
  /\ Expect(threads[t].name, IF threads[t].op = "create" THEN "empty" ELSE "none")
  /\ threads' = [threads EXCEPT ![t] = Idle]
  /\ UNCHANGED <<phase, databases, disk, manifest, clients, torn, ends>>

\* get_database and a write to the engine it returns.  A log whose directory was
\* removed is written all the same, and gone with the process.
Put(t, n) ==
  /\ phase = "up" /\ threads[t].pc = "idle" /\ Cardinality(Busy) < clients
  /\ databases[n] # "none"
  /\ databases' = [databases EXCEPT ![n] = "written"]
  /\ disk' = [disk EXCEPT ![n] = IF @ = "none" THEN "none" ELSE "written"]
  /\ Expect(n, IF BusyWith(n) = {} THEN "written" ELSE "unknown")
  /\ UNCHANGED <<phase, manifest, threads, clients, torn, ends>>

SaveManifest(t) == ListNames(t) \/ Truncate(t) \/ WriteManifest(t)
CreateDatabase(t) == (\E n \in Names : CreateCheck(t, n)) \/ MakeDirectory(t) \/ OpenEngine(t)
DeleteDatabase(t) == (\E n \in Names : DeleteCheck(t, n)) \/ EraseEngine(t) \/ RemoveDirectory(t)

Next ==
  \/ Start \/ End
  \/ \E t \in Threads : \/ CreateDatabase(t) \/ DeleteDatabase(t) \/ SaveManifest(t) \/ Answer(t)
                        \/ \E n \in Names : Put(t, n)

Spec == Init /\ [][Next]_vars

TypeOK ==
  /\ phase \in {"down", "up", "failed"}
  /\ databases \in [Names -> Contents] /\ disk \in [Names -> Contents]
  /\ manifest \in [names : SUBSET Names, length : Nat]
  /\ threads \in [Threads -> [pc : {"idle", "mkdir", "open", "erase", "rmdir", "list",
                                    "truncate", "write", "answer"},
                              op : {"none", "create", "delete"},
                              name : Names \cup {"none"}, names : SUBSET Names]]
  /\ promise \in [Names -> Contents \cup {"open", "unknown"}]
  /\ torn \in BOOLEAN /\ ends \in 0..MaxRestarts[clients]

\* What was answered for is served, over any number of restarts: a created
\* database is there, empty until it is written to, and a deleted one is gone.
PromisesKept ==
  phase = "up" => \A n \in Names : promise[n] \in Contents => databases[n] = promise[n]

\* "reads a manifest.json file and, for each database listed, creates an LSMTree":
\* the manifest can be read whenever the server starts.
ManifestCanBeRead == phase = "down" => Readable(manifest)

\* Until the process ends, promises are kept whatever requests for other names do.
FirstRunKeepsPromises == ends = 0 => PromisesKept

\* What was written stays in its directory, which outlives the manifest and
\* every request for another name.
WrittenStays == \A n \in Names : promise[n] = "written" => disk[n] = "written"

\* One request at a time: promises are kept over restarts, unless the process
\* ended while the manifest was empty, and every start succeeds.
SerialPromisesKept == clients = 1 => (torn \/ PromisesKept) /\ ManifestCanBeRead
================================================================================
