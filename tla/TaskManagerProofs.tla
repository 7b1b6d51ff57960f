--------------------------- MODULE TaskManagerProofs ---------------------------
(***************************************************************************)
(* The only process of a task's id is never lost by the task manager, for  *)
(* any number of ids, request threads, processes and log lines.            *)
(***************************************************************************)
EXTENDS TaskManager, TLAPS

(* The dictionary can tell a missing entry from one that is there. *)
NoneIsNoEntry == None \notin Entry

StartedFor(p, id) == p \in Procs /\ procs[p].state # "unborn" /\ procs[p].id = id

(* Threads and readers work for ids that clients may use. *)
IdsKnown ==
    /\ \A p \in Procs : procs[p].state # "unborn" => procs[p].id \in Ids
    /\ \A t \in Threads : threads[t].pc # "idle" => threads[t].id \in Ids

(* What the dictionary and the threads hold as the process of an id was *)
(* started for it.                                                      *)
OwnProcess ==
    /\ \A id \in Ids : tasks[id] # None => StartedFor(tasks[id].process, id)
    /\ \A t \in Threads : threads[t].pc \in {"record", "reader", "wait", "mark"}
                            => StartedFor(threads[t].p, threads[t].id)

(* An entry stays once it is made, so that whoever looks it up again finds one. *)
EntryFound ==
    /\ \A t \in Threads : threads[t].pc \in {"reader", "signal", "wait", "mark"}
                            => tasks[threads[t].id] # None
    /\ \A p \in Procs : readers[p] \in {"reading", "measure", "pop"}
                            => procs[p].state # "unborn" /\ tasks[procs[p].id] # None

(* A stop marks the task of a process that it has seen dead. *)
StopsTheDead == \A t \in Threads : threads[t].pc = "mark" => ~Alive(threads[t].p)

TrackInv ==
    /\ NoneIsNoEntry /\ TypeOK
    /\ IdsKnown /\ OwnProcess /\ EntryFound /\ StopsTheDead /\ OnlyProcessTracked

-----------------------------------------------------------------------------
(* A change of one field leaves a thread, a process and an entry what they are. *)
LEMMA ThreadChanges ==
    ASSUME NEW r \in Thread
    PROVE  /\ \A c \in {"idle", "spawn", "record", "reader", "signal", "wait", "mark"} :
                [r EXCEPT !.pc = c] \in Thread
           /\ \A p \in Procs : [r EXCEPT !.p = p] \in Thread
    BY DEF Thread

LEMMA ProcessChanges ==
    ASSUME NEW q \in Process
    PROVE  /\ \A s \in {"unborn", "alive", "exited"} : [q EXCEPT !.state = s] \in Process
           /\ \A c \in {0, 1} : [q EXCEPT !.code = c] \in Process
           /\ \A n \in Nat : [q EXCEPT !.pipe = n] \in Process /\ [q EXCEPT !.written = n] \in Process
           /\ \A id \in Ids : [q EXCEPT !.id = id] \in Process
    BY DEF Process

LEMMA EntryChanges ==
    ASSUME NEW e \in Entry
    PROVE  /\ \A s \in Status : [e EXCEPT !.status = s] \in Entry
           /\ \A n \in Nat : [e EXCEPT !.logs = n] \in Entry
    BY DEF Entry

(* A step keeps a process tracked that was when it neither starts nor revives *)
(* a process, and takes none from the threads and tasks that hold it.         *)
LEMMA StillTracked ==
    ASSUME OnlyProcessTracked,
           \A q \in Procs : /\ procs'[q].id = procs[q].id
                            /\ procs'[q].state = "unborn" <=> procs[q].state = "unborn"
                            /\ Alive(q)' => Alive(q)
                            /\ BeingRecorded(q) => BeingRecorded(q)'
                            /\ Tracked(q) => Tracked(q)'
    PROVE  OnlyProcessTracked'
<1>1. \A q \in Procs : StartsOf(procs[q].id)' = StartsOf(procs[q].id)
    BY DEF StartsOf
<1> QED
    BY <1>1 DEF OnlyProcessTracked

(* A thread that is not recording moves on, and nothing else happens. *)
LEMMA OnlyThreadMoves ==
    ASSUME OnlyProcessTracked, UNCHANGED <<tasks, procs>>,
           \A u \in Threads : threads[u].pc = "record" => threads'[u] = threads[u]
    PROVE  OnlyProcessTracked'
<1>1. \A q \in Procs : BeingRecorded(q) => BeingRecorded(q)'
    BY DEF BeingRecorded
<1>2. \A q \in Procs : /\ Tracked(q) => Tracked(q)'
                       /\ Alive(q)' => Alive(q)
    BY DEF Tracked, Running, Alive
<1> QED
    BY <1>1, <1>2, StillTracked

(* A task may change once its process is dead: if the process of another id  *)
(* lives, its task is another one, and a second process of this id would not *)
(* be the only one.                                                           *)
LEMMA OnlyDeadTaskChanges ==
    ASSUME OnlyProcessTracked, OwnProcess, UNCHANGED procs,
           NEW d \in Procs, NEW i \in Ids, StartedFor(d, i), ~Alive(d),
           \A id \in Ids : id # i => tasks'[id] = tasks[id],
           \A q \in Procs : BeingRecorded(q) => BeingRecorded(q)'
    PROVE  OnlyProcessTracked'
<1> SUFFICES ASSUME NEW q \in Procs, Alive(q), StartsOf(procs[q].id) = {q}
             PROVE  BeingRecorded(q)' \/ Tracked(q)'
    BY DEF OnlyProcessTracked, Alive, StartsOf
<1>1. CASE BeingRecorded(q)
    BY <1>1
<1>2. CASE Tracked(q)
  <2>1. PICK id \in Ids : Running(id) /\ tasks[id].process = q
    BY <1>2 DEF Tracked
  <2>2. id = procs[q].id
    BY <2>1 DEF Running, OwnProcess, StartedFor
  <2>3. id # i
    BY <2>2 DEF StartsOf, StartedFor
  <2> QED
    BY <2>1, <2>3 DEF Tracked, Running
<1> QED
    BY <1>1, <1>2 DEF OnlyProcessTracked

LEMMA InitTrack == NoneIsNoEntry /\ Init => TrackInv
    BY
       DEF Init, TrackInv, TypeOK, Process, Thread, IdsKnown, OwnProcess, EntryFound,
           StopsTheDead, OnlyProcessTracked, Unborn, Idle, Alive

LEMMA StartCheckKeeps ==
    ASSUME TrackInv, NEW t \in Threads, NEW id \in Ids, StartCheck(t, id)
    PROVE  TrackInv'
<1>0. TypeOK /\ NoneIsNoEntry
    BY DEF TrackInv
<1>1. TypeOK'
    BY <1>0 DEF StartCheck, TypeOK, Thread, Running
<1>2. IdsKnown'
    BY <1>0 DEF StartCheck, TrackInv, IdsKnown
<1>3. OwnProcess'
    BY <1>0 DEF StartCheck, TrackInv, OwnProcess, StartedFor
<1>4. EntryFound'
    BY <1>0, <1>1 DEF StartCheck, TrackInv, EntryFound, Running
<1>5. StopsTheDead'
    BY <1>0 DEF StartCheck, TrackInv, StopsTheDead, Alive
<1>6. OnlyProcessTracked'
  <2>1. \A u \in Threads : threads[u].pc = "record" => threads'[u] = threads[u]
    BY <1>0 DEF StartCheck, TypeOK
  <2> QED
    BY <2>1, OnlyThreadMoves DEF StartCheck, TrackInv
<1> QED
    BY <1>0, <1>1, <1>2, <1>3, <1>4, <1>5, <1>6 DEF TrackInv, NoneIsNoEntry, Entry, Procs

LEMMA SpawnKeeps ==
    ASSUME TrackInv, NEW t \in Threads, Spawn(t)
    PROVE  TrackInv'
<1>0. TypeOK /\ NoneIsNoEntry
    BY DEF TrackInv
<1>1. TypeOK'
  <2>1. PICK p \in Procs :
            /\ procs' = [procs EXCEPT ![p].state = "alive", ![p].id = threads[t].id]
            /\ threads' = [threads EXCEPT ![t].pc = "record", ![t].p = p]
    BY DEF Spawn
  <2>2. threads[t].id \in Ids /\ threads[t] \in Thread /\ procs[p] \in Process
    BY <1>0 DEF Spawn, TrackInv, IdsKnown, TypeOK
  <2>3. [procs[p] EXCEPT !.state = "alive", !.id = threads[t].id] \in Process
    BY <2>2 DEF Process
  <2>4. [threads[t] EXCEPT !.pc = "record", !.p = p] \in Thread
    BY <2>2 DEF Thread
  <2>5. procs' \in [Procs -> Process] /\ threads' \in [Threads -> Thread]
    BY <1>0, <2>1, <2>3, <2>4 DEF TypeOK
  <2> QED
    BY <1>0, <2>5 DEF Spawn, TypeOK
<1>2. IdsKnown'
    BY <1>0 DEF Spawn, TrackInv, TypeOK, IdsKnown
<1>3. OwnProcess'
    BY <1>0 DEF Spawn, TrackInv, TypeOK, OwnProcess, StartedFor
<1>4. EntryFound'
    BY <1>0, <1>1 DEF Spawn, TrackInv, TypeOK, EntryFound
<1>5. StopsTheDead'
    BY <1>0 DEF Spawn, TrackInv, TypeOK, OwnProcess, StopsTheDead, Alive, StartedFor
<1>6. OnlyProcessTracked'
  <2>1. PICK p \in Procs :
            /\ procs[p].state = "unborn"
            /\ procs' = [procs EXCEPT ![p].state = "alive", ![p].id = threads[t].id]
            /\ threads' = [threads EXCEPT ![t].pc = "record", ![t].p = p]
    BY DEF Spawn
  <2> SUFFICES ASSUME NEW q \in Procs, Alive(q)', StartsOf(procs[q].id)' = {q}
               PROVE  BeingRecorded(q)' \/ Tracked(q)'
    BY DEF OnlyProcessTracked
  <2>2. CASE q = p
    BY <1>0, <2>1, <2>2 DEF BeingRecorded, TypeOK, Thread
  <2>3. CASE q # p
    <3>1. procs'[q] = procs[q] /\ \A h \in Procs : h # p => procs'[h] = procs[h]
      BY <1>0, <2>1, <2>3 DEF TypeOK
    <3>2. StartsOf(procs[q].id) \subseteq {q} /\ q \in StartsOf(procs[q].id)
      BY <2>1, <3>1 DEF StartsOf, Alive
    <3>3. BeingRecorded(q) \/ Tracked(q)
      BY <3>1, <3>2 DEF TrackInv, OnlyProcessTracked, Alive
    <3>4. CASE BeingRecorded(q)
      <4>1. PICK u \in Threads : threads[u].pc = "record" /\ threads[u].p = q
        BY <3>4 DEF BeingRecorded
      <4>2. u # t
        BY <4>1 DEF Spawn
      <4> QED
        BY <1>0, <2>1, <4>1, <4>2 DEF BeingRecorded, TypeOK
    <3>5. CASE Tracked(q)
      BY <3>5 DEF Tracked, Running, Spawn
    <3> QED
      BY <3>3, <3>4, <3>5
  <2> QED
    BY <2>2, <2>3
<1> QED
    BY <1>0, <1>1, <1>2, <1>3, <1>4, <1>5, <1>6 DEF TrackInv, NoneIsNoEntry, Entry, Procs

LEMMA RecordKeeps ==
    ASSUME TrackInv, NEW t \in Threads, Record(t)
    PROVE  TrackInv'
<1>0. TypeOK /\ NoneIsNoEntry
    BY DEF TrackInv
<1>1. TypeOK'
  <2>1. /\ threads[t].id \in Ids /\ threads[t].p \in Procs
        /\ [process |-> threads[t].p, status |-> "running", logs |-> 0] \in Entry
    BY DEF Record, TrackInv, IdsKnown, OwnProcess, StartedFor, Entry, Status
  <2>2. tasks' \in [Ids -> {None} \cup Entry]
    BY <1>0, <2>1 DEF Record, TypeOK
  <2> QED
    BY <1>0, <2>2, ThreadChanges DEF Record, Goto, TypeOK
<1>2. IdsKnown'
    BY <1>0 DEF Record, Goto, TrackInv, IdsKnown
<1>3. OwnProcess'
    BY <1>0 DEF Record, Goto, TrackInv, OwnProcess, StartedFor
<1>4. EntryFound'
  <2>1. /\ threads[t].id \in Ids /\ threads[t].p \in Procs
        /\ [process |-> threads[t].p, status |-> "running", logs |-> 0] \in Entry
    BY DEF Record, TrackInv, IdsKnown, OwnProcess, StartedFor, Entry, Status
  <2>2. \A id \in Ids : tasks[id] # None \/ id = threads[t].id => tasks'[id] # None
    BY <1>0, <2>1 DEF Record, TypeOK, NoneIsNoEntry
  <2> QED
    BY <1>0, <1>2, <2>1, <2>2
       DEF Record, Goto, TrackInv, EntryFound
<1>5. StopsTheDead'
    BY <1>0 DEF Record, Goto, TrackInv, StopsTheDead, Alive
<1>6. OnlyProcessTracked'
  <2> SUFFICES ASSUME NEW q \in Procs, Alive(q), StartsOf(procs[q].id) = {q}
               PROVE  BeingRecorded(q)' \/ Tracked(q)'
    BY DEF OnlyProcessTracked, Record, Alive, StartsOf
  <2>1. threads[t].id \in Ids /\ StartedFor(threads[t].p, threads[t].id)
    BY DEF Record, TrackInv, IdsKnown, OwnProcess
  <2>2. /\ tasks'[threads[t].id] = [process |-> threads[t].p, status |-> "running", logs |-> 0]
        /\ \A id \in Ids : id # threads[t].id => tasks'[id] = tasks[id]
        /\ [process |-> threads[t].p, status |-> "running", logs |-> 0] \in Entry
    BY <1>0, <2>1 DEF Record, TypeOK, Entry, Status, StartedFor
  <2>3. CASE threads[t].p = q
    BY <1>0, <2>1, <2>2, <2>3 DEF Tracked, Running, NoneIsNoEntry
  <2>4. CASE threads[t].p # q
    <3>1. BeingRecorded(q) \/ Tracked(q)
      BY DEF TrackInv, OnlyProcessTracked
    <3>2. CASE BeingRecorded(q)
      BY <1>0, <2>4, <3>2 DEF BeingRecorded, Record, Goto, TypeOK
    <3>3. CASE Tracked(q)
      <4>1. PICK id \in Ids : Running(id) /\ tasks[id].process = q
        BY <3>3 DEF Tracked
      <4>2. id = procs[q].id
        BY <4>1 DEF Running, TrackInv, OwnProcess, StartedFor
      <4>3. id # threads[t].id
        BY <2>1, <2>4, <4>2 DEF StartsOf, StartedFor
      <4> QED
        BY <2>2, <4>1, <4>3 DEF Tracked, Running
    <3> QED
      BY <3>1, <3>2, <3>3
  <2> QED
    BY <2>3, <2>4
<1> QED
    BY <1>0, <1>1, <1>2, <1>3, <1>4, <1>5, <1>6 DEF TrackInv, NoneIsNoEntry, Entry, Procs

LEMMA StartReaderKeeps ==
    ASSUME TrackInv, NEW t \in Threads, StartReader(t)
    PROVE  TrackInv'
<1>0. TypeOK /\ NoneIsNoEntry
    BY DEF TrackInv
<1>1. TypeOK'
    BY <1>0 DEF StartReader, Reply, TypeOK, Thread, Idle
<1>2. IdsKnown'
    BY <1>0 DEF StartReader, Reply, TrackInv, IdsKnown, Idle
<1>3. OwnProcess'
    BY <1>0 DEF StartReader, Reply, TrackInv, OwnProcess, StartedFor, Idle
<1>4. EntryFound'
    BY <1>0, <1>1 DEF StartReader, Reply, TrackInv, OwnProcess, EntryFound, StartedFor, Idle
<1>5. StopsTheDead'
    BY <1>0 DEF StartReader, Reply, TrackInv, StopsTheDead, Idle, Alive
<1>6. OnlyProcessTracked'
  <2>1. \A u \in Threads : threads[u].pc = "record" => threads'[u] = threads[u]
    BY <1>0 DEF StartReader, Reply, TypeOK
  <2> QED
    BY <2>1, OnlyThreadMoves DEF StartReader, TrackInv
<1> QED
    BY <1>0, <1>1, <1>2, <1>3, <1>4, <1>5, <1>6 DEF TrackInv, NoneIsNoEntry, Entry, Procs

LEMMA WriteLineKeeps ==
    ASSUME TrackInv, NEW p \in Procs, WriteLine(p)
    PROVE  TrackInv'
<1>0. TypeOK /\ NoneIsNoEntry
    BY DEF TrackInv
<1>1. TypeOK'
    BY <1>0 DEF WriteLine, TypeOK, Process
<1>2. IdsKnown'
    BY <1>0 DEF WriteLine, TypeOK, Process
<1>3. OwnProcess'
    BY <1>0 DEF WriteLine, TypeOK, Process
<1>4. EntryFound'
    BY <1>0, <1>1 DEF WriteLine, TypeOK, Process
<1>5. StopsTheDead'
    BY <1>0 DEF WriteLine, TypeOK, Process
<1>6. OnlyProcessTracked'
  <2>1. \A q \in Procs : /\ procs'[q].id = procs[q].id
                         /\ procs'[q].state = "unborn" <=> procs[q].state = "unborn"
                         /\ Alive(q)' => Alive(q)
    BY <1>0 DEF WriteLine, TypeOK, Alive, Process
  <2>2. \A q \in Procs : /\ BeingRecorded(q) => BeingRecorded(q)'
                         /\ Tracked(q) => Tracked(q)'
    BY DEF WriteLine, BeingRecorded, Tracked, Running
  <2> QED
    BY <2>1, <2>2, StillTracked DEF TrackInv
<1> QED
    BY <1>0, <1>1, <1>2, <1>3, <1>4, <1>5, <1>6 DEF TrackInv, NoneIsNoEntry, Entry, Procs

LEMMA ExitKeeps ==
    ASSUME TrackInv, NEW p \in Procs, Exit(p)
    PROVE  TrackInv'
<1>0. TypeOK /\ NoneIsNoEntry
    BY DEF TrackInv
<1>1. TypeOK'
  <2>1. PICK code \in {0, 1} : procs' = [procs EXCEPT ![p].state = "exited", ![p].code = code]
    BY DEF Exit
  <2>2. [procs[p] EXCEPT !.state = "exited", !.code = code] \in Process
    BY <1>0 DEF TypeOK, Process
  <2>3. procs' \in [Procs -> Process]
    BY <1>0, <2>1, <2>2 DEF TypeOK
  <2> QED
    BY <1>0, <2>3 DEF Exit, TypeOK
<1>2. IdsKnown'
    BY <1>0 DEF Exit, TrackInv, TypeOK, IdsKnown, Alive
<1>3. OwnProcess'
    BY <1>0 DEF Exit, TrackInv, TypeOK, OwnProcess, StartedFor
<1>4. EntryFound'
    BY <1>0, <1>1 DEF Exit, TrackInv, TypeOK, EntryFound
<1>5. StopsTheDead'
    BY <1>0 DEF Exit, TrackInv, TypeOK, OwnProcess, StopsTheDead, Alive, StartedFor
<1>6. OnlyProcessTracked'
  <2>1. \A q \in Procs : /\ procs'[q].id = procs[q].id
                         /\ procs'[q].state = "unborn" <=> procs[q].state = "unborn"
                         /\ Alive(q)' => Alive(q)
    BY <1>0 DEF Exit, TypeOK, Alive, Process
  <2>2. \A q \in Procs : /\ BeingRecorded(q) => BeingRecorded(q)'
                         /\ Tracked(q) => Tracked(q)'
    BY DEF Exit, BeingRecorded, Tracked, Running
  <2> QED
    BY <2>1, <2>2, StillTracked DEF TrackInv
<1> QED
    BY <1>0, <1>1, <1>2, <1>3, <1>4, <1>5, <1>6 DEF TrackInv, NoneIsNoEntry, Entry, Procs

LEMMA AppendLineKeeps ==
    ASSUME TrackInv, NEW p \in Procs, AppendLine(p)
    PROVE  TrackInv'
<1>0. TypeOK /\ NoneIsNoEntry
    BY DEF TrackInv
<1>1. TypeOK'
  <2>1. procs[p].id \in Ids /\ tasks[procs[p].id] \in Entry /\ procs[p] \in Process
    BY <1>0 DEF AppendLine, TrackInv, IdsKnown, EntryFound, TypeOK
  <2>2. procs[p].pipe - 1 \in Nat /\ tasks[procs[p].id].logs + 1 \in Nat
    BY <2>1 DEF AppendLine, Process, Entry
  <2>3. procs' \in [Procs -> Process]
    BY <1>0, <2>1, <2>2, ProcessChanges DEF AppendLine, TypeOK
  <2>4. tasks' \in [Ids -> {None} \cup Entry]
    BY <1>0, <2>1, <2>2, EntryChanges DEF AppendLine, TypeOK
  <2> QED
    BY <1>0, <2>3, <2>4 DEF AppendLine, TypeOK
<1>2. IdsKnown'
    BY <1>0 DEF AppendLine, TrackInv, IdsKnown
<1>3. OwnProcess'
    BY <1>0 DEF AppendLine, TrackInv, OwnProcess, EntryFound, StartedFor
<1>4. EntryFound'
  <2>1. procs[p].id \in Ids /\ tasks[procs[p].id] \in Entry
    BY <1>0 DEF AppendLine, TrackInv, IdsKnown, EntryFound, TypeOK
  <2>2. \A id \in Ids : tasks[id] # None => tasks'[id] # None
    BY <1>0, <2>1, EntryChanges DEF AppendLine, TypeOK, Entry, NoneIsNoEntry
  <2>3. \A q \in Procs : procs'[q].id = procs[q].id /\ procs'[q].state = procs[q].state
    BY <1>0 DEF AppendLine, TypeOK, Process
  <2> QED
    BY <1>0, <2>2, <2>3 DEF AppendLine, TrackInv, IdsKnown, EntryFound
<1>5. StopsTheDead'
    BY <1>0 DEF AppendLine, TrackInv, StopsTheDead, Alive
<1>6. OnlyProcessTracked'
  <2>1. procs[p].id \in Ids /\ tasks[procs[p].id] \in Entry
    BY <1>0 DEF AppendLine, TrackInv, IdsKnown, EntryFound, TypeOK
  <2>2. \A q \in Procs : /\ procs'[q].id = procs[q].id
                         /\ procs'[q].state = "unborn" <=> procs[q].state = "unborn"
                         /\ Alive(q)' => Alive(q)
    BY <1>0 DEF AppendLine, TypeOK, Alive, Process
  <2>3. \A id \in Ids : tasks[id] # None =>
            /\ tasks'[id].process = tasks[id].process /\ tasks'[id].status = tasks[id].status
            /\ tasks'[id] # None
    BY <1>0, <1>4, <2>1, EntryChanges DEF AppendLine, TypeOK, Entry, NoneIsNoEntry
  <2>4. \A q \in Procs : /\ BeingRecorded(q) => BeingRecorded(q)'
                         /\ Tracked(q) => Tracked(q)'
    BY <2>3 DEF AppendLine, BeingRecorded, Tracked, Running
  <2> QED
    BY <2>2, <2>4, StillTracked DEF TrackInv
<1> QED
    BY <1>0, <1>1, <1>2, <1>3, <1>4, <1>5, <1>6 DEF TrackInv, NoneIsNoEntry, Entry, Procs

LEMMA MeasureLogsKeeps ==
    ASSUME TrackInv, NEW p \in Procs, MeasureLogs(p)
    PROVE  TrackInv'
<1>0. TypeOK /\ NoneIsNoEntry
    BY DEF TrackInv
<1>1. TypeOK'
    BY <1>0 DEF MeasureLogs, TypeOK
<1>2. IdsKnown'
    BY <1>0 DEF MeasureLogs, TrackInv, IdsKnown
<1>3. OwnProcess'
    BY <1>0 DEF MeasureLogs, TrackInv, OwnProcess, StartedFor
<1>4. EntryFound'
    BY <1>0, <1>1 DEF MeasureLogs, TrackInv, EntryFound
<1>5. StopsTheDead'
    BY <1>0 DEF MeasureLogs, TrackInv, StopsTheDead, Alive
<1>6. OnlyProcessTracked'
  BY OnlyThreadMoves DEF MeasureLogs, TrackInv
<1> QED
    BY <1>0, <1>1, <1>2, <1>3, <1>4, <1>5, <1>6 DEF TrackInv, NoneIsNoEntry, Entry, Procs

LEMMA DropOldestKeeps ==
    ASSUME TrackInv, NEW p \in Procs, DropOldest(p)
    PROVE  TrackInv'
<1>0. TypeOK /\ NoneIsNoEntry
    BY DEF TrackInv
<1>1. TypeOK'
  <2>1. procs[p].id \in Ids /\ tasks[procs[p].id] \in Entry
    BY <1>0 DEF DropOldest, TrackInv, IdsKnown, EntryFound, TypeOK
  <2>2. (IF tasks[procs[p].id].logs > 0 THEN tasks[procs[p].id].logs - 1 ELSE 0) \in Nat
    BY <2>1 DEF Entry
  <2>3. tasks' \in [Ids -> {None} \cup Entry]
    BY <1>0, <2>1, <2>2, EntryChanges DEF DropOldest, TypeOK
  <2> QED
    BY <1>0, <2>3 DEF DropOldest, TypeOK
<1>2. IdsKnown'
    BY <1>0 DEF DropOldest, TrackInv, IdsKnown
<1>3. OwnProcess'
    BY <1>0 DEF DropOldest, TrackInv, OwnProcess, EntryFound, StartedFor
<1>4. EntryFound'
  <2>1. procs[p].id \in Ids /\ tasks[procs[p].id] \in Entry
    BY <1>0 DEF DropOldest, TrackInv, IdsKnown, EntryFound, TypeOK
  <2>2. (IF tasks[procs[p].id].logs > 0 THEN tasks[procs[p].id].logs - 1 ELSE 0) \in Nat
    BY <2>1 DEF Entry
  <2>3. \A id \in Ids : tasks[id] # None => tasks'[id] # None
    BY <1>0, <2>1, <2>2, EntryChanges DEF DropOldest, TypeOK, NoneIsNoEntry
  <2> QED
    BY <1>0, <2>3 DEF DropOldest, TrackInv, IdsKnown, EntryFound
<1>5. StopsTheDead'
    BY <1>0 DEF DropOldest, TrackInv, StopsTheDead, Alive
<1>6. OnlyProcessTracked'
  <2>1. procs[p].id \in Ids /\ tasks[procs[p].id] \in Entry
    BY <1>0 DEF DropOldest, TrackInv, IdsKnown, EntryFound, TypeOK
  <2>2. \A id \in Ids : tasks[id] # None =>
            /\ tasks'[id].process = tasks[id].process /\ tasks'[id].status = tasks[id].status
            /\ tasks'[id] # None
    BY <1>0, <1>4, <2>1, EntryChanges DEF DropOldest, TypeOK, Entry, NoneIsNoEntry
  <2>3. \A q \in Procs : Tracked(q) => Tracked(q)'
    BY <2>2 DEF Tracked, Running
  <2>4. \A q \in Procs : BeingRecorded(q) => BeingRecorded(q)'
    BY DEF DropOldest, BeingRecorded
  <2> QED
    BY <2>3, <2>4, StillTracked DEF DropOldest, TrackInv, Alive
<1> QED
    BY <1>0, <1>1, <1>2, <1>3, <1>4, <1>5, <1>6 DEF TrackInv, NoneIsNoEntry, Entry, Procs

LEMMA FinishKeeps ==
    ASSUME TrackInv, NEW p \in Procs, Finish(p)
    PROVE  TrackInv'
<1>0. TypeOK /\ NoneIsNoEntry
    BY DEF TrackInv
<1>1. TypeOK'
  <2>1. procs[p].id \in Ids /\ tasks[procs[p].id] \in Entry /\ Verdict(p) \in Status
    BY <1>0 DEF Finish, TrackInv, IdsKnown, EntryFound, TypeOK, Verdict, Status
  <2>2. tasks' \in [Ids -> {None} \cup Entry]
    BY <1>0, <2>1, EntryChanges DEF Finish, TypeOK
  <2> QED
    BY <1>0, <2>2 DEF Finish, TypeOK
<1>2. IdsKnown'
    BY <1>0 DEF Finish, TrackInv, IdsKnown
<1>3. OwnProcess'
    BY <1>0 DEF Finish, TrackInv, OwnProcess, EntryFound, StartedFor
<1>4. EntryFound'
  <2>1. procs[p].id \in Ids /\ tasks[procs[p].id] \in Entry /\ Verdict(p) \in Status
    BY <1>0 DEF Finish, TrackInv, IdsKnown, EntryFound, TypeOK, Verdict, Status
  <2>2. \A id \in Ids : tasks[id] # None => tasks'[id] # None
    BY <1>0, <2>1, EntryChanges DEF Finish, TypeOK, NoneIsNoEntry
  <2> QED
    BY <1>0, <2>2 DEF Finish, TrackInv, IdsKnown, EntryFound
<1>5. StopsTheDead'
    BY <1>0 DEF Finish, TrackInv, StopsTheDead, Alive
<1>6. OnlyProcessTracked'
  <2>1. /\ procs[p].id \in Ids /\ StartedFor(p, procs[p].id)
        /\ ~Alive(p)
    BY DEF Finish, TrackInv, IdsKnown, StartedFor, Alive
  <2>2. \A id \in Ids : id # procs[p].id => tasks'[id] = tasks[id]
    BY <1>0 DEF Finish, TypeOK
  <2>3. \A q \in Procs : BeingRecorded(q) => BeingRecorded(q)'
    BY DEF Finish, BeingRecorded
  <2> QED
    BY <2>1, <2>2, <2>3, OnlyDeadTaskChanges DEF Finish, TrackInv
<1> QED
    BY <1>0, <1>1, <1>2, <1>3, <1>4, <1>5, <1>6 DEF TrackInv, NoneIsNoEntry, Entry, Procs

LEMMA StopCheckKeeps ==
    ASSUME TrackInv, NEW t \in Threads, NEW id \in Ids, StopCheck(t, id)
    PROVE  TrackInv'
<1>0. TypeOK /\ NoneIsNoEntry
    BY DEF TrackInv
<1>1. TypeOK'
    BY <1>0 DEF StopCheck, TypeOK, Thread, Running
<1>2. IdsKnown'
    BY <1>0 DEF StopCheck, TrackInv, IdsKnown
<1>3. OwnProcess'
    BY <1>0 DEF StopCheck, TrackInv, OwnProcess, StartedFor
<1>4. EntryFound'
    BY <1>0, <1>1 DEF StopCheck, TrackInv, EntryFound, Running
<1>5. StopsTheDead'
    BY <1>0 DEF StopCheck, TrackInv, StopsTheDead, Alive
<1>6. OnlyProcessTracked'
  <2>1. \A u \in Threads : threads[u].pc = "record" => threads'[u] = threads[u]
    BY <1>0 DEF StopCheck, TypeOK
  <2> QED
    BY <2>1, OnlyThreadMoves DEF StopCheck, TrackInv
<1> QED
    BY <1>0, <1>1, <1>2, <1>3, <1>4, <1>5, <1>6 DEF TrackInv, NoneIsNoEntry, Entry, Procs

LEMMA SignalKeeps ==
    ASSUME TrackInv, NEW t \in Threads, Signal(t)
    PROVE  TrackInv'
<1>0. TypeOK /\ NoneIsNoEntry
    BY DEF TrackInv
<1>1. TypeOK'
  <2>1. tasks[threads[t].id].process \in Procs
    BY DEF Signal, TrackInv, IdsKnown, OwnProcess, EntryFound, StartedFor
  <2>2. [threads[t] EXCEPT !.pc = "wait", !.p = tasks[threads[t].id].process] \in Thread
    BY <1>0, <2>1 DEF TypeOK, Thread
  <2>3. threads' \in [Threads -> Thread]
    BY <1>0, <2>2 DEF Signal, TypeOK
  <2> QED
    BY <1>0, <2>3 DEF Signal, TypeOK
<1>2. IdsKnown'
    BY <1>0 DEF Signal, TrackInv, TypeOK, IdsKnown
<1>3. OwnProcess'
    BY <1>0 DEF Signal, TrackInv, TypeOK, IdsKnown, OwnProcess, EntryFound, StartedFor
<1>4. EntryFound'
    BY <1>0, <1>1 DEF Signal, TrackInv, TypeOK, EntryFound
<1>5. StopsTheDead'
    BY <1>0 DEF Signal, TrackInv, TypeOK, StopsTheDead, Alive
<1>6. OnlyProcessTracked'
  <2>1. \A u \in Threads : threads[u].pc = "record" => threads'[u] = threads[u]
    BY <1>0 DEF Signal, TypeOK
  <2> QED
    BY <2>1, OnlyThreadMoves DEF Signal, TrackInv
<1> QED
    BY <1>0, <1>1, <1>2, <1>3, <1>4, <1>5, <1>6 DEF TrackInv, NoneIsNoEntry, Entry, Procs

LEMMA WaitReturnsKeeps ==
    ASSUME TrackInv, NEW t \in Threads, WaitReturns(t)
    PROVE  TrackInv'
<1>0. TypeOK /\ NoneIsNoEntry
    BY DEF TrackInv
<1>1. TypeOK'
    BY <1>0 DEF WaitReturns, Goto, TypeOK, Thread
<1>2. IdsKnown'
    BY <1>0 DEF WaitReturns, Goto, TrackInv, IdsKnown
<1>3. OwnProcess'
    BY <1>0 DEF WaitReturns, Goto, TrackInv, OwnProcess, StartedFor
<1>4. EntryFound'
    BY <1>0, <1>1 DEF WaitReturns, Goto, TrackInv, EntryFound
<1>5. StopsTheDead'
    BY <1>0 DEF WaitReturns, Goto, TrackInv, StopsTheDead, Alive
<1>6. OnlyProcessTracked'
  <2>1. \A u \in Threads : threads[u].pc = "record" => threads'[u] = threads[u]
    BY <1>0 DEF WaitReturns, Goto, TypeOK
  <2> QED
    BY <2>1, OnlyThreadMoves DEF WaitReturns, TrackInv
<1> QED
    BY <1>0, <1>1, <1>2, <1>3, <1>4, <1>5, <1>6 DEF TrackInv, NoneIsNoEntry, Entry, Procs

LEMMA WaitTimesOutKeeps ==
    ASSUME TrackInv, NEW t \in Threads, WaitTimesOut(t)
    PROVE  TrackInv'
<1>0. TypeOK /\ NoneIsNoEntry
    BY DEF TrackInv
<1>1. TypeOK'
  <2>1. /\ threads[t].p \in Procs /\ threads[t] \in Thread
        /\ procs[threads[t].p] \in Process
    BY <1>0 DEF WaitTimesOut, TrackInv, OwnProcess, StartedFor, TypeOK
  <2>2. [procs[threads[t].p] EXCEPT !.state = "exited", !.code = 1] \in Process
    BY <2>1 DEF Process
  <2>3. procs' \in [Procs -> Process]
    BY <1>0, <2>1, <2>2 DEF WaitTimesOut, TypeOK
  <2>4. threads' \in [Threads -> Thread]
    BY <1>0, <2>1, ThreadChanges DEF WaitTimesOut, Goto, TypeOK
  <2> QED
    BY <1>0, <2>3, <2>4 DEF WaitTimesOut, TypeOK
<1>2. IdsKnown'
    BY <1>0 DEF WaitTimesOut, Goto, TrackInv, TypeOK, IdsKnown, Alive
<1>3. OwnProcess'
    BY <1>0 DEF WaitTimesOut, Goto, TrackInv, TypeOK, OwnProcess, StartedFor
<1>4. EntryFound'
  <2>1. \A q \in Procs : /\ procs'[q].id = procs[q].id
                         /\ procs[q].state # "unborn" => procs'[q].state # "unborn"
    BY <1>0 DEF WaitTimesOut, TypeOK, Process
  <2>2. \A u \in Threads : /\ threads'[u].id = threads[u].id
                           /\ threads'[u].pc = threads[u].pc \/ u = t
    BY <1>0 DEF WaitTimesOut, Goto, TypeOK, Thread
  <2> QED
    BY <2>1, <2>2 DEF WaitTimesOut, TrackInv, EntryFound
<1>5. StopsTheDead'
    BY <1>0 DEF WaitTimesOut, Goto, TrackInv, TypeOK, OwnProcess, StopsTheDead, Alive, StartedFor
<1>6. OnlyProcessTracked'
  <2>1. threads[t].p \in Procs
    BY DEF WaitTimesOut, TrackInv, OwnProcess, StartedFor
  <2>2. /\ \A q \in Procs : procs'[q].id = procs[q].id
        /\ \A q \in Procs : procs'[q].state = "unborn" <=> procs[q].state = "unborn"
        /\ \A q \in Procs : Alive(q)' => Alive(q)
    BY <1>0, <2>1 DEF WaitTimesOut, TypeOK, Process, Alive
  <2>3. \A q \in Procs : StartsOf(procs[q].id)' = StartsOf(procs[q].id)
    BY <2>2 DEF StartsOf
  <2>4. \A q \in Procs : /\ Tracked(q) => Tracked(q)'
                         /\ BeingRecorded(q) => BeingRecorded(q)'
    BY <1>0 DEF WaitTimesOut, Goto, Tracked, Running, BeingRecorded
  <2> QED
    BY <2>2, <2>3, <2>4 DEF TrackInv, OnlyProcessTracked
<1> QED
    BY <1>0, <1>1, <1>2, <1>3, <1>4, <1>5, <1>6 DEF TrackInv, NoneIsNoEntry, Entry, Procs

LEMMA MarkStoppedKeeps ==
    ASSUME TrackInv, NEW t \in Threads, MarkStopped(t)
    PROVE  TrackInv'
<1>0. TypeOK /\ NoneIsNoEntry
    BY DEF TrackInv
<1>1. TypeOK'
  <2>1. threads[t].id \in Ids /\ tasks[threads[t].id] \in Entry /\ "stopped" \in Status
    BY <1>0 DEF MarkStopped, TrackInv, IdsKnown, EntryFound, TypeOK, Status
  <2>2. tasks' \in [Ids -> {None} \cup Entry]
    BY <1>0, <2>1, EntryChanges DEF MarkStopped, TypeOK
  <2> QED
    BY <1>0, <2>2 DEF MarkStopped, Reply, Idle, Thread, TypeOK
<1>2. IdsKnown'
    BY <1>0 DEF MarkStopped, Reply, TrackInv, IdsKnown, Idle
<1>3. OwnProcess'
    BY <1>0 DEF MarkStopped, Reply, TrackInv, OwnProcess, EntryFound, StartedFor, Idle
<1>4. EntryFound'
  <2>1. threads[t].id \in Ids /\ tasks[threads[t].id] \in Entry /\ "stopped" \in Status
    BY <1>0 DEF MarkStopped, TrackInv, IdsKnown, EntryFound, TypeOK, Status
  <2>2. \A id \in Ids : tasks[id] # None => tasks'[id] # None
    BY <1>0, <2>1, EntryChanges DEF MarkStopped, TypeOK, NoneIsNoEntry
  <2> QED
    BY <1>0, <2>2 DEF MarkStopped, Reply, Idle, TrackInv, IdsKnown, EntryFound
<1>5. StopsTheDead'
    BY <1>0 DEF MarkStopped, Reply, TrackInv, StopsTheDead, Idle, Alive
<1>6. OnlyProcessTracked'
  <2>1. /\ threads[t].id \in Ids /\ threads[t].p \in Procs
        /\ StartedFor(threads[t].p, threads[t].id) /\ ~Alive(threads[t].p)
    BY DEF MarkStopped, TrackInv, IdsKnown, OwnProcess, StopsTheDead, StartedFor
  <2>2. \A id \in Ids : id # threads[t].id => tasks'[id] = tasks[id]
    BY <1>0 DEF MarkStopped, TypeOK
  <2>3. \A q \in Procs : BeingRecorded(q) => BeingRecorded(q)'
    BY <1>0 DEF MarkStopped, Reply, BeingRecorded, TypeOK
  <2> QED
    BY <2>1, <2>2, <2>3, OnlyDeadTaskChanges DEF MarkStopped, TrackInv
<1> QED
    BY <1>0, <1>1, <1>2, <1>3, <1>4, <1>5, <1>6 DEF TrackInv, NoneIsNoEntry, Entry, Procs

-----------------------------------------------------------------------------
LEMMA TrackKeeps == TrackInv /\ [Next]_vars => TrackInv'
<1> SUFFICES ASSUME TrackInv, [Next]_vars PROVE TrackInv'
    OBVIOUS
<1>1. CASE \E t \in Threads : StartTask(t)
    BY <1>1, StartCheckKeeps, SpawnKeeps, RecordKeeps, StartReaderKeeps DEF StartTask
<1>2. CASE \E t \in Threads : StopTask(t)
    BY <1>2, StopCheckKeeps, SignalKeeps, WaitReturnsKeeps, WaitTimesOutKeeps, MarkStoppedKeeps
       DEF StopTask
<1>3. CASE \E p \in Procs : WriteLine(p) \/ Exit(p) \/ ReadLogs(p)
    BY <1>3, WriteLineKeeps, ExitKeeps, AppendLineKeeps, MeasureLogsKeeps, DropOldestKeeps, FinishKeeps
       DEF ReadLogs
<1>4. CASE UNCHANGED vars
    BY <1>4
       DEF vars, TrackInv, TypeOK, IdsKnown, OwnProcess, EntryFound, StopsTheDead,
           StartedFor, OnlyProcessTracked, StartsOf, BeingRecorded, Tracked, Running,
           Alive
<1> QED
    BY <1>1, <1>2, <1>3, <1>4 DEF Next

(* task_manager.py:13-78: the process of an id that was started once is the    *)
(* process of a task that says it is running, or about to be entered, for as   *)
(* long as it lives: no stop, no reader and no request for another id makes it *)
(* an orphan.                                                                  *)
THEOREM OnlyProcessIsTracked == NoneIsNoEntry /\ Spec => []OnlyProcessTracked
<1>1. TrackInv => OnlyProcessTracked
    BY DEF TrackInv
<1> QED
    BY InitTrack, TrackKeeps, <1>1, PTL DEF Spec

(* Every step leaves entries, processes and threads well formed; in particular *)
(* no reader finds the entry missing that it looks up again for every line.    *)
THEOREM TaskTypesHold == NoneIsNoEntry /\ Spec => [](TypeOK /\ EntryFound)
<1>1. TrackInv => TypeOK /\ EntryFound
    BY DEF TrackInv
<1> QED
    BY InitTrack, TrackKeeps, <1>1, PTL DEF Spec
===============================================================================
