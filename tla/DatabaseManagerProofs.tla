------------------------- MODULE DatabaseManagerProofs -------------------------
(***************************************************************************)
(* With one request at a time the database manager keeps its promises over *)
(* any number of restarts, for any number of databases, wherever in a      *)
(* request the process ends, except while the manifest is empty.           *)
(***************************************************************************)
EXTENDS DatabaseManager, FiniteSetTheorems, TLAPS

FiniteConstants == IsFiniteSet(Names) /\ IsFiniteSet(Threads)

Record == [pc : {"idle", "mkdir", "open", "erase", "rmdir", "list", "truncate", "write",
                 "answer"},
           op : {"none", "create", "delete"},
           name : Names \cup {"none"}, names : SUBSET Names]

Types ==
    /\ phase \in {"down", "up", "failed"} /\ torn \in BOOLEAN
    /\ databases \in [Names -> Contents] /\ disk \in [Names -> Contents]
    /\ threads \in [Threads -> Record]
    /\ promise \in [Names -> Contents \cup {"open", "unknown"}]

(* The text is whole, and only a running process works. *)
FileOK == \E S \in SUBSET Names : manifest \in {EmptyText, TextOf(S)}

Serial ==
    /\ \A t, u \in Threads : threads[t].pc # "idle" /\ threads[u].pc # "idle" => t = u
    /\ phase # "up" => \A t \in Threads : threads[t].pc = "idle"
    /\ phase # "up" => Served = {}

(* What a request has done to its database when it has come to pc. *)
RequestOK ==
    \A t \in Threads : threads[t].pc # "idle" =>
        LET r == threads[t] IN
        /\ r.name \in Names /\ promise[r.name] \in {"open", "unknown"}
        /\ r.op = IF r.pc \in {"mkdir", "open"} THEN "create"
                  ELSE IF r.pc \in {"erase", "rmdir"} THEN "delete" ELSE r.op
        /\ r.op \in {"create", "delete"}
        /\ r.pc \in {"mkdir", "open", "rmdir"} => databases[r.name] = "none"
        /\ r.pc \in {"mkdir", "open"} /\ ~torn => disk[r.name] # "written"
        /\ r.pc = "erase" => databases[r.name] # "none"
        /\ r.pc \in {"list", "truncate", "write", "answer"} =>
              /\ r.op = "delete" => databases[r.name] = "none" /\ disk[r.name] = "none"
              /\ r.op = "create" => databases[r.name] # "none"
              /\ r.op = "create" /\ ~torn => databases[r.name] = "empty"
        /\ r.pc \in {"truncate", "write"} => r.names = Served
        /\ r.pc = "write" => manifest = EmptyText

(* An engine holds what its directory holds. *)
EngineOK == \A n \in Served : databases[n] = disk[n]

(* The manifest lists what is served, but for the request that is about to save it. *)
ListedOK ==
    phase = "up" /\ ~torn =>
        /\ \A t \in Threads : threads[t].pc \in {"rmdir", "list", "truncate"} =>
              manifest.names = IF threads[t].op = "delete" THEN Served \cup {threads[t].name}
                               ELSE Served \ {threads[t].name}
        /\ (\A t \in Threads : threads[t].pc \notin {"rmdir", "list", "truncate", "write"}) =>
              manifest.names = Served

(* What has been written to is served, listed for the next start, or being deleted. *)
WrittenKnown ==
    ~torn => \A n \in Names : disk[n] = "written" =>
        IF phase = "up"
        THEN n \in Served \/ \E t \in Threads : threads[t].pc = "rmdir" /\ threads[t].name = n
        ELSE n \in manifest.names

(* A promise is kept, or will be by the next start. *)
PromiseOK ==
    ~torn => \A n \in Names : promise[n] \in Contents =>
        IF phase = "up" THEN promise[n] = databases[n]
        ELSE /\ n \in manifest.names => promise[n] = disk[n] /\ disk[n] # "none"
             /\ n \notin manifest.names => promise[n] = "none"

SerialInv ==
    /\ Types /\ FileOK /\ Serial /\ RequestOK
    /\ EngineOK /\ ListedOK /\ WrittenKnown /\ PromiseOK

-----------------------------------------------------------------------------
LEMMA FileReadable == FileOK => Readable(manifest)
    BY DEF FileOK, Readable, EmptyText, TextOf

LEMMA NamesCounted == FiniteConstants => \A S \in SUBSET Names : Cardinality(S) \in Nat
    BY FS_Subset, FS_CardinalityType DEF FiniteConstants

(* With one request at a time a request begins when no other is under way. *)
LEMMA NobodyBusy ==
    ASSUME FiniteConstants, clients = 1, Cardinality(Busy) < clients
    PROVE  \A t \in Threads : threads[t].pc = "idle"
<1>1. IsFiniteSet(Busy)
    BY FS_Subset DEF FiniteConstants, Busy
<1>2. Cardinality(Busy) = 0
    BY <1>1, FS_CardinalityType
<1>3. Busy = {}
    BY <1>1, <1>2, FS_EmptySet
<1> QED
    BY <1>3 DEF Busy

LEMMA InitSerial == Init => SerialInv
<1> SUFFICES ASSUME Init PROVE SerialInv
    OBVIOUS
<1>1. Types
    BY DEF Init, Types, Idle, Record, Contents
<1>2. FileOK
    BY DEF Init, FileOK
<1>3. \A t \in Threads : threads[t].pc = "idle"
    BY DEF Init, Idle
<1>4. Served = {}
    BY DEF Init, Served
<1>5. Serial /\ RequestOK /\ EngineOK /\ ListedOK
    BY <1>3, <1>4 DEF Init, Serial, RequestOK, EngineOK, ListedOK
<1>6. WrittenKnown /\ PromiseOK
    BY DEF Init, WrittenKnown, PromiseOK, EmptyText
<1> QED
    BY <1>1, <1>2, <1>5, <1>6 DEF SerialInv

LEMMA StartKeeps ==
    ASSUME SerialInv, Start
    PROVE  SerialInv'
<1>0. Types /\ Readable(manifest) /\ manifest.names \in SUBSET Names
    BY FileReadable DEF SerialInv, FileOK, EmptyText, TextOf
<1>1. /\ phase # "up" /\ phase' = "up" /\ UNCHANGED <<manifest, threads, clients, promise, torn, ends>>
      /\ disk' = [n \in Names |-> IF n \in manifest.names /\ disk[n] = "none"
                                 THEN "empty" ELSE disk[n]]
      /\ databases' = [n \in Names |-> IF n \in manifest.names THEN disk'[n] ELSE "none"]
    BY <1>0 DEF Start
<1>2. \A t \in Threads : threads'[t].pc = "idle"
    BY <1>1 DEF SerialInv, Serial
<1>3. Types'
    BY <1>0, <1>1 DEF Types, Contents
<1>4. Served' = manifest.names /\ EngineOK'
    BY <1>0, <1>1 DEF Served, EngineOK
<1>5. FileOK' /\ Serial' /\ RequestOK'
    BY <1>1, <1>2 DEF SerialInv, FileOK, Serial, RequestOK
<1>6. ListedOK'
    BY <1>1, <1>2, <1>4 DEF ListedOK
<1>7. WrittenKnown'
    BY <1>1, <1>4 DEF SerialInv, WrittenKnown
<1>8. PromiseOK'
    BY <1>0, <1>1 DEF SerialInv, PromiseOK
<1> QED
    BY <1>3, <1>4, <1>5, <1>6, <1>7, <1>8 DEF SerialInv

LEMMA EndKeeps ==
    ASSUME SerialInv, End
    PROVE  SerialInv'
<1>0. Types
    BY DEF SerialInv
<1>1. Types' /\ FileOK' /\ Serial' /\ RequestOK' /\ EngineOK' /\ ListedOK'
    BY <1>0 DEF End, SerialInv, Types, FileOK, Serial, RequestOK, EngineOK, ListedOK, Idle, Record,
                Contents, Served
<1>2. ASSUME ~torn', NEW n \in Names
      PROVE  /\ disk[n] = "written" => n \in manifest.names
             /\ promise[n] \in Contents => (n \in manifest.names <=> n \in Served)
  <2>1. ~torn /\ \A t \in Threads : threads[t].pc # "write"
    BY <1>2 DEF End
  <2>2. CASE \E t \in Threads : threads[t].pc \in {"rmdir", "list", "truncate"}
    <3>1. PICK t \in Threads : threads[t].pc \in {"rmdir", "list", "truncate"}
      BY <2>2
    <3>2. manifest.names = IF threads[t].op = "delete" THEN Served \cup {threads[t].name}
                           ELSE Served \ {threads[t].name}
      BY <2>1, <3>1 DEF End, SerialInv, ListedOK
    <3>3. /\ promise[threads[t].name] \notin Contents /\ threads[t].name \in Names
          /\ threads[t].op # "delete" => databases[threads[t].name] = "empty"
          /\ threads[t].pc = "rmdir" => threads[t].op = "delete"
      BY <2>1, <3>1 DEF SerialInv, RequestOK, Contents
    <3>4. \A u \in Threads : threads[u].pc = "rmdir" => u = t
      BY <3>1 DEF SerialInv, Serial
    <3>5. disk[n] = "written" => n \in Served \/ (threads[t].pc = "rmdir" /\ threads[t].name = n)
      BY <2>1, <3>4 DEF End, SerialInv, WrittenKnown
    <3>6. n \in Served /\ disk[n] = "written" => databases[n] # "empty"
      BY DEF SerialInv, EngineOK
    <3> QED
      BY <3>2, <3>3, <3>5, <3>6
  <2>3. CASE \A t \in Threads : threads[t].pc \notin {"rmdir", "list", "truncate"}
    BY <2>1, <2>3 DEF End, SerialInv, ListedOK, WrittenKnown
  <2> QED
    BY <2>2, <2>3
<1>3. WrittenKnown'
    BY <1>2 DEF End, WrittenKnown
<1>4. PromiseOK'
    BY <1>0, <1>2 DEF End, SerialInv, PromiseOK, EngineOK, Served, Types
<1> QED
    BY <1>1, <1>3, <1>4 DEF SerialInv

-----------------------------------------------------------------------------
(* The steps of a request *)

LEMMA Alone ==
    ASSUME SerialInv, NEW t \in Threads, threads[t].pc # "idle"
    PROVE  /\ phase = "up" /\ Types /\ threads[t].name \in Names
           /\ \A u \in Threads : u # t => threads[u].pc = "idle"
    BY DEF SerialInv, Serial, RequestOK

LEMMA CreateCheckKeeps ==
    ASSUME FiniteConstants, clients = 1, SerialInv,
           NEW t \in Threads, NEW n \in Names, CreateCheck(t, n)
    PROVE  SerialInv'
<1>1. /\ Types /\ phase = "up" /\ databases[n] = "none"
      /\ \A u \in Threads : threads[u].pc = "idle"
    BY NobodyBusy DEF CreateCheck, Begin, SerialInv
<1>2. /\ threads' = [threads EXCEPT ![t] = [pc |-> "mkdir", op |-> "create", name |-> n, names |-> {}]]
      /\ UNCHANGED <<phase, databases, disk, manifest, torn>>
      /\ promise' \in [Names -> Contents \cup {"open", "unknown"}]
      /\ promise'[n] \in {"open", "unknown"} /\ \A m \in Names : m # n => promise'[m] = promise[m]
    BY <1>1 DEF CreateCheck, Begin, Expect, Types
<1>3. Types' /\ FileOK' /\ EngineOK'
    BY <1>1, <1>2 DEF SerialInv, Types, Record, FileOK, EngineOK, Served
<1>4. Serial'
    BY <1>1, <1>2 DEF Serial, Types
<1>5. n \notin Served /\ (~torn => disk[n] # "written")
    BY <1>1 DEF SerialInv, WrittenKnown, Served
<1>6. RequestOK'
    BY <1>1, <1>2, <1>5 DEF RequestOK, Types
<1>7. ListedOK' /\ WrittenKnown'
    BY <1>1, <1>2 DEF SerialInv, ListedOK, WrittenKnown, Types, Served
<1>8. PromiseOK'
    BY <1>1, <1>2 DEF SerialInv, PromiseOK, Contents
<1> QED
    BY <1>3, <1>4, <1>6, <1>7, <1>8 DEF SerialInv

LEMMA DeleteCheckKeeps ==
    ASSUME FiniteConstants, clients = 1, SerialInv,
           NEW t \in Threads, NEW n \in Names, DeleteCheck(t, n)
    PROVE  SerialInv'
<1>1. /\ Types /\ phase = "up" /\ databases[n] # "none"
      /\ \A u \in Threads : threads[u].pc = "idle"
    BY NobodyBusy DEF DeleteCheck, Begin, SerialInv
<1>2. /\ threads' = [threads EXCEPT ![t] = [pc |-> "erase", op |-> "delete", name |-> n, names |-> {}]]
      /\ UNCHANGED <<phase, databases, disk, manifest, torn>>
      /\ promise' \in [Names -> Contents \cup {"open", "unknown"}]
      /\ promise'[n] \in {"open", "unknown"} /\ \A m \in Names : m # n => promise'[m] = promise[m]
    BY <1>1 DEF DeleteCheck, Begin, Expect, Types
<1>3. Types' /\ FileOK' /\ EngineOK'
    BY <1>1, <1>2 DEF SerialInv, Types, Record, FileOK, EngineOK, Served
<1>4. Serial'
    BY <1>1, <1>2 DEF Serial, Types
<1>6. RequestOK'
    BY <1>1, <1>2 DEF RequestOK, Types
<1>7. ListedOK' /\ WrittenKnown'
    BY <1>1, <1>2 DEF SerialInv, ListedOK, WrittenKnown, Types, Served
<1>8. PromiseOK'
    BY <1>1, <1>2 DEF SerialInv, PromiseOK, Contents
<1> QED
    BY <1>3, <1>4, <1>6, <1>7, <1>8 DEF SerialInv

LEMMA MakeDirectoryKeeps ==
    ASSUME SerialInv, NEW t \in Threads, MakeDirectory(t)
    PROVE  SerialInv'
<1>1. /\ phase = "up" /\ Types /\ threads[t].name \in Names /\ threads[t].pc = "mkdir"
      /\ \A u \in Threads : u # t => threads[u].pc = "idle"
    BY Alone DEF MakeDirectory
<1>2. /\ threads' = [threads EXCEPT ![t].pc = "open"]
      /\ disk' = [disk EXCEPT ![threads[t].name] = IF @ = "none" THEN "empty" ELSE @]
      /\ UNCHANGED <<phase, databases, manifest, promise, torn>>
    BY DEF MakeDirectory, Goto
<1>3. Types'
    BY <1>1, <1>2 DEF Types, Record, Contents
<1>4. FileOK' /\ Serial'
    BY <1>1, <1>2 DEF SerialInv, FileOK, Serial, Types, Served
<1>5. RequestOK'
    BY <1>1, <1>2 DEF SerialInv, RequestOK, Types, Served
<1>6. EngineOK'
    BY <1>1, <1>2 DEF SerialInv, EngineOK, Served, RequestOK, Types
<1>7. ListedOK'
    BY <1>1, <1>2 DEF SerialInv, ListedOK, Served, RequestOK, Types
<1>8. WrittenKnown'
    BY <1>1, <1>2 DEF SerialInv, WrittenKnown, Served, RequestOK, Types
<1>9. PromiseOK'
    BY <1>1, <1>2 DEF SerialInv, PromiseOK, RequestOK, Contents, Types
<1> QED
    BY <1>3, <1>4, <1>5, <1>6, <1>7, <1>8, <1>9 DEF SerialInv

LEMMA OpenEngineKeeps ==
    ASSUME SerialInv, NEW t \in Threads, OpenEngine(t)
    PROVE  SerialInv'
<1>1. /\ phase = "up" /\ Types /\ threads[t].name \in Names /\ threads[t].pc = "open"
      /\ \A u \in Threads : u # t => threads[u].pc = "idle"
    BY Alone DEF OpenEngine
<1>2. /\ threads' = [threads EXCEPT ![t].pc = "list"]
      /\ disk' = [disk EXCEPT ![threads[t].name] = IF @ = "none" THEN "empty" ELSE @]
      /\ databases' = [databases EXCEPT ![threads[t].name] = disk'[threads[t].name]]
      /\ UNCHANGED <<phase, manifest, promise, torn>>
    BY DEF OpenEngine, Goto
<1>3. Types'
    BY <1>1, <1>2 DEF Types, Record, Contents
<1>4. FileOK' /\ Serial'
    BY <1>1, <1>2 DEF SerialInv, FileOK, Serial, Types, Served
<1>10. /\ threads[t].op = "create" /\ databases'[threads[t].name] # "none"
       /\ ~torn => databases'[threads[t].name] = "empty"
    BY <1>1, <1>2 DEF SerialInv, RequestOK, Types, Contents
<1>5. RequestOK'
    BY <1>1, <1>2, <1>10 DEF SerialInv, RequestOK, Types
<1>6. EngineOK'
    BY <1>1, <1>2 DEF SerialInv, EngineOK, Served, RequestOK, Types
<1>7. ListedOK'
  <2>1. threads[t].name \notin Served /\ Served' = Served \cup {threads[t].name}
    BY <1>1, <1>2, <1>10 DEF SerialInv, RequestOK, Served, Types
  <2>2. ~torn => manifest.names = Served
    BY <1>1 DEF SerialInv, ListedOK
  <2>3. ~torn => manifest.names = IF threads[t].op = "delete" THEN Served' \cup {threads[t].name}
                                  ELSE Served' \ {threads[t].name}
    <3>1. \A S, x : x \notin S => S = (S \cup {x}) \ {x}
      OBVIOUS
    <3>2. Served = Served' \ {threads[t].name}
      BY <2>1, <3>1
    <3> QED
      BY <1>10, <2>2, <3>2
  <2>4. /\ \A u \in Threads : threads'[u].pc # "idle" => u = t
        /\ threads'[t].pc = "list" /\ threads'[t].op = threads[t].op /\ threads'[t].name = threads[t].name
    BY <1>1, <1>2 DEF Types, Record
  <2> QED
    BY <1>2, <2>3, <2>4 DEF ListedOK
<1>8. WrittenKnown'
    BY <1>1, <1>2 DEF SerialInv, WrittenKnown, Served, RequestOK, Types
<1>9. PromiseOK'
    BY <1>1, <1>2 DEF SerialInv, PromiseOK, RequestOK, Contents, Types
<1> QED
    BY <1>3, <1>4, <1>5, <1>6, <1>7, <1>8, <1>9 DEF SerialInv

LEMMA EraseEngineKeeps ==
    ASSUME SerialInv, NEW t \in Threads, EraseEngine(t)
    PROVE  SerialInv'
<1>1. /\ phase = "up" /\ Types /\ threads[t].name \in Names /\ threads[t].pc = "erase"
      /\ \A u \in Threads : u # t => threads[u].pc = "idle"
    BY Alone DEF EraseEngine
<1>2. /\ threads' = [threads EXCEPT ![t].pc = "rmdir"]
      /\ databases' = [databases EXCEPT ![threads[t].name] = "none"]
      /\ UNCHANGED <<phase, disk, manifest, promise, torn>>
    BY DEF EraseEngine, Goto
<1>3. Types'
    BY <1>1, <1>2 DEF Types, Record, Contents
<1>4. FileOK' /\ Serial'
    BY <1>1, <1>2 DEF SerialInv, FileOK, Serial, Types, Served
<1>5. RequestOK'
    BY <1>1, <1>2 DEF SerialInv, RequestOK, Types, Served
<1>6. EngineOK'
    BY <1>1, <1>2 DEF SerialInv, EngineOK, Served, RequestOK, Types
<1>7. ListedOK'
  <2>1. /\ threads[t].name \in Served /\ threads[t].op = "delete"
        /\ Served' = Served \ {threads[t].name}
    BY <1>1, <1>2 DEF SerialInv, RequestOK, Served, Types
  <2>2. ~torn => manifest.names = Served
    BY <1>1 DEF SerialInv, ListedOK
  <2>3. ~torn => manifest.names = IF threads[t].op = "delete" THEN Served' \cup {threads[t].name}
                                  ELSE Served' \ {threads[t].name}
    BY <2>1, <2>2
  <2>4. /\ \A u \in Threads : threads'[u].pc # "idle" => u = t
        /\ threads'[t].pc = "rmdir" /\ threads'[t].op = threads[t].op /\ threads'[t].name = threads[t].name
    BY <1>1, <1>2 DEF Types, Record
  <2> QED
    BY <1>2, <2>3, <2>4 DEF ListedOK
<1>8. WrittenKnown'
    BY <1>1, <1>2 DEF SerialInv, WrittenKnown, Served, RequestOK, Types
<1>9. PromiseOK'
    BY <1>1, <1>2 DEF SerialInv, PromiseOK, RequestOK, Contents, Types
<1> QED
    BY <1>3, <1>4, <1>5, <1>6, <1>7, <1>8, <1>9 DEF SerialInv

LEMMA RemoveDirectoryKeeps ==
    ASSUME SerialInv, NEW t \in Threads, RemoveDirectory(t)
    PROVE  SerialInv'
<1>1. /\ phase = "up" /\ Types /\ threads[t].name \in Names /\ threads[t].pc = "rmdir"
      /\ \A u \in Threads : u # t => threads[u].pc = "idle"
    BY Alone DEF RemoveDirectory
<1>2. /\ threads' = [threads EXCEPT ![t].pc = "list"]
      /\ disk' = [disk EXCEPT ![threads[t].name] = "none"]
      /\ UNCHANGED <<phase, databases, manifest, promise, torn>>
    BY DEF RemoveDirectory, Goto
<1>3. Types'
    BY <1>1, <1>2 DEF Types, Record, Contents
<1>4. FileOK' /\ Serial'
    BY <1>1, <1>2 DEF SerialInv, FileOK, Serial, Types, Served
<1>5. RequestOK'
    BY <1>1, <1>2 DEF SerialInv, RequestOK, Types, Served
<1>6. EngineOK'
    BY <1>1, <1>2 DEF SerialInv, EngineOK, Served, RequestOK, Types
<1>7. ListedOK'
  <2>1. Served' = Served
    BY <1>2 DEF Served
  <2>2. ~torn => manifest.names = IF threads[t].op = "delete" THEN Served \cup {threads[t].name}
                                  ELSE Served \ {threads[t].name}
    BY <1>1 DEF SerialInv, ListedOK
  <2>3. ~torn => manifest.names = IF threads[t].op = "delete" THEN Served' \cup {threads[t].name}
                                  ELSE Served' \ {threads[t].name}
    BY <2>1, <2>2
  <2>4. /\ \A u \in Threads : threads'[u].pc # "idle" => u = t
        /\ threads'[t].pc = "list" /\ threads'[t].op = threads[t].op /\ threads'[t].name = threads[t].name
    BY <1>1, <1>2 DEF Types, Record
  <2> QED
    BY <1>2, <2>3, <2>4 DEF ListedOK
<1>8. WrittenKnown'
    BY <1>1, <1>2 DEF SerialInv, WrittenKnown, Served, RequestOK, Types
<1>9. PromiseOK'
    BY <1>1, <1>2 DEF SerialInv, PromiseOK, RequestOK, Contents, Types
<1> QED
    BY <1>3, <1>4, <1>5, <1>6, <1>7, <1>8, <1>9 DEF SerialInv

LEMMA ListNamesKeeps ==
    ASSUME SerialInv, NEW t \in Threads, ListNames(t)
    PROVE  SerialInv'
<1>1. /\ phase = "up" /\ Types /\ threads[t].name \in Names /\ threads[t].pc = "list"
      /\ \A u \in Threads : u # t => threads[u].pc = "idle"
    BY Alone DEF ListNames
<1>2. /\ threads' = [threads EXCEPT ![t].pc = "truncate", ![t].names = Served]
      /\ UNCHANGED <<phase, databases, disk, manifest, promise, torn>>
    BY DEF ListNames
<1>3. Types'
  <2>1. Served \in SUBSET Names
    BY DEF Served
  <2>2. [threads[t] EXCEPT !.pc = "truncate", !.names = Served] \in Record
    BY <1>1, <2>1 DEF Types, Record
  <2> QED
    BY <1>1, <1>2, <2>2 DEF Types
<1>4. FileOK' /\ Serial'
    BY <1>1, <1>2 DEF SerialInv, FileOK, Serial, Types, Served
<1>5. RequestOK'
  <2>1. Served' = Served
    BY <1>2 DEF Served
  <2>2. threads'[t] = [threads[t] EXCEPT !.pc = "truncate", !.names = Served]
    BY <1>2 DEF SerialInv, Types
  <2>3. \A u \in Threads : u # t => threads'[u] = threads[u]
    BY <1>2 DEF SerialInv, Types
  <2>4. /\ threads'[t].pc = "truncate" /\ threads'[t].names = Served'
        /\ threads'[t].op = threads[t].op /\ threads'[t].name = threads[t].name
    BY <1>1, <2>1, <2>2 DEF Types, Record
  <2>5. UNCHANGED <<databases, disk, manifest, promise, torn>>
    BY <1>2
  <2>6. threads[t].pc = "list"
    BY <1>1
  <2> QED
    BY <2>1, <2>3, <2>4, <2>5, <2>6 DEF SerialInv, RequestOK
<1>6. EngineOK'
    BY <1>1, <1>2 DEF SerialInv, EngineOK, Served, RequestOK, Types
<1>7. ListedOK'
  <2>1. Served' = Served
    BY <1>2 DEF Served
  <2>2. ~torn => manifest.names = IF threads[t].op = "delete" THEN Served \cup {threads[t].name}
                                  ELSE Served \ {threads[t].name}
    BY <1>1 DEF SerialInv, ListedOK
  <2>3. ~torn => manifest.names = IF threads[t].op = "delete" THEN Served' \cup {threads[t].name}
                                  ELSE Served' \ {threads[t].name}
    BY <2>1, <2>2
  <2>4. /\ \A u \in Threads : threads'[u].pc # "idle" => u = t
        /\ threads'[t].pc = "truncate" /\ threads'[t].op = threads[t].op /\ threads'[t].name = threads[t].name
    BY <1>1, <1>2 DEF Types, Record
  <2> QED
    BY <1>2, <2>3, <2>4 DEF ListedOK
<1>8. WrittenKnown'
    BY <1>1, <1>2 DEF SerialInv, WrittenKnown, Served, RequestOK, Types
<1>9. PromiseOK'
    BY <1>1, <1>2 DEF SerialInv, PromiseOK, RequestOK, Contents, Types
<1> QED
    BY <1>3, <1>4, <1>5, <1>6, <1>7, <1>8, <1>9 DEF SerialInv

LEMMA TruncateKeeps ==
    ASSUME SerialInv, NEW t \in Threads, Truncate(t)
    PROVE  SerialInv'
<1>1. /\ phase = "up" /\ Types /\ threads[t].name \in Names /\ threads[t].pc = "truncate"
      /\ \A u \in Threads : u # t => threads[u].pc = "idle"
    BY Alone DEF Truncate
<1>2. /\ threads' = [threads EXCEPT ![t].pc = "write"]
      /\ manifest' = EmptyText
      /\ UNCHANGED <<phase, databases, disk, promise, torn>>
    BY DEF Truncate, Goto
<1>3. Types'
    BY <1>1, <1>2 DEF Types, Record, Contents
<1>4. FileOK' /\ Serial'
    BY <1>1, <1>2 DEF SerialInv, FileOK, Serial, Types, Served
<1>5. RequestOK'
    BY <1>1, <1>2 DEF SerialInv, RequestOK, Types, Served
<1>6. EngineOK'
    BY <1>1, <1>2 DEF SerialInv, EngineOK, Served, RequestOK, Types
<1>7. ListedOK'
    BY <1>1, <1>2 DEF SerialInv, ListedOK, Served, RequestOK, Types
<1>8. WrittenKnown'
    BY <1>1, <1>2 DEF SerialInv, WrittenKnown, Served, RequestOK, Types
<1>9. PromiseOK'
    BY <1>1, <1>2 DEF SerialInv, PromiseOK, RequestOK, Contents, Types
<1> QED
    BY <1>3, <1>4, <1>5, <1>6, <1>7, <1>8, <1>9 DEF SerialInv

LEMMA WriteManifestKeeps ==
    ASSUME FiniteConstants, SerialInv, NEW t \in Threads, WriteManifest(t)
    PROVE  SerialInv'
<1>1. /\ phase = "up" /\ Types /\ threads[t].name \in Names /\ threads[t].pc = "write"
      /\ \A u \in Threads : u # t => threads[u].pc = "idle"
    BY Alone DEF WriteManifest
<1>2. Served \in SUBSET Names /\ Served' = Served
    BY DEF Served, WriteManifest
<1>3. manifest' = TextOf(Served)
  <2>1. manifest = EmptyText /\ threads[t].names = Served
    BY <1>1 DEF SerialInv, RequestOK
  <2>2. Cardinality(Served) \in Nat
    BY <1>2, NamesCounted
  <2> QED
    BY <2>1, <2>2 DEF WriteManifest, WriteOver, TextOf, EmptyText
<1>4. /\ threads' = [threads EXCEPT ![t].pc = "answer"] /\ manifest'.names = Served
      /\ UNCHANGED <<phase, databases, disk, promise, torn>>
    BY <1>3 DEF WriteManifest, Goto, TextOf
<1>5. Types' /\ FileOK' /\ Serial' /\ EngineOK'
    BY <1>1, <1>2, <1>3, <1>4 DEF SerialInv, Types, Record, FileOK, Serial, EngineOK
<1>6. RequestOK'
    BY <1>1, <1>4 DEF SerialInv, RequestOK, Types
<1>7. ListedOK'
    BY <1>1, <1>2, <1>4 DEF ListedOK, Types
<1>8. WrittenKnown' /\ PromiseOK'
    BY <1>1, <1>2, <1>4 DEF SerialInv, WrittenKnown, PromiseOK, Types
<1> QED
    BY <1>5, <1>6, <1>7, <1>8 DEF SerialInv

LEMMA AnswerKeeps ==
    ASSUME SerialInv, NEW t \in Threads, Answer(t)
    PROVE  SerialInv'
<1>1. /\ phase = "up" /\ Types /\ threads[t].name \in Names /\ threads[t].pc = "answer"
      /\ \A u \in Threads : u # t => threads[u].pc = "idle"
    BY Alone DEF Answer
<1>2. /\ threads' = [threads EXCEPT ![t] = Idle]
      /\ UNCHANGED <<phase, databases, disk, manifest, torn>>
      /\ promise' \in [Names -> Contents \cup {"open", "unknown"}]
      /\ \A n \in Names : n # threads[t].name => promise'[n] = promise[n]
      /\ promise'[threads[t].name] \in Contents =>
            promise'[threads[t].name] = IF threads[t].op = "create" THEN "empty" ELSE "none"
    BY <1>1 DEF Answer, Expect, Types, Contents
<1>3. Types' /\ FileOK' /\ Serial' /\ EngineOK'
    BY <1>1, <1>2 DEF SerialInv, Types, Record, Idle, FileOK, Serial, EngineOK, Served
<1>4. RequestOK'
    BY <1>1, <1>2 DEF RequestOK, Types, Idle
<1>5. ListedOK' /\ WrittenKnown'
    BY <1>1, <1>2 DEF SerialInv, ListedOK, WrittenKnown, Types, Served, Idle
<1>6. PromiseOK'
  <2>1. ~torn => databases[threads[t].name] = IF threads[t].op = "create" THEN "empty" ELSE "none"
    BY <1>1 DEF SerialInv, RequestOK
  <2> QED
    BY <1>1, <1>2, <2>1 DEF SerialInv, PromiseOK
<1> QED
    BY <1>3, <1>4, <1>5, <1>6 DEF SerialInv

LEMMA PutKeeps ==
    ASSUME FiniteConstants, clients = 1, SerialInv,
           NEW t \in Threads, NEW n \in Names, Put(t, n)
    PROVE  SerialInv'
<1>1. /\ Types /\ phase = "up" /\ databases[n] # "none" /\ disk[n] = databases[n]
      /\ \A u \in Threads : threads[u].pc = "idle"
    BY NobodyBusy DEF Put, SerialInv, EngineOK, Served
<1>2. /\ databases' = [databases EXCEPT ![n] = "written"] /\ disk' = [disk EXCEPT ![n] = "written"]
      /\ UNCHANGED <<phase, manifest, threads, torn>>
      /\ promise' \in [Names -> Contents \cup {"open", "unknown"}]
      /\ promise'[n] \in {"written", "unknown"} /\ \A m \in Names : m # n => promise'[m] = promise[m]
    BY <1>1 DEF Put, Expect, Types, Contents
<1>3. Served' = Served /\ n \in Served
    BY <1>1, <1>2 DEF Served, Types
<1>4. Types' /\ FileOK' /\ Serial' /\ EngineOK'
    BY <1>1, <1>2, <1>3 DEF SerialInv, Types, Contents, FileOK, Serial, EngineOK
<1>5. RequestOK'
    BY <1>1, <1>2 DEF RequestOK
<1>6. ListedOK' /\ WrittenKnown'
    BY <1>1, <1>2, <1>3 DEF SerialInv, ListedOK, WrittenKnown, Types
<1>7. PromiseOK'
    BY <1>1, <1>2 DEF SerialInv, PromiseOK, Contents, Types
<1> QED
    BY <1>4, <1>5, <1>6, <1>7 DEF SerialInv

-----------------------------------------------------------------------------
LEMMA SerialKeeps ==
    ASSUME FiniteConstants, clients = 1, SerialInv, [Next]_vars
    PROVE  SerialInv'
<1>1. CASE Start \/ End
    BY <1>1, StartKeeps, EndKeeps
<1>2. ASSUME NEW t \in Threads, CreateDatabase(t) \/ DeleteDatabase(t)
      PROVE  SerialInv'
    BY <1>2, CreateCheckKeeps, MakeDirectoryKeeps, OpenEngineKeeps, DeleteCheckKeeps, EraseEngineKeeps,
       RemoveDirectoryKeeps DEF CreateDatabase, DeleteDatabase
<1>3. ASSUME NEW t \in Threads, SaveManifest(t) \/ Answer(t) \/ \E n \in Names : Put(t, n)
      PROVE  SerialInv'
    BY <1>3, ListNamesKeeps, TruncateKeeps, WriteManifestKeeps, AnswerKeeps, PutKeeps DEF SaveManifest
<1>4. CASE UNCHANGED vars
  <2> USE <1>4 DEF vars, SerialInv
  <2>1. Types' /\ FileOK' /\ Serial'
    BY DEF Types, FileOK, Serial, Served
  <2>2. RequestOK' /\ EngineOK'
    BY DEF RequestOK, EngineOK, Served
  <2>3. ListedOK'
    BY DEF ListedOK, Served
  <2>4. WrittenKnown' /\ PromiseOK'
    BY DEF WrittenKnown, PromiseOK, Served
  <2> QED
    BY <2>1, <2>2, <2>3, <2>4
<1> QED
    BY <1>1, <1>2, <1>3, <1>4 DEF Next

LEMMA ClientsStay == [Next]_vars => clients' = clients
    BY DEF Next, vars, Start, End, CreateDatabase, DeleteDatabase, SaveManifest, CreateCheck,
           DeleteCheck, Begin, MakeDirectory, OpenEngine, EraseEngine, RemoveDirectory, ListNames,
           Truncate, WriteManifest, Answer, Put

(* database_manager.cpp:27-135: when requests come one at a time, a database that   *)
(* was created is served after every restart with what was written to it, a deleted *)
(* one is gone, and no start fails for the manifest, unless the process ended       *)
(* between save_manifest's truncation and its write.                                *)
THEOREM SerialPromisesHold == FiniteConstants /\ Spec => []SerialPromisesKept
<1> DEFINE Inv == FiniteConstants /\ (clients = 1 => SerialInv)
<1>1. FiniteConstants /\ Init => Inv
    BY InitSerial
<1>2. Inv /\ [Next]_vars => Inv'
    BY SerialKeeps, ClientsStay DEF FiniteConstants
<1>3. Inv => SerialPromisesKept
    BY FileReadable DEF SerialInv, PromiseOK, SerialPromisesKept, PromisesKept, ManifestCanBeRead
<1> HIDE DEF Inv
<1> QED
    BY <1>1, <1>2, <1>3, PTL DEF Spec

-----------------------------------------------------------------------------
(***************************************************************************)
(* With any number of requests at a time.  Two at once for one name make   *)
(* its promise "unknown"; of any other name one request at most is         *)
(* responsible, whatever requests for other names do.                      *)
(***************************************************************************)

(* What the request r has made of its database d and its directory k. *)
OwnWork(r, d, k) ==
    /\ r.op \in {"create", "delete"}
    /\ r.pc = "mkdir" => r.op = "create" /\ d = "none" /\ k = "none"
    /\ r.pc = "open" => r.op = "create" /\ d = "none" /\ k = "empty"
    /\ r.pc = "erase" => r.op = "delete"
    /\ r.pc = "rmdir" => r.op = "delete" /\ d = "none"
    /\ r.pc \in {"list", "truncate", "write", "answer"} =>
          IF r.op = "create" THEN d = "empty" /\ k = "empty" ELSE d = "none" /\ k = "none"

(* Up to the first end a database at rest is what was promised, and so is its  *)
(* directory; in any run an engine that is served has one, unless its name is  *)
(* unknown, and what is promised as written is written there.                  *)
NameOK(n) ==
    promise[n] # "unknown" =>
        /\ \A t, u \in BusyWith(n) : t = u
        /\ BusyWith(n) # {} => promise[n] = "open"
        /\ databases[n] # "none" => disk[n] # "none"
        /\ \A t \in BusyWith(n) : threads[t].pc = "rmdir" => databases[n] = "none"
        /\ promise[n] = "written" => disk[n] = "written"
        /\ ends = 0 /\ phase = "up" =>
              /\ \A t \in BusyWith(n) : OwnWork(threads[t], databases[n], disk[n])
              /\ BusyWith(n) = {} => promise[n] = databases[n] /\ databases[n] = disk[n]

(* Only a running process works. *)
Working == \A t \in Threads : threads[t].pc # "idle" => phase = "up" /\ threads[t].name \in Names

NeverStarted ==
    ends = 0 /\ phase # "up" =>
        /\ manifest = EmptyText
        /\ \A n \in Names : databases[n] = "none" /\ disk[n] = "none" /\ promise[n] = "none"

ManyInv == Types /\ ends \in Nat /\ Working /\ NeverStarted /\ \A n \in Names : NameOK(n)

LEMMA InitMany == Init => ManyInv
<1> SUFFICES ASSUME Init PROVE ManyInv
    OBVIOUS
<1>1. Types /\ ends \in Nat
    BY DEF Init, Types, Idle, Record, Contents
<1>2. \A t \in Threads : threads[t].pc = "idle"
    BY DEF Init, Idle
<1>3. \A n \in Names : BusyWith(n) = {}
    BY <1>2 DEF BusyWith, Busy
<1>4. Working /\ NeverStarted
    BY <1>2 DEF Init, Working, NeverStarted
<1>5. \A n \in Names : NameOK(n)
    BY <1>3 DEF Init, NameOK
<1> QED
    BY <1>1, <1>4, <1>5 DEF ManyInv

(* Who is busy with a name after one thread's request has changed. *)
LEMMA BusyMoves ==
    ASSUME Types, NEW t \in Threads, NEW r \in Record, threads' = [threads EXCEPT ![t] = r]
    PROVE  /\ threads' \in [Threads -> Record] /\ threads'[t] = r
           /\ \A u \in Threads : u # t => threads'[u] = threads[u]
           /\ \A m : \A u \in Threads : u # t => (u \in BusyWith(m)' <=> u \in BusyWith(m))
           /\ \A m : t \in BusyWith(m)' <=> r.pc # "idle" /\ r.name = m
           /\ \A m : t \in BusyWith(m) <=> threads[t].pc # "idle" /\ threads[t].name = m
           /\ \A m : BusyWith(m) \subseteq Threads /\ BusyWith(m)' \subseteq Threads
<1>1. /\ threads' \in [Threads -> Record] /\ threads'[t] = r
      /\ \A u \in Threads : u # t => threads'[u] = threads[u]
    BY DEF Types
<1> QED
    BY <1>1 DEF BusyWith, Busy

(* A request for one name leaves every other name as it was. *)
LEMMA OneNameMoves ==
    ASSUME ManyInv, phase = "up", UNCHANGED <<phase, ends>>, Types',
           NEW t \in Threads, NEW n \in Names, NEW r \in Record,
           threads' = [threads EXCEPT ![t] = r],
           threads[t].pc # "idle" => threads[t].name = n,
           r.pc # "idle" => r.name = n,
           \A m \in Names : m # n => /\ databases'[m] = databases[m] /\ disk'[m] = disk[m]
                                     /\ promise'[m] = promise[m],
           NameOK(n)'
    PROVE  ManyInv'
<1>1. Types
    BY DEF ManyInv
<1>2. Working'
  <2>1. /\ threads'[t] = r
        /\ \A u \in Threads : u # t => threads'[u] = threads[u]
    BY <1>1, BusyMoves
  <2> QED
    BY <2>1 DEF ManyInv, Working
<1>3. ASSUME NEW m \in Names, m # n PROVE NameOK(m)'
  <2>1. BusyWith(m)' = BusyWith(m) /\ t \notin BusyWith(m) /\ BusyWith(m) \subseteq Threads
    BY <1>1, <1>3, BusyMoves DEF BusyWith, Busy
  <2>2. \A u \in BusyWith(m) : threads'[u] = threads[u]
    BY <1>1, <2>1, BusyMoves
  <2>3. databases'[m] = databases[m] /\ disk'[m] = disk[m] /\ promise'[m] = promise[m]
    BY <1>3
  <2>4. NameOK(m)
    BY DEF ManyInv
  <2> QED
    BY <2>1, <2>2, <2>3, <2>4 DEF NameOK
<1> QED
    BY <1>2, <1>3 DEF ManyInv, NeverStarted

(* A request under way goes on; its promise stays open. *)
LEMMA WorkKeeps ==
    ASSUME ManyInv, NEW t \in Threads, threads[t].pc # "idle",
           NEW r \in Record, r.pc # "idle", r.name = threads[t].name,
           threads' = [threads EXCEPT ![t] = r],
           UNCHANGED <<phase, ends, promise, torn>>,
           databases' \in [Names -> Contents], disk' \in [Names -> Contents],
           \A m \in Names : m # r.name => databases'[m] = databases[m] /\ disk'[m] = disk[m],
           promise[r.name] # "unknown" /\ databases'[r.name] # "none" => disk'[r.name] # "none",
           promise[r.name] # "unknown" /\ r.pc = "rmdir" => databases'[r.name] = "none",
           promise[r.name] # "unknown" /\ ends = 0 => OwnWork(r, databases'[r.name], disk'[r.name])
    PROVE  ManyInv'
<1> DEFINE n == r.name
<1>1. n \in Names /\ phase = "up" /\ Types
    BY DEF ManyInv, Working
<1>2. Types'
  <2>1. threads' \in [Threads -> Record]
    BY <1>1, BusyMoves
  <2> QED
    BY <1>1, <2>1 DEF Types
<1>3. ASSUME promise[n] # "unknown" PROVE NameOK(n)'
  <2>1. t \in BusyWith(n) /\ NameOK(n)
    BY <1>1, BusyMoves DEF ManyInv
  <2>2. BusyWith(n)' = {t} /\ promise[n] = "open"
    BY <1>1, <1>3, <2>1, BusyMoves DEF NameOK, BusyWith, Busy
  <2>3. threads'[t] = r
    BY <1>1, BusyMoves
  <2> QED
    BY <1>3, <2>2, <2>3 DEF NameOK
<1>4. NameOK(n)'
    BY <1>3 DEF NameOK
<1> QED
    BY <1>1, <1>2, <1>4, OneNameMoves

(* What a request under way relies on, as long as its name is not unknown. *)
LEMMA WorkSoFar ==
    ASSUME ManyInv, NEW t \in Threads, threads[t].pc # "idle"
    PROVE  LET n == threads[t].name IN
           /\ n \in Names /\ phase = "up" /\ Types /\ threads[t] \in Record
           /\ promise[n] # "unknown" =>
                 /\ promise[n] = "open"
                 /\ databases[n] # "none" => disk[n] # "none"
                 /\ threads[t].pc = "rmdir" => databases[n] = "none"
                 /\ ends = 0 => OwnWork(threads[t], databases[n], disk[n])
<1>1. threads[t].name \in Names /\ phase = "up" /\ Types /\ threads[t] \in Record
    BY DEF ManyInv, Working, Types
<1>2. t \in BusyWith(threads[t].name)
    BY DEF BusyWith, Busy
<1> QED
    BY <1>1, <1>2 DEF ManyInv, NameOK

LEMMA Moved ==
    ASSUME Types, NEW t \in Threads, NEW at, Goto(t, at),
           at \in {"open", "rmdir", "list", "write", "answer"}
    PROVE  \E r \in Record : /\ threads' = [threads EXCEPT ![t] = r] /\ r.pc = at
                             /\ r.name = threads[t].name /\ r.op = threads[t].op
<1> DEFINE r == [threads[t] EXCEPT !.pc = at]
<1>1. threads[t] \in Record
    BY DEF Types
<1>2. r \in Record /\ r.pc = at /\ r.name = threads[t].name /\ r.op = threads[t].op
    BY <1>1 DEF Record
<1>3. threads' = [threads EXCEPT ![t] = r]
    BY DEF Goto
<1> QED
    BY <1>2, <1>3

LEMMA ManyMakeDirectory == ASSUME ManyInv, NEW t \in Threads, MakeDirectory(t) PROVE ManyInv'
<1>1. threads[t].pc = "mkdir" /\ Goto(t, "open") /\ UNCHANGED <<phase, ends, promise, torn, databases>>
      /\ disk' = [disk EXCEPT ![threads[t].name] = IF @ = "none" THEN "empty" ELSE @]
    BY DEF MakeDirectory
<1>2. PICK r \in Record : /\ threads' = [threads EXCEPT ![t] = r] /\ r.pc = "open"
                          /\ r.name = threads[t].name /\ r.op = threads[t].op
    BY <1>1, Moved, WorkSoFar
<1>3. /\ disk' \in [Names -> Contents] /\ databases' \in [Names -> Contents]
      /\ disk'[r.name] # "none"
      /\ disk[r.name] = "none" => disk'[r.name] = "empty"
      /\ \A m \in Names : m # r.name => databases'[m] = databases[m] /\ disk'[m] = disk[m]
    BY <1>1, <1>2, WorkSoFar DEF Types, Contents
<1>4. promise[r.name] # "unknown" /\ ends = 0 => OwnWork(r, databases'[r.name], disk'[r.name])
    BY <1>1, <1>2, <1>3, WorkSoFar DEF OwnWork
<1> QED
    BY <1>1, <1>2, <1>3, <1>4, WorkKeeps

LEMMA ManyOpenEngine == ASSUME ManyInv, NEW t \in Threads, OpenEngine(t) PROVE ManyInv'
<1>1. /\ threads[t].pc = "open" /\ Goto(t, "list") /\ UNCHANGED <<phase, ends, promise, torn>>
      /\ disk' = [disk EXCEPT ![threads[t].name] = IF @ = "none" THEN "empty" ELSE @]
      /\ databases' = [databases EXCEPT ![threads[t].name] = disk'[threads[t].name]]
    BY DEF OpenEngine
<1>2. PICK r \in Record : /\ threads' = [threads EXCEPT ![t] = r] /\ r.pc = "list"
                          /\ r.name = threads[t].name /\ r.op = threads[t].op
    BY <1>1, Moved, WorkSoFar
<1>3. /\ disk' \in [Names -> Contents] /\ databases' \in [Names -> Contents]
      /\ disk'[r.name] # "none" /\ databases'[r.name] = disk'[r.name]
      /\ disk[r.name] = "empty" => disk'[r.name] = "empty"
      /\ \A m \in Names : m # r.name => databases'[m] = databases[m] /\ disk'[m] = disk[m]
    BY <1>1, <1>2, WorkSoFar DEF Types, Contents
<1>4. promise[r.name] # "unknown" /\ ends = 0 => OwnWork(r, databases'[r.name], disk'[r.name])
    BY <1>1, <1>2, <1>3, WorkSoFar DEF OwnWork
<1> QED
    BY <1>1, <1>2, <1>3, <1>4, WorkKeeps

LEMMA ManyEraseEngine == ASSUME ManyInv, NEW t \in Threads, EraseEngine(t) PROVE ManyInv'
<1>1. /\ threads[t].pc = "erase" /\ Goto(t, "rmdir") /\ UNCHANGED <<phase, ends, promise, torn, disk>>
      /\ databases' = [databases EXCEPT ![threads[t].name] = "none"]
    BY DEF EraseEngine
<1>2. PICK r \in Record : /\ threads' = [threads EXCEPT ![t] = r] /\ r.pc = "rmdir"
                          /\ r.name = threads[t].name /\ r.op = threads[t].op
    BY <1>1, Moved, WorkSoFar
<1>3. /\ disk' \in [Names -> Contents] /\ databases' \in [Names -> Contents]
      /\ databases'[r.name] = "none"
      /\ \A m \in Names : m # r.name => databases'[m] = databases[m] /\ disk'[m] = disk[m]
    BY <1>1, <1>2, WorkSoFar DEF Types, Contents
<1>4. promise[r.name] # "unknown" /\ ends = 0 => OwnWork(r, databases'[r.name], disk'[r.name])
    BY <1>1, <1>2, <1>3, WorkSoFar DEF OwnWork
<1> QED
    BY <1>1, <1>2, <1>3, <1>4, WorkKeeps

LEMMA ManyRemoveDirectory == ASSUME ManyInv, NEW t \in Threads, RemoveDirectory(t) PROVE ManyInv'
<1>1. /\ threads[t].pc = "rmdir" /\ Goto(t, "list") /\ UNCHANGED <<phase, ends, promise, torn, databases>>
      /\ disk' = [disk EXCEPT ![threads[t].name] = "none"]
    BY DEF RemoveDirectory
<1>2. PICK r \in Record : /\ threads' = [threads EXCEPT ![t] = r] /\ r.pc = "list"
                          /\ r.name = threads[t].name /\ r.op = threads[t].op
    BY <1>1, Moved, WorkSoFar
<1>3. /\ disk' \in [Names -> Contents] /\ databases' \in [Names -> Contents]
      /\ disk'[r.name] = "none"
      /\ \A m \in Names : m # r.name => databases'[m] = databases[m] /\ disk'[m] = disk[m]
    BY <1>1, <1>2, WorkSoFar DEF Types, Contents
<1>4. promise[r.name] # "unknown" => databases'[r.name] = "none"
    BY <1>1, <1>2, WorkSoFar
<1>5. promise[r.name] # "unknown" /\ ends = 0 => OwnWork(r, databases'[r.name], disk'[r.name])
    BY <1>1, <1>2, <1>3, <1>4, WorkSoFar DEF OwnWork
<1> QED
    BY <1>1, <1>2, <1>3, <1>4, <1>5, WorkKeeps

(* Saving the manifest touches no database and no directory. *)
LEMMA ManySaveManifest == ASSUME ManyInv, NEW t \in Threads, SaveManifest(t) PROVE ManyInv'
<1>1. /\ threads[t].pc \in {"list", "truncate", "write"}
      /\ UNCHANGED <<phase, ends, promise, torn, databases, disk>>
    BY DEF SaveManifest, ListNames, Truncate, WriteManifest
<1>2. PICK r \in Record : /\ threads' = [threads EXCEPT ![t] = r] /\ r.pc \in {"truncate", "write", "answer"}
                          /\ r.name = threads[t].name /\ r.op = threads[t].op
  <2>1. CASE ListNames(t)
    <3> DEFINE r == [threads[t] EXCEPT !.pc = "truncate", !.names = Served]
    <3>1. threads[t] \in Record /\ Served \in SUBSET Names
      BY <1>1, WorkSoFar DEF Served
    <3>2. r \in Record /\ r.pc = "truncate" /\ r.name = threads[t].name /\ r.op = threads[t].op
      BY <3>1 DEF Record
    <3>3. threads' = [threads EXCEPT ![t] = r]
      BY <2>1 DEF ListNames
    <3> QED
      BY <3>2, <3>3
  <2>2. CASE Truncate(t)
    BY <1>1, <2>2, Moved, WorkSoFar DEF Truncate
  <2>3. CASE WriteManifest(t)
    BY <1>1, <2>3, Moved, WorkSoFar DEF WriteManifest
  <2> QED
    BY <2>1, <2>2, <2>3 DEF SaveManifest
<1>3. databases' \in [Names -> Contents] /\ disk' \in [Names -> Contents]
    BY <1>1, WorkSoFar DEF Types
<1>4. promise[r.name] # "unknown" /\ ends = 0 => OwnWork(r, databases'[r.name], disk'[r.name])
    BY <1>1, <1>2, WorkSoFar DEF OwnWork
<1> QED
    BY <1>1, <1>2, <1>3, <1>4, WorkSoFar, WorkKeeps

(* A promise that changes: it stays "unknown" if it was. *)
LEMMA Expected ==
    ASSUME Types, NEW n \in Names, NEW what \in Contents \cup {"open", "unknown"}, Expect(n, what)
    PROVE  /\ promise' \in [Names -> Contents \cup {"open", "unknown"}]
           /\ promise'[n] = IF promise[n] = "unknown" THEN "unknown" ELSE what
           /\ \A m \in Names : m # n => promise'[m] = promise[m]
    BY DEF Types, Expect

LEMMA ManyBegin ==
    ASSUME ManyInv, NEW t \in Threads, NEW n \in Names, CreateCheck(t, n) \/ DeleteCheck(t, n)
    PROVE  ManyInv'
<1>1. PICK op \in {"create", "delete"}, at \in {"mkdir", "erase"} :
        /\ Begin(t, op, n, at)
        /\ \/ op = "create" /\ at = "mkdir" /\ databases[n] = "none"
           \/ op = "delete" /\ at = "erase" /\ databases[n] # "none"
    BY DEF CreateCheck, DeleteCheck
<1> DEFINE r == [pc |-> at, op |-> op, name |-> n, names |-> {}]
<1>2. /\ phase = "up" /\ threads[t].pc = "idle" /\ threads' = [threads EXCEPT ![t] = r]
      /\ Expect(n, IF BusyWith(n) = {} THEN "open" ELSE "unknown")
      /\ UNCHANGED <<phase, databases, disk, manifest, torn, ends>>
    BY <1>1 DEF Begin
<1>3. r \in Record /\ r.pc # "idle" /\ r.name = n /\ r.pc = at /\ r.op = op
    BY DEF Record
<1> HIDE DEF r
<1>4. Types
    BY DEF ManyInv
<1>5. /\ promise' \in [Names -> Contents \cup {"open", "unknown"}]
      /\ promise'[n] # "unknown" => /\ promise[n] # "unknown" /\ BusyWith(n) = {}
                                    /\ promise'[n] = "open"
      /\ \A m \in Names : m # n => promise'[m] = promise[m]
    BY <1>2, <1>4, Expected
<1>6. Types'
    BY <1>2, <1>3, <1>4, <1>5, BusyMoves DEF Types
<1>7. ASSUME promise'[n] # "unknown" PROVE NameOK(n)'
  <2>1. BusyWith(n)' = {t} /\ threads'[t] = r
    <3>1. threads'[t] = r /\ \A u \in Threads : u # t => threads'[u] = threads[u]
      BY <1>2, <1>3, <1>4, BusyMoves
    <3>2. \A u \in Threads : threads[u].pc # "idle" => threads[u].name # n
      BY <1>5, <1>7 DEF BusyWith, Busy
    <3> QED
      BY <1>3, <3>1, <3>2 DEF BusyWith, Busy
  <2>2. /\ databases[n] # "none" => disk[n] # "none"
        /\ ends = 0 => databases[n] = disk[n]
    BY <1>2, <1>5, <1>7 DEF ManyInv, NameOK
  <2>3. ends = 0 => OwnWork(r, databases[n], disk[n])
    BY <1>1, <1>3, <2>2 DEF OwnWork
  <2> QED
    BY <1>1, <1>2, <1>3, <1>5, <1>7, <2>1, <2>2, <2>3 DEF NameOK
<1>8. NameOK(n)'
    BY <1>7 DEF NameOK
<1> QED
    BY <1>2, <1>3, <1>5, <1>6, <1>8, OneNameMoves

LEMMA ManyAnswer == ASSUME ManyInv, NEW t \in Threads, Answer(t) PROVE ManyInv'
<1>0. PICK n \in Names : n = threads[t].name
    BY WorkSoFar DEF Answer
<1>1. /\ threads[t].pc = "answer" /\ threads' = [threads EXCEPT ![t] = Idle]
      /\ Expect(n, IF threads[t].op = "create" THEN "empty" ELSE "none")
      /\ UNCHANGED <<phase, databases, disk, manifest, torn, ends>>
    BY <1>0 DEF Answer
<1>2. phase = "up" /\ Types
    BY <1>1, WorkSoFar
<1>3. Idle \in Record /\ Idle.pc = "idle"
    BY DEF Idle, Record
<1>4. /\ promise' \in [Names -> Contents \cup {"open", "unknown"}]
      /\ promise'[n] # "unknown" => /\ promise[n] # "unknown"
                                    /\ promise'[n] = IF threads[t].op = "create" THEN "empty" ELSE "none"
      /\ \A m \in Names : m # n => promise'[m] = promise[m]
    BY <1>1, <1>2, Expected DEF Contents
<1>5. Types'
    BY <1>1, <1>2, <1>3, <1>4, BusyMoves DEF Types
<1>6. ASSUME promise'[n] # "unknown" PROVE NameOK(n)'
  <2>1. t \in BusyWith(n) /\ NameOK(n) /\ promise[n] # "unknown"
    BY <1>0, <1>1, <1>4, <1>6 DEF ManyInv, BusyWith, Busy
  <2>2. BusyWith(n)' = {}
    <3>1. threads'[t] = Idle /\ \A u \in Threads : u # t => threads'[u] = threads[u]
      BY <1>1, <1>2, <1>3, BusyMoves
    <3>2. \A u \in BusyWith(n) : u = t
      BY <2>1 DEF NameOK
    <3>3. \A u \in Threads : u # t /\ threads[u].pc # "idle" => threads[u].name # n
      BY <3>2 DEF BusyWith, Busy
    <3> QED
      BY <1>3, <3>1, <3>3 DEF BusyWith, Busy
  <2>3. ends = 0 => promise'[n] = databases[n] /\ databases[n] = disk[n]
    BY <1>0, <1>1, <1>4, <1>6, <2>1, WorkSoFar DEF OwnWork
  <2>4. promise'[n] # "written" /\ (databases[n] # "none" => disk[n] # "none")
    BY <1>4, <1>6, <2>1 DEF NameOK
  <2> QED
    BY <1>1, <2>2, <2>3, <2>4 DEF NameOK
<1>7. NameOK(n)'
    BY <1>6 DEF NameOK
<1> QED
    BY <1>0, <1>1, <1>2, <1>3, <1>4, <1>5, <1>7, OneNameMoves

LEMMA ManyPut == ASSUME ManyInv, NEW t \in Threads, NEW n \in Names, Put(t, n) PROVE ManyInv'
<1>1. /\ phase = "up" /\ threads[t].pc = "idle" /\ databases[n] # "none"
      /\ databases' = [databases EXCEPT ![n] = "written"]
      /\ disk' = [disk EXCEPT ![n] = IF @ = "none" THEN "none" ELSE "written"]
      /\ Expect(n, IF BusyWith(n) = {} THEN "written" ELSE "unknown")
      /\ UNCHANGED <<phase, manifest, threads, torn, ends>>
    BY DEF Put
<1>2. Types /\ threads[t] \in Record
    BY DEF ManyInv, Types
<1>3. threads' = [threads EXCEPT ![t] = threads[t]]
    BY <1>1, <1>2 DEF Types
<1>4. /\ promise' \in [Names -> Contents \cup {"open", "unknown"}]
      /\ promise'[n] # "unknown" => /\ promise[n] # "unknown" /\ BusyWith(n) = {}
                                    /\ promise'[n] = "written"
      /\ \A m \in Names : m # n => promise'[m] = promise[m]
    BY <1>1, <1>2, Expected DEF Contents
<1>5. /\ databases' \in [Names -> Contents] /\ disk' \in [Names -> Contents]
      /\ databases'[n] = "written"
      /\ disk[n] # "none" => disk'[n] = "written"
      /\ \A m \in Names : m # n => databases'[m] = databases[m] /\ disk'[m] = disk[m]
    BY <1>1, <1>2 DEF Types, Contents
<1>6. Types'
    BY <1>1, <1>2, <1>4, <1>5 DEF Types
<1>7. ASSUME promise'[n] # "unknown" PROVE NameOK(n)'
  <2>1. BusyWith(n)' = {}
    BY <1>1, <1>4, <1>7 DEF BusyWith, Busy
  <2>2. disk[n] # "none"
    BY <1>1, <1>4, <1>7 DEF ManyInv, NameOK
  <2> QED
    BY <1>4, <1>5, <1>7, <2>1, <2>2 DEF NameOK
<1>8. NameOK(n)'
    BY <1>7 DEF NameOK
<1> QED
    BY <1>1, <1>2, <1>3, <1>4, <1>5, <1>6, <1>8, OneNameMoves

LEMMA ManyStartEnd == ASSUME ManyInv, Start \/ End PROVE ManyInv'
<1>1. \A t \in Threads : threads'[t].pc = "idle"
    BY DEF ManyInv, Working, Start, End, Idle
<1>2. \A n \in Names : BusyWith(n)' = {}
    BY <1>1 DEF BusyWith, Busy
<1>3. Working'
    BY <1>1 DEF Working
<1>4. CASE Start
  <2>1. Types /\ UNCHANGED <<manifest, threads, promise, torn, ends>>
    BY <1>4 DEF ManyInv, Start
  <2>2. CASE ~Readable(manifest)
    <3>1. UNCHANGED <<databases, disk>> /\ phase' = "failed" /\ phase # "up"
      BY <1>4, <2>2 DEF Start
    <3>2. Types' /\ NeverStarted' /\ ends' \in Nat
      BY <2>1, <3>1 DEF ManyInv, Types, NeverStarted
    <3>3. \A n \in Names : NameOK(n)'
      BY <1>2, <2>1, <3>1 DEF ManyInv, NameOK
    <3> QED
      BY <1>3, <3>2, <3>3 DEF ManyInv
  <2>3. CASE Readable(manifest)
    <3>1. /\ phase # "up" /\ phase' = "up"
          /\ disk' = [n \in Names |-> IF n \in manifest.names /\ disk[n] = "none" THEN "empty" ELSE disk[n]]
          /\ databases' = [n \in Names |-> IF n \in manifest.names THEN disk'[n] ELSE "none"]
      BY <1>4, <2>3 DEF Start
    <3>2. Types' /\ NeverStarted' /\ ends' \in Nat
      BY <2>1, <3>1 DEF ManyInv, Types, Contents, NeverStarted
    <3>3. ASSUME NEW n \in Names PROVE NameOK(n)'
      <4>1. /\ databases'[n] # "none" => disk'[n] # "none"
            /\ disk[n] = "written" => disk'[n] = "written"
        BY <3>1
      <4>2. ends = 0 => promise'[n] = databases'[n] /\ databases'[n] = disk'[n]
        BY <2>1, <3>1 DEF ManyInv, NeverStarted, EmptyText
      <4>3. promise'[n] = "written" => disk[n] = "written"
        BY <2>1 DEF ManyInv, NameOK
      <4> QED
        BY <1>2, <2>1, <4>1, <4>2, <4>3 DEF NameOK
    <3> QED
      BY <1>3, <3>2, <3>3 DEF ManyInv
  <2> QED
    BY <2>2, <2>3
<1>5. CASE End
  <2>1. /\ Types /\ UNCHANGED <<disk, promise>> /\ phase' = "down" /\ ends' = ends + 1 /\ ends \in Nat
        /\ databases' = [n \in Names |-> "none"] /\ threads' = [t \in Threads |-> Idle]
        /\ torn' \in BOOLEAN
    BY <1>5 DEF ManyInv, End, Types
  <2>2. Types' /\ NeverStarted' /\ ends' \in Nat
    BY <2>1 DEF Types, Contents, Idle, Record, NeverStarted
  <2>3. ASSUME NEW n \in Names PROVE NameOK(n)'
    BY <1>2, <2>1 DEF ManyInv, NameOK
  <2> QED
    BY <1>3, <2>2, <2>3 DEF ManyInv
<1> QED
    BY <1>4, <1>5

LEMMA ManyKeeps == ASSUME ManyInv, [Next]_vars PROVE ManyInv'
<1>1. CASE UNCHANGED vars
  <2>1. UNCHANGED <<phase, databases, disk, manifest, threads, promise, torn, ends>>
    BY <1>1 DEF vars
  <2>2. Types' /\ Working' /\ NeverStarted' /\ ends' \in Nat
    BY <2>1 DEF ManyInv, Types, Working, NeverStarted
  <2>3. \A n \in Names : NameOK(n)'
    BY <2>1 DEF ManyInv, NameOK, BusyWith, Busy
  <2> QED
    BY <2>2, <2>3 DEF ManyInv
<1> QED
    BY <1>1, ManyStartEnd, ManyBegin, ManyMakeDirectory, ManyOpenEngine, ManyEraseEngine,
       ManyRemoveDirectory, ManySaveManifest, ManyAnswer, ManyPut DEF Next, CreateDatabase, DeleteDatabase

(* database_manager.cpp:51-135: until the process first ends every database that    *)
(* was answered for is served as answered, however many requests for other names    *)
(* are under way.                                                                    *)
THEOREM FirstRunPromisesHold == Spec => []FirstRunKeepsPromises
<1>1. ManyInv => FirstRunKeepsPromises
  <2> SUFFICES ASSUME ManyInv, ends = 0, phase = "up", NEW n \in Names, promise[n] \in Contents
               PROVE  databases[n] = promise[n]
    BY DEF FirstRunKeepsPromises, PromisesKept
  <2>1. promise[n] # "unknown" /\ promise[n] # "open"
    BY DEF Contents
  <2> QED
    BY <2>1 DEF ManyInv, NameOK
<1> QED
    BY <1>1, InitMany, ManyKeeps, PTL DEF Spec

(* database_manager.cpp:51-135: what a client has written to a database stays in its *)
(* directory over any number of ends and starts, whatever becomes of the manifest,   *)
(* as long as no two requests at once have been for its name.                        *)
THEOREM WrittenHolds == Spec => []WrittenStays
<1>1. ManyInv => WrittenStays
    BY DEF ManyInv, NameOK, WrittenStays
<1> QED
    BY <1>1, InitMany, ManyKeeps, PTL DEF Spec
================================================================================
