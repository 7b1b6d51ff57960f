---------------------------- MODULE DataMigration ----------------------------
(* The two tools that move a TissDB collection to a file and back:             *)
(* importer_exporter.py (CSV, XML, SQL) and tissdb_migration_tool.py (JSON,    *)
(* XML).  A document maps some keys to values, a value is its type and the     *)
(* text str() gives for it.  Documents are posted one by one, so an import can *)
(* stop, or skip, half way; a server that is slow may store one and be thought *)
(* to have failed.                                                             *)
EXTENDS Naturals, Sequences, SequencesExt, FiniteSets

CONSTANTS Keys, Values, Null,
          Convert(_),  \* _convert_value: the value a text is read as
          MaxDocs, MaxImports

Text(v) == v.text
Str(text) == [type |-> "str", text |-> text]
Docs == UNION {[ks -> Values] : ks \in SUBSET Keys \ {{}}}

\* What each tool can do.
Tools == [importer |-> {"csv", "xml", "sql"}, migration |-> {"json", "xml"}]
NoFile == [tool |-> "none", format |-> "none", rows |-> <<>>, whole |-> FALSE]
NoJob == [tool |-> "none", from |-> "none", format |-> "none", rows |-> <<>>, at |-> 0,
          count |-> 0, before |-> 0, clean |-> FALSE]

VARIABLES source,  \* the documents of the exported collection
          file,    \* what is at the file path
          target,  \* the documents of the collection imported into
          job,     \* the import that runs, or ran last
          imports, \* how many have run
          lost     \* documents of the last job that were stored, but not counted

vars == <<source, file, target, job, imports, lost>>

Init ==
  /\ source = <<>> /\ file = NoFile /\ target = <<>> /\ job = NoJob
  /\ imports = 0 /\ lost = 0

Running == job.at \in 1..Len(job.rows)

Insert ==
  /\ Len(source) < MaxDocs /\ file = NoFile /\ \E d \in Docs : source' = Append(source, d)
  /\ UNCHANGED <<file, target, job, imports, lost>>

(* export -----------------------------------------------------------------------*)

Header(docs) == UNION {DOMAIN docs[i] : i \in DOMAIN docs}

\* A CSV row has a text for every column, empty for a null and for a missing key.
CsvRows(docs) ==
  [i \in DOMAIN docs |->
     [k \in Header(docs) |-> IF k \in DOMAIN docs[i] /\ docs[i][k] # Null
                             THEN Str(Text(docs[i][k])) ELSE Str("")]]
\* An element for every key, a null written as the word None.
XmlRows(docs) == [i \in DOMAIN docs |-> [k \in DOMAIN docs[i] |-> Str(Text(docs[i][k]))]]
\* An INSERT names the columns that are not null, and there is none without columns:
\* the documents of the first n that have one.
Filled(d) == {k \in DOMAIN d : d[k] # Null}
Inserted(docs) ==
  LET kept[n \in 0..Len(docs)] ==
        IF n = 0 THEN <<>>
        ELSE IF Filled(docs[n]) = {} THEN kept[n - 1]
        ELSE Append(kept[n - 1], docs[n]) IN
  kept
WithValues(docs) == Inserted(docs)[Len(docs)]
\* The CREATE TABLE that goes before them is skipped by the import, and left out.
SqlRows(docs) ==
  LET kept == WithValues(docs) IN
  [i \in DOMAIN kept |-> [k \in Filled(kept[i]) |-> Str(Text(kept[i][k]))]]

RowsOf(format, docs) ==
  CASE format = "csv" -> CsvRows(docs)
    [] format = "xml" -> XmlRows(docs)
    [] format = "sql" -> SqlRows(docs)
    [] OTHER -> docs

\* The importer leaves the file alone when there is nothing to export.  Writing
\* may fail when part of the rows are in the file; a server that cannot be reached
\* leaves no trace.
Export ==
  /\ ~Running /\ imports < MaxImports
  /\ \E tool \in DOMAIN Tools : \E format \in Tools[tool] :
       /\ tool = "importer" => source # <<>>
       /\ LET rows == RowsOf(format, source) IN
          \/ file' = [tool |-> tool, format |-> format, rows |-> rows, whole |-> TRUE]
          \/ \E n \in 0..Len(rows) :
               file' = [tool |-> tool, format |-> format, rows |-> SubSeq(rows, 1, n), whole |-> FALSE]
  /\ UNCHANGED <<source, target, job, imports, lost>>

(* import -----------------------------------------------------------------------*)

\* The migration tool reads text; an element without text is a null.
ReadRow(tool, format, row) ==
  CASE tool = "importer" -> [k \in DOMAIN row |-> Convert(Text(row[k]))]
    [] tool = "migration" /\ format = "xml" ->
         [k \in DOMAIN row |-> IF Text(row[k]) = "" THEN Null ELSE row[k]]
    [] OTHER -> row

\* A cut CSV or SQL file reads as a shorter one; XML and JSON are refused.  The
\* importer looks for <item> elements, and the other tool writes <record>.
Readable(tool, f) ==
  /\ f.format \in Tools[tool]
  /\ f.whole \/ f.format \in {"csv", "sql"}
RowsRead(tool, f) ==
  IF tool = "importer" /\ f.format = "xml" /\ f.tool = "migration" THEN <<>> ELSE f.rows

StartImport ==
  /\ ~Running /\ imports < MaxImports
  /\ \E tool \in DOMAIN Tools :
       /\ Readable(tool, file)
       /\ LET rows == RowsRead(tool, file) IN
          job' = [tool |-> tool, from |-> file.tool, format |-> file.format,
                  rows |-> [i \in DOMAIN rows |-> ReadRow(tool, file.format, rows[i])],
                  at |-> 1, count |-> 0, before |-> Len(target), clean |-> file.whole]
  /\ imports' = imports + 1 /\ lost' = 0
  /\ UNCHANGED <<source, file, target>>

Advance(n) == [job EXCEPT !.at = @ + 1, !.count = @ + n, !.clean = @ /\ n = 1]

\* The document is stored and counted.
Posted ==
  /\ Running
  /\ target' = Append(target, job.rows[job.at])
  /\ job' = Advance(1)
  /\ UNCHANGED <<source, file, imports, lost>>

\* A plausible bug: a request that raised is sent again by the importer.
PostFailedRetries ==
  /\ Running
  /\ \E stored \in BOOLEAN :
       /\ target' = IF stored THEN Append(target, job.rows[job.at]) ELSE target
       /\ lost' = IF stored THEN lost + 1 ELSE lost
       /\ Len(target) < 2 * MaxDocs
  /\ job' = IF job.tool = "importer" THEN [job EXCEPT !.clean = FALSE] ELSE Advance(0)
  /\ UNCHANGED <<source, file, imports>>

\* A request that raises, whether or not the server stored the document, ends the
\* importer's import; the migration tool goes on with the next document.
PostFailed ==
  /\ Running
  /\ \E stored \in BOOLEAN :
       /\ target' = IF stored THEN Append(target, job.rows[job.at]) ELSE target
       /\ lost' = IF stored THEN lost + 1 ELSE lost
  /\ job' = IF job.tool = "importer" THEN [Advance(0) EXCEPT !.at = Len(job.rows) + 1] ELSE Advance(0)
  /\ UNCHANGED <<source, file, imports>>

\* A statement whose two lists the SQL parser does not show at the top level, or
\* whose lists do not pair up, is left out without a word.
StatementSkipped ==
  /\ Running /\ job.format = "sql"
  /\ job' = Advance(0)
  /\ UNCHANGED <<source, file, target, imports, lost>>

Next == Insert \/ Export \/ StartImport \/ Posted \/ PostFailed \/ StatementSkipped

Spec == Init /\ [][Next]_vars

(* properties ---------------------------------------------------------------------*)

\* The number an import reports is the number of its documents that are in the
\* collection, but for those the server stored without the tool learning of it.
CountIsStored == Len(target) - job.before = job.count + lost

\* What the last import put in the collection comes from the file, in its order,
\* and none of it twice, whatever failed on the way.
NoneTwice ==
  \A i, j \in 1..(Len(target) - job.before) : i < j =>
    \E a, b \in DOMAIN job.rows : a < b /\ target[job.before + i] = job.rows[a]
                                        /\ target[job.before + j] = job.rows[b]

\* A text no other type claims.
Plain(v) == v # Null /\ Convert(Text(v)) = v
Finished == job # NoJob /\ ~Running /\ job.clean /\ job.tool = job.from
New == SubSeq(target, job.before + 1, Len(target))

\* A collection that goes to a file and comes back through the same tool, with no
\* failure, has as many documents as it had, and every plain value under its key;
\* only SQL leaves documents out, those that had no value.
TripKeepsValues ==
  Finished =>
    LET had == IF job.format = "sql" THEN WithValues(source) ELSE source IN
    /\ Len(New) = Len(had)
    /\ \A i \in DOMAIN had : \A k \in DOMAIN had[i] :
         Plain(had[i][k]) => /\ k \in DOMAIN New[i]
                             /\ Text(New[i][k]) = Text(had[i][k])
                             /\ job.tool = "importer" => New[i][k] = had[i][k]

\* What a trip through CSV or SQL changed, a second trip changes no further.
TripSettles ==
  Finished /\ job.format \in {"csv", "sql"} =>
    LET again == RowsOf(job.format, New)
        had == IF job.format = "sql" THEN WithValues(New) ELSE New IN
    \A i \in DOMAIN again : \A k \in DOMAIN again[i] :
      ReadRow("importer", job.format, again[i])[k] = had[i][k]
==============================================================================
