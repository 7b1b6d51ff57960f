---------------------------- MODULE KnowledgeBase ----------------------------
(* The knowledge base of the language model (core/knowledge_base.py), with the *)
(* client, embedder, chunking and retrieval it calls, and the updater thread   *)
(* that feeds it (core/knowledge_updater.py, whose import of the base names a  *)
(* package that is not there: it is modelled as it reads, given the base).  A  *)
(* text is a sequence of words.                                                *)
(* The user's thread and the updater's add to it; only the user asks.          *)
EXTENDS Naturals, Sequences, SequencesExt, FiniteSets

CONSTANTS Texts,              \* the documents
          Queries, Alike(_, _), \* whether two queries' embeddings are above the threshold
          Score(_, _),        \* the similarity a strategy gives a query and a text
          ChunkSize, Overlap, \* FixedSizeChunking, which refuses an overlap of the size or more
          MaxCache, MaxStarts \* bounds: texts added; times the updater is started

Actors == {"user", "updater"}
Batches == {<<>>} \cup {<<t>> : t \in Texts} \cup {<<s, t>> : s, t \in Texts}

VARIABLES connected,  \* whether the database was set up when the base was made
          cache,      \* _local_document_cache
          db,         \* the collection "knowledge", since the base was made
          queryCache, \* the queries answered, oldest first, with k and the answer
          adding,     \* the chunks an add_document in progress has left, by actor
          batch,      \* the documents the updater has fetched and not added yet
          running,    \* is_running
          threads,    \* updater threads alive
          stopping,   \* stop() is in join
          starts

vars == <<connected, cache, db, queryCache, adding, batch, running, threads, stopping, starts>>
documents == <<connected, cache, db, queryCache>>
updater == <<batch, running, threads, stopping, starts>>

Init ==
  /\ connected \in BOOLEAN
  /\ cache = <<>> /\ db = <<>> /\ queryCache = <<>>
  /\ adding = [a \in Actors |-> <<>>] /\ batch = <<>>
  /\ running = FALSE /\ threads = 0 /\ stopping = FALSE /\ starts = 0

(* adding ---------------------------------------------------------------------------*)

\* Segments of ChunkSize words, each Overlap words into the one before.
Chunk(words) ==
  LET step == ChunkSize - Overlap
      n == CHOOSE n \in 1..Len(words) :
             /\ (n - 1) * step + ChunkSize >= Len(words)
             /\ \A m \in 1..(n - 1) : (m - 1) * step + ChunkSize < Len(words)
      End(i) == IF (i - 1) * step + ChunkSize > Len(words) THEN Len(words)
                ELSE (i - 1) * step + ChunkSize IN
  IF words = <<>> THEN <<>> ELSE [i \in 1..n |-> SubSeq(words, (i - 1) * step + 1, End(i))]

AddDocument ==
  /\ adding["user"] = <<>> /\ ~stopping
  /\ \E t \in Texts : \E chunked \in BOOLEAN :
       adding' = [adding EXCEPT !["user"] = IF chunked THEN Chunk(t) ELSE <<t>>]
  /\ UNCHANGED <<documents, updater>>

\* The chunk is embedded and put in the local cache, and goes to the database if
\* there is one.  A failing embedder leaves no trace of it; a failing database, or
\* one whose answer is lost, leaves it in the cache.  Both raise: the chunks after
\* it are not added, nor, for the updater, the documents after this one.
AddChunk(a) ==
  /\ adding[a] # <<>> /\ Len(cache) < MaxCache
  /\ LET chunk == Head(adding[a]) IN
     \/ /\ cache' = Append(cache, chunk)
        /\ \/ ~connected /\ UNCHANGED db
           \/ connected /\ db' = Append(db, chunk)
        /\ adding' = [adding EXCEPT ![a] = Tail(@)]
        /\ UNCHANGED batch
     \/ /\ \/ UNCHANGED <<cache, db>>
           \/ connected /\ cache' = Append(cache, chunk) /\ db' \in {db, Append(db, chunk)}
        /\ adding' = [adding EXCEPT ![a] = <<>>]
        /\ batch' = IF a = "updater" THEN <<>> ELSE batch
  /\ UNCHANGED <<connected, queryCache, running, threads, stopping, starts>>

(* asking -----------------------------------------------------------------------------*)

\* The best k of the texts, best first; any order among equals.
Best(query, k, texts) ==
  LET size == IF k < Cardinality(texts) THEN k ELSE Cardinality(texts) IN
  {answer \in UNION {SetToSeqs(s) : s \in {s \in SUBSET texts : Cardinality(s) = size}} :
     /\ \A i, j \in DOMAIN answer : i < j => Score(query, answer[i]) >= Score(query, answer[j])
     /\ \A i \in DOMAIN answer : \A t \in texts \ Range(answer) :
          Score(query, answer[i]) >= Score(query, t)}

\* What an earlier query that is alike was answered, whatever has been added since
\* and however many documents it asked for.
Cached(query) == SelectSeq(queryCache, LAMBDA entry : Alike(query, entry.query))
Remember(query, k, answer) ==
  Append(queryCache, [query |-> query, k |-> k, answer |-> answer, size |-> Len(cache)])

\* The client has no way to read a collection: get_all_documents returns nothing,
\* so only the cache is searched.  An empty answer is not remembered, and a cached one
\* is given again without a trace.
Retrieve ==
  /\ adding["user"] = <<>> /\ ~stopping
  /\ \E query \in Queries : \E k \in 1..2 :
       /\ Cached(query) = <<>> /\ cache # <<>>
       /\ \E answer \in Best(query, k, Range(cache)) : queryCache' = Remember(query, k, answer)
  /\ UNCHANGED <<connected, cache, db, adding, updater>>

(* the updater thread -------------------------------------------------------------------*)

Start ==
  /\ adding["user"] = <<>> /\ ~stopping /\ ~running /\ starts < MaxStarts
  /\ running' = TRUE /\ threads' = threads + 1 /\ starts' = starts + 1
  /\ UNCHANGED <<documents, adding, batch, stopping>>

\* A plausible bug: stop() waits for the thread before it clears the flag.
StopJoinsFirst ==
  /\ adding["user"] = <<>> /\ ~stopping /\ running
  /\ stopping' = TRUE
  /\ UNCHANGED <<documents, adding, batch, running, threads, starts>>

\* stop() clears the flag and waits for the thread.
Stop ==
  /\ adding["user"] = <<>> /\ ~stopping /\ running
  /\ running' = FALSE /\ stopping' = TRUE
  /\ UNCHANGED <<documents, adding, batch, threads, starts>>
Joined ==
  /\ stopping /\ threads = 0
  /\ stopping' = FALSE
  /\ UNCHANGED <<documents, adding, batch, running, threads, starts>>

\* At the top of its loop the thread looks at the flag, then fetches documents or
\* fails to; it adds them whole, one after the other.
Fetch ==
  /\ threads > 0 /\ batch = <<>> /\ adding["updater"] = <<>> /\ running
  /\ batch' \in Batches
  /\ UNCHANGED <<documents, adding, running, threads, stopping, starts>>
AddNext ==
  /\ threads > 0 /\ batch # <<>> /\ adding["updater"] = <<>>
  /\ adding' = [adding EXCEPT !["updater"] = <<Head(batch)>>]
  /\ batch' = Tail(batch)
  /\ UNCHANGED <<documents, running, threads, stopping, starts>>
ThreadEnds ==
  /\ threads > 0 /\ batch = <<>> /\ adding["updater"] = <<>> /\ ~running
  /\ threads' = threads - 1
  /\ UNCHANGED <<documents, adding, batch, running, stopping, starts>>

\* The process ends, its threads with it, and another makes a base of its own.
Restart ==
  /\ cache # <<>>
  /\ cache' = <<>> /\ db' = <<>> /\ queryCache' = <<>>
  /\ adding' = [a \in Actors |-> <<>>] /\ batch' = <<>> /\ running' = FALSE
  /\ threads' = 0 /\ stopping' = FALSE /\ connected' \in BOOLEAN
  /\ UNCHANGED starts

Next ==
  \/ AddDocument \/ AddChunk("user") \/ AddChunk("updater") \/ Retrieve
  \/ Start \/ Stop \/ Joined \/ Fetch \/ AddNext \/ ThreadEnds \/ Restart

\* Threads run; an answer or an error comes for every request.
Fairness ==
  /\ WF_vars(AddChunk("updater")) /\ WF_vars(AddNext) /\ WF_vars(ThreadEnds) /\ WF_vars(Joined)

Spec == Init /\ [][Next]_vars /\ Fairness

(* properties ---------------------------------------------------------------------------*)

Times(seq, t) == Cardinality({i \in DOMAIN seq : seq[i] = t})

\* What this base has put in the database it also finds by itself: no text is
\* stored more often than it is cached, whatever failed half way and whichever
\* thread added it.
StoredIsCached == \A t \in Range(db) : Times(db, t) <= Times(cache, t)

\* An answer from the query cache was right once: it is the best of the texts that
\* were there when the query it is alike to was asked, for the k of that query.
AnswersWereRight ==
  \A i \in DOMAIN queryCache : LET entry == queryCache[i] IN
    entry.answer \in Best(entry.query, entry.k, Range(SubSeq(cache, 1, entry.size)))

\* start() and stop() never leave two updater threads alive.
OneUpdaterThread == threads <= 1

\* A stop() in join returns: the thread is never stuck with a batch.  (A bounded
\* cache stops AddChunk: the bound is left out.)
StopReturns == stopping ~> (~stopping \/ Len(cache) = MaxCache)
==============================================================================
