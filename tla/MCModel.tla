-------------------------------- MODULE MCModel --------------------------------
(* The language model's parts for TLC: tokenizer, generation, rules, sentiment  *)
(* lexicon, knowledge base, data migration, the Nexus Flow scripts and the      *)
(* workout that exercises the model.  Each behaviour picks one of them at the   *)
(* start and only that one moves.                                               *)
EXTENDS Integers, Sequences, SequencesExt

CONSTANTS MaxTokens, MaxNew, MaxCalls, MaxFailures, MaxMerges, MaxTrainings, MaxCrashes,
          MaxBase, MaxCache, MaxStarts, MaxDocs, MaxImports, Retries, Cases, MaxAdded, MaxOutages,
          MigratedKeys, MigratedValues, ReadAs(_),                     \* DataMigration
          Texts, Queries, Alike(_, _), Similarity(_, _), ChunkSize, Overlap,  \* KnowledgeBase
          Graphs,                                                      \* NexusFlow
          GenTokens, GenBatches, Configs,                                 \* Generation
          AlgTokens, Begins, Letters, KnownWords, Intervals, Prompts   \* AlgGeneration

VARIABLES part,
          given, text, strictness, next, reports,
          source, file, target, job, imports, lost,
          connected, cache, db, queryCache, adding, batch, running, threads, stopping, starts,
          server, store, pc, tries, context, prompt, output,
          config, prompts, current, generated, active, rows, left, state, calls,
          known, wordlist, counts, temp, call, failures, algCalls,
          base, corpus, lexicon, dictionary, analyzer, failed,
          merges, vocab, words, trainText, tokenizer, mergesLeft, vocabFile, mergesFile,
          trainings, clean, fileClean, crashes,
          test, save, stage, results, log, evaluation, workList, backup, workTemp, sentiments,
          data, tissdb, outages, dbs, rag, saved, outcome

(* RuleEnforcer: two words of the lexicon, one the beginning of the other ---------*)
RuleWords == [no |-> {"negation", "conjunction", "pronoun", "singular", "transitive"},
              now |-> {"be", "question", "s"}]
RuleBegins(a, b) == a = b \/ (a = "no" /\ b = "now")

(* DataMigration: typed values and the texts they are written as ------------------*)
Value(type, txt) == [type |-> type, text |-> txt]
NullValue == Value("null", "None")
SomeValues == {NullValue, Value("int", "1"), Value("str", "a"), Value("str", "1"), Value("str", "")}
SomeReadAs(txt) == CASE txt = "" -> NullValue [] txt = "1" -> Value("int", "1") [] OTHER -> Value("str", txt)

(* KnowledgeBase: texts of words, scored by the occurrences of the query ----------*)
SomeTexts == {<<"a">>, <<"a", "b", "a">>}
Occurrences(q, t) == Len(SelectSeq(t, LAMBDA w : w = q))
SameQuery(p, q) == p = q

(* NexusFlow ----------------------------------------------------------------------*)
TwoGraphs == <<"g1", "g2">>

(* Generation ---------------------------------------------------------------------*)
SomeBatches == {<<>>, <<<<>>>>, <<<<1>>>>, <<<<0>>>>, <<<<1, 2>>>>, <<<<1>>, <<2>>>>, <<<<1>>, <<1, 2>>>>}
Config(method, parameter, eos, suppress, ngram) ==
  [method |-> method, parameter |-> parameter, eos |-> eos, suppress |-> suppress, ngram |-> ngram]
Greedy == Config("greedy", "given", {}, FALSE, 2)
SomeConfigs == {Greedy, Config("nucleus", "missing", {}, FALSE, 0), Config("nucleus", "given", {2}, FALSE, 0),
                Config("random", "given", {2}, TRUE, 2), Config("greedy", "given", {}, FALSE, 1)}

(* AlgGeneration: the text of a token is as long as its number ---------------------*)
SomeLetters == [t \in AlgTokens |-> t]
SomeWords == {<<3>>}
SomePrompts == {<<1>>}

(* SentimentLexicon: words over two letters ----------------------------------------*)
a == <<"a">>
ab == <<"a", "b">>
ba == <<"b", "a">>
bb == <<"b", "b">>
aba == <<"a", "b", "a">>
SomeLines == {[kind |-> "heading", category |-> c] : c \in {"POSITIVE", "NEGATIVE", "OTHER"}}
             \cup {[kind |-> "entry", word |-> w] : w \in {ab, ba, bb}} \cup {[kind |-> "other"]}
SomeCorpora == {<<>>, <<a, aba, a>>, <<ab, ba, aba, aba>>}

(* BpeTokenizer: characters by their UTF-8 bytes, one of two bytes -----------------*)
Blank == <<32>>
Chars == {<<97>>, <<195, 169>>}
A == <<97>>
E == <<195, 169>>
TrainingTexts == {<<A, A, A, Blank, A, A>>, <<A, E, Blank, E, A, E>>}
ProbeTexts == UNION {[1..n -> {Blank, A, E}] : n \in 0..4}

Rules == INSTANCE RuleEnforcer WITH Words <- RuleWords, Begins <- RuleBegins, Strictness <- {0, 5, 10}
\* Nothing is read as a null, and what a text was read as is written as a text that is
\* read the same (importer_exporter.py:45-67).
ASSUME MigrationAssumption ==
  /\ ReadAs("") = NullValue
  /\ \A v \in MigratedValues : LET read == ReadAs(v.text) IN
       read # NullValue => ReadAs(read.text) = read
Migration == INSTANCE DataMigration WITH Keys <- MigratedKeys, Values <- MigratedValues, Null <- NullValue,
                                         Convert <- ReadAs
Base == INSTANCE KnowledgeBase WITH Score <- Similarity
\* Graphs are listed, and are neither the database nor the collection they are in.
ASSUME GraphsAssumption ==
  /\ Len(Graphs) \in Nat /\ DOMAIN Graphs = 1..Len(Graphs)
  /\ \A i \in 1..Len(Graphs) : Graphs[i] \notin {"db", "collection"}
Nexus == INSTANCE NexusFlow
\* A batch is a list of prompts, an n-gram has a size.
ASSUME GenerationAssumption ==
  /\ GenBatches \subseteq Seq(Seq(Nat))
  /\ Configs \subseteq [method : STRING, parameter : {"missing", "given"}, eos : SUBSET Nat,
                        suppress : BOOLEAN, ngram : Int]
  /\ MaxNew \in Nat
Gen == INSTANCE Generation WITH Tokens <- GenTokens, Batches <- GenBatches
\* A prompt is a list of tokens; an interval of 0 would divide by zero.
ASSUME AlgorithmicAssumption ==
  Prompts \subseteq Seq(AlgTokens) /\ Intervals \subseteq Nat \ {0}
Alg == INSTANCE AlgGeneration WITH Tokens <- AlgTokens, Words <- KnownWords, calls <- algCalls
Lexicon == INSTANCE SentimentLexicon
  WITH BaseLines <- SomeLines, Texts <- SomeCorpora, Threshold <- 1, CorpusLimit <- 2, BaseLimit <- 2,
       Stems <- [w \in {ab, ba, bb} |-> w]
Bpe == INSTANCE BpeTokenizer
  WITH Space <- Blank, Letters <- Chars, Corpora <- TrainingTexts, Probes <- ProbeTexts,
       text <- trainText, state <- tokenizer, left <- mergesLeft
Work == INSTANCE Workout WITH wordlist <- workList, temp <- workTemp, server <- tissdb

Parts == {"rules", "migration", "base", "nexus", "generation", "algorithmic", "lexicon", "bpe", "workout"}

rulesVars == <<given, text, strictness, next, reports>>
migrationVars == <<source, file, target, job, imports, lost>>
baseVars == <<connected, cache, db, queryCache, adding, batch, running, threads, stopping, starts>>
nexusVars == <<server, store, pc, tries, context, prompt, output>>
genVars == <<config, prompts, current, generated, active, rows, left, state, calls>>
algVars == <<known, wordlist, counts, temp, call, failures, algCalls>>
lexiconVars == <<base, corpus, lexicon, dictionary, analyzer, failed>>
bpeVars == <<merges, vocab, words, trainText, tokenizer, mergesLeft, vocabFile, mergesFile,
             trainings, clean, fileClean, crashes>>
workVars == <<test, save, stage, results, log, evaluation, workList, backup, workTemp, sentiments,
              data, tissdb, outages, dbs, rag, saved, outcome>>
vars == <<part, rulesVars, migrationVars, baseVars, nexusVars, genVars, algVars, lexiconVars, bpeVars,
          workVars>>

\* A part that does not move has one initial state.  A workout of all its suites starts
\* with its files in place and the server up; one suite alone with any of them missing.
Init ==
  /\ part \in Parts
  /\ Migration!Init /\ Nexus!Init /\ Bpe!Init
  /\ Rules!Init /\ (part # "rules" => strictness = 0)
  /\ Base!Init /\ (part # "base" => connected)
  /\ Gen!Init /\ (part # "generation" => config = Greedy)
  /\ Alg!Init /\ (part # "algorithmic" => wordlist = <<>>)
  /\ Lexicon!Init /\ (part # "lexicon" => base = <<>> /\ corpus = <<>>)
  /\ Work!Init
  /\ part # "workout" => /\ test = "none" /\ save /\ data /\ tissdb
                         /\ workList.text = "none" /\ sentiments = "none"
  /\ part = "workout" /\ test \in {"all", "none"}
       => data /\ tissdb /\ workList.text = "original" /\ sentiments = "full"

Next ==
  /\ UNCHANGED part
  /\ \/ /\ part = "rules" /\ Rules!Next
        /\ UNCHANGED <<migrationVars, baseVars, nexusVars, genVars, algVars, lexiconVars, bpeVars, workVars>>
     \/ /\ part = "migration" /\ Migration!Next
        /\ UNCHANGED <<rulesVars, baseVars, nexusVars, genVars, algVars, lexiconVars, bpeVars, workVars>>
     \/ /\ part = "base" /\ Base!Next
        /\ UNCHANGED <<rulesVars, migrationVars, nexusVars, genVars, algVars, lexiconVars, bpeVars, workVars>>
     \/ /\ part = "nexus" /\ Nexus!Next
        /\ UNCHANGED <<rulesVars, migrationVars, baseVars, genVars, algVars, lexiconVars, bpeVars, workVars>>
     \/ /\ part = "generation" /\ Gen!Next
        /\ UNCHANGED <<rulesVars, migrationVars, baseVars, nexusVars, algVars, lexiconVars, bpeVars, workVars>>
     \/ /\ part = "algorithmic" /\ Alg!Next
        /\ UNCHANGED <<rulesVars, migrationVars, baseVars, nexusVars, genVars, lexiconVars, bpeVars, workVars>>
     \/ /\ part = "lexicon" /\ Lexicon!Next
        /\ UNCHANGED <<rulesVars, migrationVars, baseVars, nexusVars, genVars, algVars, bpeVars, workVars>>
     \/ /\ part = "bpe" /\ Bpe!Next
        /\ UNCHANGED <<rulesVars, migrationVars, baseVars, nexusVars, genVars, algVars, lexiconVars, workVars>>
     \/ /\ part = "workout" /\ Work!Next
        /\ UNCHANGED <<rulesVars, migrationVars, baseVars, nexusVars, genVars, algVars, lexiconVars, bpeVars>>

Fairness == Base!Fairness /\ WF_nexusVars(part = "nexus" /\ Nexus!Progress)

Spec == Init /\ [][Next]_vars /\ Fairness

\* RuleEnforcer: rules repair and do not rewrite: no word is added or moved, and a word
\* is lost only in front of one that begins with it.  A strict suite leaves the word
\* after a sentence's end capitalised, whatever the later rules cut and join.
RulesRepair == part = "rules" => Rules!WordsSurvive /\ Rules!SentencesCapitalised

\* DataMigration: the number an import reports is what it stored, in the file's order
\* and nothing twice; a round trip through one tool keeps every plain value, and a
\* second one changes nothing more.
ImportsKeepDocuments ==
  part = "migration" => /\ Migration!CountIsStored /\ Migration!NoneTwice
                        /\ Migration!TripKeepsValues /\ Migration!TripSettles

\* KnowledgeBase: what is in the database is cached, an answer from the query cache was
\* the best one for the texts of its time, start and stop leave one updater thread at
\* most, and a stop that waits for the thread returns.
KnowledgeStaysSound ==
  /\ [](part = "base" => Base!StoredIsCached /\ Base!AnswersWereRight /\ Base!OneUpdaterThread)
  /\ Base!StopReturns

\* NexusFlow: nothing is put into what was not made before, the prompt's graphs come from
\* the server in order, and the script ends up serving, or aborted, unless a server
\* hangs on one of the two requests without a timeout.
NexusBuildsAndSettles ==
  /\ [](part = "nexus" => Nexus!StoreIsBuiltInOrder /\ Nexus!ContextIsRead)
  /\ (part = "nexus" => Nexus!ScriptSettles)

\* Generation: with prompts of one length the logits that decide a sequence's next token
\* come from its own last token, whichever sequences have ended, and no n-gram of two or
\* more tokens is generated twice while another token is left.
RowsAreTheirOwn == part = "generation" => Gen!RowsAreTheirOwn /\ Gen!NgramsDoNotRepeat

\* AlgGeneration: the repetition penalty sees the newest token, a word enters the word
\* list once, and after a dynamic revision the file holds every token since the last
\* save but one, provided no write failed.
SessionIsKept ==
  part = "algorithmic" => Alg!PenaltySeesAll /\ Alg!NoWordTwice /\ Alg!TempHoldsTheTail

\* SentimentLexicon: a word of the corpus has the score of a nearest word of the base
\* lexicon, the two similarity scripts name the same nearest word, and the analyzer reads
\* back the scores that were written.
ScoresComeFromTheNearest ==
  /\ [](part = "lexicon" => Lexicon!ScoresComeFromTheNearest /\ Lexicon!NearestAgree)
  /\ Lexicon!AnalyzerReadsWhatWasWritten

\* BpeTokenizer: with a tokenizer trained once, or loaded from one save, decoding an
\* encoded text gives the text, and the trained text encodes as its training ended.
EncodesAsItTrained == part = "bpe" => Bpe!RoundTrip /\ Bpe!EncodesAsItTrained

\* Workout: after suite 3b the word list is what it was, however its cases ended; a RAG
\* scenario's database is gone before the next; saved results are of all combinations.
WorkoutCleansUp ==
  part = "workout" => Work!WordlistRestored /\ Work!NoDatabaseLeft /\ Work!SavedIsWhole
================================================================================
