-------------------------------- MODULE Workout --------------------------------
(* The evaluation workout (evaluation/full_fledged_workout.py and its suites     *)
(* 01 to 11): one process that runs suites of test cases against a loaded model  *)
(* and prints its report at the end.  Suites share files (the word list, the     *)
(* token counts, the corpus sentiments) and a TissDB server.  The texts, their   *)
(* measures and the times are left out; a case's result is whether it is an      *)
(* error and, for a case that has steps, how many it completed.                  *)
EXTENDS Integers, Sequences, SequencesExt, FiniteSets

CONSTANTS Cases,      \* bound: test cases of a suite
          MaxAdded,   \* bound: words one generation adds to the word list
          MaxOutages  \* bound: times the TissDB server stops

Suites == <<"expanded", "discovery", "1", "2", "3a", "3b", "3c", "3x", "4", "5a", "5b",
            "6", "7", "8", "9", "10", "11">>
Tests == {"expanded", "1", "2", "3", "4", "5", "6", "7", "8", "9", "10", "11"}

VARIABLES test, save,  \* the command line; test is "none" when it is not given
          stage,       \* 0 while loading, an index of Suites, or one past them
          results,     \* the results of the suite that runs
          log,         \* for each suite that ended, its analysis
          evaluation,  \* evaluation_results
          wordlist,    \* wordlist.txt: [text: which, added: words appended to it]
          backup,      \* original_wordlist, "unread" before it is read
          temp,        \* temp_list.txt
          sentiments,  \* corpus_sentiments.cat
          data,        \* whether the data directory exists
          server, outages, dbs, \* the TissDB server and the scenario databases in it
          rag,         \* where a RAG scenario is
          saved,       \* the files of save_evaluation_results
          outcome      \* "running", "done", "exited", "aborted", "killed"

files == <<wordlist, backup, temp, sentiments, data>>
external == <<server, outages, dbs, rag>>
vars == <<test, save, stage, results, log, evaluation, files, external, saved, outcome>>

Init ==
  /\ test \in Tests \cup {"all", "none"} /\ save \in BOOLEAN
  /\ stage = 0 /\ results = <<>> /\ log = <<>> /\ evaluation = <<>>
  /\ data \in BOOLEAN
  /\ wordlist \in {[text |-> t, added |-> 0] : t \in IF data THEN {"none", "original"} ELSE {"none"}}
  /\ sentiments \in IF data THEN {"none", "empty", "full"} ELSE {"none"}
  /\ temp = "none" /\ backup = "unread"
  /\ server \in BOOLEAN /\ outages = 0 /\ dbs = {} /\ rag = [at |-> "none", steps |-> 0]
  /\ saved = {} /\ outcome = "running"

Running == outcome = "running"
End(how) == outcome' = how /\ UNCHANGED <<test, save, stage, results, log, evaluation, saved>>

-----------------------------------------------------------------------------
\* A tokenizer, a model or weights that do not load end the process, with the report.
Load ==
  /\ Running /\ stage = 0
  /\ \/ stage' = 1 /\ UNCHANGED outcome
     \/ stage' = 0 /\ outcome' = "exited"
  /\ UNCHANGED <<test, save, results, log, evaluation, files, external, saved>>

Selected(suite) ==
  CASE suite = "discovery" -> {"expanded", "all"}
    [] suite \in {"3a", "3b", "3c", "3x"} -> {"3", "all"}
    [] suite \in {"5a", "5b"} -> {"5", "all"}
    [] OTHER -> {suite, "all"}

In(suite) == Running /\ stage \in DOMAIN Suites /\ Suites[stage] = suite /\ test \in Selected(suite)
Case(suite) == In(suite) /\ Len(results) < Cases
Over(suite) == In(suite) /\ Len(results) = Cases

\* A suite that the command line does not ask for.
Pass ==
  /\ Running /\ stage \in DOMAIN Suites /\ test \notin Selected(Suites[stage])
  /\ stage' = stage + 1
  /\ UNCHANGED <<test, save, results, log, evaluation, files, external, saved, outcome>>

Good == [error |-> FALSE, steps |-> 4]
Bad == [error |-> TRUE, steps |-> 0]

Result(r) ==
  /\ results' = Append(results, r)
  /\ UNCHANGED <<test, save, stage, log, evaluation, saved, outcome>>

\* The suite is over: its analysis goes to the report.
Close(suite, analysis) ==
  /\ stage' = stage + 1 /\ results' = <<>>
  /\ log' = Append(log, [suite |-> suite, analysis |-> analysis])
  /\ UNCHANGED <<test, save, saved, outcome>>

Errors(rs) == Cardinality({i \in DOMAIN rs : rs[i].error})
Counted(rs) == [total |-> Len(rs), good |-> Len(rs) - Errors(rs)]

\* run_expanded_parameter_evaluation: the generator's sample has no parameter
\* `prompt_tokens`, so every combination is an error, and is recorded as one.
ExpandedCase == Case("expanded") /\ Result(Bad) /\ UNCHANGED <<files, external>>

\* generate_evaluation_summary and the extension of evaluation_results.
ExpandedSummary ==
  /\ Over("expanded") /\ Close("expanded", Counted(results))
  /\ evaluation' = evaluation \o results
  /\ UNCHANGED <<files, external>>

\* Each callable that is found is tried, and its failure is a line of the report.
Discovery ==
  /\ In("discovery") /\ Close("discovery", Counted(<<>>))
  /\ UNCHANGED <<evaluation, files, external>>

\* Suite 1: a scenario with a method; whatever it raises is recorded.
KvCacheCase ==
  /\ Case("1") /\ \E r \in {Good, Bad} : Result(r)
  /\ UNCHANGED <<files, external>>

KvCacheAnalysis ==
  /\ Over("1") /\ Close("1", Counted(results))
  /\ UNCHANGED <<evaluation, files, external>>

-----------------------------------------------------------------------------
ServerStops ==
  /\ Running /\ server /\ outages < MaxOutages
  /\ server' = FALSE /\ outages' = outages + 1
  /\ UNCHANGED <<test, save, stage, results, log, evaluation, files, dbs, rag, saved, outcome>>
ServerStarts ==
  /\ Running /\ ~server /\ server' = TRUE
  /\ UNCHANGED <<test, save, stage, results, log, evaluation, files, outages, dbs, rag, saved, outcome>>

\* Suite 2, a scenario: its database is made and filled.
RagSetup ==
  /\ Case("2") /\ rag.at = "none"
  /\ IF server
     THEN dbs' = dbs \cup {Len(results) + 1} /\ rag' = [at |-> "working", steps |-> 0]
     ELSE UNCHANGED dbs /\ rag' = [at |-> "failed", steps |-> 0]
  /\ UNCHANGED <<test, save, stage, results, log, evaluation, files, server, outages, saved, outcome>>

\* Retrieval, evaluation, generation and self-update, in order; the first and the last
\* ask the server.
RagStep ==
  /\ rag.at = "working" /\ Case("2") /\ rag.steps < 4
  /\ rag.steps \in {0, 3} => server
  /\ rag' = [rag EXCEPT !.steps = @ + 1]
  /\ UNCHANGED <<test, save, stage, results, log, evaluation, files, server, outages, dbs, saved,
                 outcome>>

\* A step raises; the one after the four names a variable that does not exist.
RagStepRaises ==
  /\ rag.at = "working" /\ Case("2")
  /\ rag' = [rag EXCEPT !.at = "failed"]
  /\ UNCHANGED <<test, save, stage, results, log, evaluation, files, server, outages, dbs, saved,
                 outcome>>

\* A plausible bug: the database is deleted only when all steps were done.
RagCleanupOnSuccess ==
  /\ rag.at = "failed" /\ Case("2")
  /\ rag' = [at |-> "none", steps |-> 0]
  /\ dbs' = IF rag.steps = 4 THEN dbs \ {Len(results) + 1} ELSE dbs
  /\ Result([error |-> TRUE, steps |-> rag.steps])
  /\ UNCHANGED <<files, server, outages>>

\* The `finally`: the database is deleted.  With no server that raises, and nothing
\* above the scenario catches it.
RagCleanup ==
  /\ rag.at = "failed" /\ Case("2")
  /\ rag' = [at |-> "none", steps |-> 0]
  /\ IF server
     THEN dbs' = dbs \ {Len(results) + 1} /\ Result([error |-> TRUE, steps |-> rag.steps])
     ELSE UNCHANGED dbs /\ End("aborted")
  /\ UNCHANGED <<files, server, outages>>

\* analyze_rag_performance: means over the scenarios that reached each step.
RagAnalysis ==
  /\ Over("2")
  /\ Close("2", [total |-> Len(results), good |-> Len(results) - Errors(results),
                 reached |-> [s \in 1..4 |-> Cardinality({i \in DOMAIN results : results[i].steps >= s})]])
  /\ UNCHANGED <<evaluation, files, external>>

-----------------------------------------------------------------------------
\* Suite 3a: the counts file is emptied, and filled by the generation.
DynamicRevisionCase ==
  /\ Case("3a")
  /\ IF data THEN \/ temp' = "counts" /\ Result(Good)
                  \/ temp' \in {"empty", "counts"} /\ Result(Bad)
     ELSE UNCHANGED temp /\ Result(Bad)
  /\ UNCHANGED <<wordlist, backup, sentiments, data, external>>

DynamicRevisionReport ==
  /\ Over("3a") /\ Close("3a", Counted(results))
  /\ UNCHANGED <<evaluation, files, external>>

\* Suite 3b: the word list is read, or taken for empty, ...
WordlistBackup ==
  /\ In("3b") /\ backup = "unread"
  /\ backup' = IF wordlist.text = "none" THEN "empty" ELSE wordlist.text
  /\ UNCHANGED <<test, save, stage, results, log, evaluation, wordlist, temp, sentiments, data,
                 external, saved, outcome>>

\* ... replaced by four words for each case, which appends to it, ...
WordExpansionCase ==
  /\ Case("3b") /\ backup # "unread"
  /\ IF data THEN \E added \in 0..MaxAdded, r \in {Good, Bad} :
                    wordlist' = [text |-> "test", added |-> added] /\ Result(r)
     ELSE UNCHANGED wordlist /\ Result(Bad)
  /\ UNCHANGED <<backup, temp, sentiments, data, external>>

\* The words a case reports: the four words end without a line break, so that the
\* first that is appended makes one word with the last of them.
WordsReported(list) == IF list.added = 0 THEN 0 ELSE list.added - 1

\* ... and written back.  Without its directory the file cannot be opened.
WordlistRestore ==
  /\ Over("3b") /\ backup # "unread"
  /\ IF data THEN /\ wordlist' = [text |-> backup, added |-> 0]
                  /\ Close("3b", Counted(results)) /\ UNCHANGED evaluation
     ELSE UNCHANGED wordlist /\ End("aborted")
  /\ UNCHANGED <<backup, temp, sentiments, data, external>>

\* Suite 3c: a missing sentiment file is made by another script's main, which reads
\* this process's command line, refuses it and exits.  An empty one skips the suite.
AdaptiveSentimentStart ==
  /\ In("3c") /\ sentiments # "full"
  /\ IF sentiments = "none" THEN End("aborted")
     ELSE Close("3c", Counted(<<>>)) /\ UNCHANGED evaluation
  /\ UNCHANGED <<files, external>>

AdaptiveSentimentCase ==
  /\ Case("3c") /\ sentiments = "full" /\ \E r \in {Good, Bad} : Result(r)
  /\ UNCHANGED <<files, external>>

AdaptiveSentimentReport ==
  /\ Over("3c") /\ sentiments = "full" /\ Close("3c", Counted(results))
  /\ UNCHANGED <<evaluation, files, external>>

\* The explicit scenarios, and the totals over suites 3a to 3c and these.
ExplicitCase ==
  /\ Case("3x") /\ \E r \in {Good, Bad} : Result(r)
  /\ UNCHANGED <<files, external>>

ExperimentalReport ==
  LET parts == SelectSeq(log, LAMBDA entry : entry.suite \in {"3a", "3b", "3c"})
      Sum(Field(_)) == FoldLeft(LAMBDA n, entry : n + Field(entry.analysis), 0, parts) IN
  /\ Over("3x")
  /\ Close("3x", [total |-> Len(results) + Sum(LAMBDA a : a.total),
                  good |-> Counted(results).good + Sum(LAMBDA a : a.good)])
  /\ UNCHANGED <<evaluation, files, external>>

-----------------------------------------------------------------------------
\* Suite 4: a configuration keeps its parameters under "params"; the first look-up of
\* "temperature" raises, and nothing catches it.
StandardCase == Case("4") /\ End("aborted") /\ UNCHANGED <<evaluation, files, external>>

\* Suite 5a: a test case at every strictness.
RuleCase ==
  /\ Case("5a") /\ \E r \in {Good, Bad} : Result(r)
  /\ UNCHANGED <<files, external>>
RuleCasesOver ==
  /\ Over("5a") /\ Close("5a", Counted(results))
  /\ UNCHANGED <<evaluation, files, external>>

\* Suite 5b: the text to clean is asked for as in the expanded evaluation.
RuleOnGenerated == Case("5b") /\ Result(Bad) /\ UNCHANGED <<files, external>>

\* analyze_rule_enforcement_performance, for one strictness.
RuleAnalysis ==
  LET onCases == Last(log).analysis IN
  /\ Over("5b")
  /\ Close("5b", [total |-> onCases.total + Counted(results).good,
                  good |-> onCases.good + Counted(results).good])
  /\ UNCHANGED <<evaluation, files, external>>

\* Suites 6 and 7 need texts that only suite 4 makes: they are skipped.
AdvancedAnalysisSkipped ==
  /\ In("6") \/ In("7")
  /\ Close(Suites[stage], Counted(<<>>))
  /\ UNCHANGED <<evaluation, files, external>>

\* Suite 8: errors are reported; the deletion in its `finally` may raise.
TissDBLiteTests ==
  /\ In("8")
  /\ \/ \E r \in {Good, Bad} : Close("8", Counted(<<r>>)) /\ UNCHANGED evaluation
     \/ End("aborted")
  /\ UNCHANGED <<files, external>>

\* Suite 9: a script that does not parse, or parses to another tree, is reported.
ParserCase ==
  /\ Case("9") /\ \E r \in {Good, Bad} : Result(r)
  /\ UNCHANGED <<files, external>>
\* Suite 10: tests of placeholders.
SamplingCase ==
  /\ Case("10") /\ \E r \in {Good, Bad} : Result(r)
  /\ UNCHANGED <<files, external>>
\* Suite 11: tests of placeholders.
RetrievalCase ==
  /\ Case("11") /\ \E r \in {Good, Bad} : Result(r)
  /\ UNCHANGED <<files, external>>
CasesOver ==
  /\ \E suite \in {"9", "10", "11"} : Over(suite) /\ Close(suite, Counted(results))
  /\ UNCHANGED <<evaluation, files, external>>

-----------------------------------------------------------------------------
\* The results, and then their summary; a failure between the two leaves the first.
SaveResults ==
  /\ Running /\ stage = Len(Suites) + 1 /\ save /\ evaluation # <<>> /\ saved = {}
  /\ saved' \in {{"results", "summary"}, {"results"}, {"failed"}}
  /\ UNCHANGED <<test, save, stage, results, log, evaluation, files, external, outcome>>

\* The report is printed.
Finish ==
  /\ Running /\ stage = Len(Suites) + 1
  /\ save /\ evaluation # <<>> => saved # {}
  /\ End("done") /\ UNCHANGED <<files, external>>

\* The process is killed.
Kill == Running /\ End("killed") /\ UNCHANGED <<files, external>>

Next ==
  \/ Load \/ Pass \/ ExpandedCase \/ ExpandedSummary \/ Discovery \/ KvCacheCase
  \/ KvCacheAnalysis \/ ServerStops \/ ServerStarts \/ RagSetup \/ RagStep \/ RagStepRaises
  \/ RagCleanup \/ RagAnalysis \/ DynamicRevisionCase \/ DynamicRevisionReport
  \/ WordlistBackup \/ WordExpansionCase \/ WordlistRestore \/ AdaptiveSentimentStart
  \/ AdaptiveSentimentCase \/ AdaptiveSentimentReport \/ ExplicitCase \/ ExperimentalReport
  \/ StandardCase \/ RuleCase \/ RuleCasesOver \/ RuleOnGenerated \/ RuleAnalysis
  \/ AdvancedAnalysisSkipped \/ TissDBLiteTests \/ ParserCase \/ SamplingCase
  \/ RetrievalCase \/ CasesOver \/ SaveResults \/ Finish \/ Kill

Spec == Init /\ [][Next]_vars

-----------------------------------------------------------------------------
TypeOK ==
  /\ stage \in 0..(Len(Suites) + 1) /\ Len(results) <= Cases
  /\ dbs \subseteq 1..Cases /\ rag.steps \in 0..4
  /\ outcome \in {"running", "done", "exited", "aborted", "killed"}

Ended(suite) == \E i \in DOMAIN log : log[i].suite = suite

\* full_fledged_workout03.py:191-262: once suite 3b has ended, whatever its cases did,
\* the word list has its old words, and no file where there was none has no words.
WordlistRestored ==
  Ended("3b") => wordlist.text = backup /\ wordlist.text # "test" /\ wordlist.added = 0

\* full_fledged_workout02.py:88-213: a scenario's database is gone when the next one
\* begins and when the suite has ended, however the scenario failed.
NoDatabaseLeft == rag.at = "none" /\ outcome = "running" => dbs = {}

\* full_fledged_workout.py:136-200, 500-508: a workout that is done and saved its
\* results saved one for each combination of the expanded evaluation.
SavedIsWhole ==
  outcome = "done" /\ "results" \in saved => Len(evaluation) = Cases /\ Ended("expanded")

\* ENHANCED_EVALUATION_SCRIPTS_README.md:76: a failure is reported, it does not end the
\* workout before its report.
FailuresAreReported == outcome # "aborted"

\* full_fledged_workout03.py:244: the words a case reports are those that were added.
ReportedWereAdded == wordlist.text = "test" => WordsReported(wordlist) = wordlist.added
=============================================================================
