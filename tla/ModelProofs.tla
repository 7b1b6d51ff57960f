------------------------------ MODULE ModelProofs ------------------------------
(*****************************************************************************)
(* The language model's surroundings for every size.  Each part is proved by *)
(* itself; in a run of MCModel it starts in one of its initial states and    *)
(* makes its own steps, so what is proved of it holds there.                 *)
(*****************************************************************************)
EXTENDS MCModel, FiniteSets, FiniteSetTheorems, SequenceTheorems, WellFoundedInduction, TLAPS

(* A set of numbers that holds 0, and n whenever it holds n - 1, holds all. *)
LEMMA UpTo ==
    ASSUME NEW N \in Nat, NEW G, 0 \in G, \A n \in 1..N : n - 1 \in G => n \in G
    PROVE  \A n \in 0..N : n \in G
<1> DEFINE Less == {p \in Nat \X Nat : p[1] < p[2]}
           T == {n \in 0..N : n \notin G}
<1>1. IsWellFoundedOn(Less, Nat)  BY NatLessThanWellFounded, Zenon DEF OpToRel
<1> SUFFICES ASSUME T # {} PROVE FALSE  OBVIOUS
<1>2. PICK x \in T : \A y \in T : ~(<<y, x>> \in Less)
  <2> HIDE DEF Less
  <2>1. T \subseteq Nat  OBVIOUS
  <2> HIDE DEF T
  <2> QED  BY <1>1, <2>1, WFMin, Zenon
<1>3. x \in 1..N /\ x - 1 \in 0..N  OBVIOUS
<1>4. x - 1 \notin T
  <2>1. <<x - 1, x>> \in Less  BY <1>3
  <2> QED  BY <1>2, <2>1
<1> QED  BY <1>2, <1>3, <1>4

(*****************************************************************************)
(* The workout, for any number of cases.  Which suite runs is a place in the *)
(* list of suites that only grows, and what a suite has done with the word   *)
(* list, the databases and the results is known by that place.               *)
(*****************************************************************************)
IsSequence(s) == \E S : s \in Seq(S)

LEMMA SequenceGrows ==
    ASSUME NEW s, IsSequence(s), NEW x
    PROVE  /\ IsSequence(Append(s, x)) /\ DOMAIN s = 1..Len(s) /\ Len(s) \in Nat
           /\ DOMAIN Append(s, x) = 1..(Len(s) + 1)
           /\ Append(s, x)[Len(s) + 1] = x /\ \A i \in 1..Len(s) : Append(s, x)[i] = s[i]
<1>1. PICK S : s \in Seq(S)  BY DEF IsSequence
<1>2. s \in Seq(S \cup {x}) /\ x \in S \cup {x}  BY <1>1
<1>3. Append(s, x) \in Seq(S \cup {x})  BY <1>2
<1> QED  BY <1>2, <1>3 DEF IsSequence

LEMMA SuitesAre ==
    /\ DOMAIN Work!Suites = 1..17 /\ Len(Work!Suites) = 17
    /\ \A i \in 1..17 : /\ Work!Suites[i] = "expanded" <=> i = 1
                        /\ Work!Suites[i] = "2" <=> i = 4
                        /\ Work!Suites[i] = "3b" <=> i = 6
BY DEF Work!Suites

WorkTypes ==
    /\ stage \in 0..18
    /\ IsSequence(log) /\ IsSequence(results)
    /\ rag \in [at : {"none", "working", "failed"}, steps : Int]

(* Suite 3b ends once, with the old words written back. *)
WordsInv ==
    /\ Work!Ended("3b") => stage > 6
    /\ backup # "test" /\ (backup = "unread" => workList.text # "test")
    /\ Work!WordlistRestored

(* A scenario that is under way is one of suite 2, and has the only database. *)
RagInv ==
    /\ rag.at # "none" => /\ stage = 4 /\ test \in Work!Selected("2")
                         /\ Len(results) < Cases /\ dbs \subseteq {Len(results) + 1}
    /\ Work!NoDatabaseLeft

(* The results are those of the expanded evaluation or none. *)
SavedInv ==
    /\ stage <= 1 => evaluation = <<>>
    /\ evaluation # <<>> => Len(evaluation) = Cases /\ Work!Ended("expanded")
    /\ "results" \in saved => evaluation # <<>>

WorkInv == WorkTypes /\ WordsInv /\ RagInv /\ SavedInv

(* The kinds of step. *)
Stays ==
    UNCHANGED <<test, stage, results, log, evaluation, workList, backup, dbs, rag, saved>>

Moves ==
    /\ stage' = stage + 1 /\ stage' \in 0..18 /\ (stage = 4 => rag.at = "none")
    /\ UNCHANGED <<results, log, evaluation, workList, backup, dbs, rag, saved>>

Records ==
    /\ stage # 4 /\ \E r : results' = Append(results, r)
    /\ \/ workList' = workList
       \/ stage = 6 /\ backup # "unread"
    /\ UNCHANGED <<stage, log, evaluation, backup, dbs, rag, saved>>

Closes ==
    /\ stage \in 1..17 /\ stage' = stage + 1 /\ results' = <<>>
    /\ \E e : e.suite = Work!Suites[stage] /\ log' = Append(log, e)
    /\ stage = 4 => Len(results) = Cases
    /\ IF stage = 1 THEN evaluation' = evaluation \o results /\ Len(results) = Cases
       ELSE evaluation' = evaluation
    /\ IF stage = 6 THEN workList' = [text |-> backup, added |-> 0] ELSE workList' = workList
    /\ UNCHANGED <<backup, dbs, rag, saved>>

Backs ==
    /\ stage = 6 /\ backup = "unread"
    /\ backup' = IF workList.text = "none" THEN "empty" ELSE workList.text
    /\ UNCHANGED <<stage, results, log, evaluation, workList, dbs, rag, saved, outcome>>

Retrieves ==
    /\ stage = 4 /\ Len(results) < Cases /\ test \in Work!Selected("2") /\ test' = test
    /\ \/ /\ rag.at = "none" /\ rag'.at # "none" /\ results' = results
          /\ outcome = "running" /\ dbs' \in {dbs, dbs \cup {Len(results) + 1}}
       \/ rag.at # "none" /\ rag'.at # "none" /\ UNCHANGED <<results, dbs>>
       \/ /\ rag.at # "none" /\ rag'.at = "none" /\ dbs' = dbs \ {Len(results) + 1}
          /\ \E r : results' = Append(results, r)
       \/ /\ rag.at # "none" /\ rag'.at = "none" /\ UNCHANGED <<dbs, results>>
          /\ outcome' # "running"
    /\ rag' \in [at : {"none", "working", "failed"}, steps : Int]
    /\ UNCHANGED <<stage, log, evaluation, workList, backup, saved>>

Saves ==
    /\ evaluation # <<>>
    /\ UNCHANGED <<test, stage, results, log, evaluation, workList, backup, dbs, rag>>

LEMMA WorkSteps ==
    ASSUME WorkInv, Work!Next
    PROVE  /\ outcome = "running"
           /\ Stays \/ Moves \/ Records \/ Closes \/ Backs \/ Retrieves \/ Saves
<1> USE DEF WorkInv
<1>1. Work!ExpandedCase => outcome = "running" /\ Records
  BY SuitesAre DEF Work!ExpandedCase, Records,
     Work!Running, Work!In, Work!Case, Work!Over, Work!Result, Work!Close, Work!End, Work!files, Work!external
<1>2. Work!KvCacheCase => outcome = "running" /\ Records
  BY SuitesAre DEF Work!KvCacheCase, Records,
     Work!Running, Work!In, Work!Case, Work!Over, Work!Result, Work!Close, Work!End, Work!files, Work!external
<1>3. Work!DynamicRevisionCase => outcome = "running" /\ Records
  BY SuitesAre, Zenon DEF Work!DynamicRevisionCase, Records,
     Work!Running, Work!In, Work!Case, Work!Over, Work!Result, Work!Close, Work!End, Work!files, Work!external
<1>4. Work!WordExpansionCase => outcome = "running" /\ Records
  BY SuitesAre, Zenon DEF Work!WordExpansionCase, Records,
     Work!Running, Work!In, Work!Case, Work!Over, Work!Result, Work!Close, Work!End, Work!files, Work!external
<1>5. Work!AdaptiveSentimentCase => outcome = "running" /\ Records
  BY SuitesAre DEF Work!AdaptiveSentimentCase, Records,
     Work!Running, Work!In, Work!Case, Work!Over, Work!Result, Work!Close, Work!End, Work!files, Work!external
<1>6. Work!ExplicitCase => outcome = "running" /\ Records
  BY SuitesAre DEF Work!ExplicitCase, Records,
     Work!Running, Work!In, Work!Case, Work!Over, Work!Result, Work!Close, Work!End, Work!files, Work!external
<1>7. Work!RuleCase => outcome = "running" /\ Records
  BY SuitesAre DEF Work!RuleCase, Records,
     Work!Running, Work!In, Work!Case, Work!Over, Work!Result, Work!Close, Work!End, Work!files, Work!external
<1>8. Work!RuleOnGenerated => outcome = "running" /\ Records
  BY SuitesAre DEF Work!RuleOnGenerated, Records,
     Work!Running, Work!In, Work!Case, Work!Over, Work!Result, Work!Close, Work!End, Work!files, Work!external
<1>9. Work!ParserCase => outcome = "running" /\ Records
  BY SuitesAre DEF Work!ParserCase, Records,
     Work!Running, Work!In, Work!Case, Work!Over, Work!Result, Work!Close, Work!End, Work!files, Work!external
<1>10. Work!SamplingCase => outcome = "running" /\ Records
  BY SuitesAre DEF Work!SamplingCase, Records,
     Work!Running, Work!In, Work!Case, Work!Over, Work!Result, Work!Close, Work!End, Work!files, Work!external
<1>11. Work!RetrievalCase => outcome = "running" /\ Records
  BY SuitesAre DEF Work!RetrievalCase, Records,
     Work!Running, Work!In, Work!Case, Work!Over, Work!Result, Work!Close, Work!End, Work!files, Work!external
<1>12. Work!ExpandedSummary => outcome = "running" /\ (Closes \/ Stays)
  BY SuitesAre, Zenon DEF Work!ExpandedSummary, Closes, Stays, RagInv,
     Work!Running, Work!In, Work!Case, Work!Over, Work!Result, Work!Close, Work!End, Work!files, Work!external
<1>13. Work!Discovery => outcome = "running" /\ (Closes \/ Stays)
  BY SuitesAre, Zenon DEF Work!Discovery, Closes, Stays, RagInv,
     Work!Running, Work!In, Work!Case, Work!Over, Work!Result, Work!Close, Work!End, Work!files, Work!external
<1>14. Work!KvCacheAnalysis => outcome = "running" /\ (Closes \/ Stays)
  BY SuitesAre, Zenon DEF Work!KvCacheAnalysis, Closes, Stays, RagInv,
     Work!Running, Work!In, Work!Case, Work!Over, Work!Result, Work!Close, Work!End, Work!files, Work!external
<1>15. Work!RagAnalysis => outcome = "running" /\ (Closes \/ Stays)
  BY SuitesAre, Zenon DEF Work!RagAnalysis, Closes, Stays, RagInv,
     Work!Running, Work!In, Work!Case, Work!Over, Work!Result, Work!Close, Work!End, Work!files, Work!external
<1>16. Work!DynamicRevisionReport => outcome = "running" /\ (Closes \/ Stays)
  BY SuitesAre, Zenon DEF Work!DynamicRevisionReport, Closes, Stays, RagInv,
     Work!Running, Work!In, Work!Case, Work!Over, Work!Result, Work!Close, Work!End, Work!files, Work!external
<1>17. Work!WordlistRestore => outcome = "running" /\ (Closes \/ Stays)
  BY SuitesAre, Zenon DEF Work!WordlistRestore, Closes, Stays, RagInv,
     Work!Running, Work!In, Work!Case, Work!Over, Work!Result, Work!Close, Work!End, Work!files, Work!external
<1>18. Work!AdaptiveSentimentStart => outcome = "running" /\ (Closes \/ Stays)
  BY SuitesAre DEF Work!AdaptiveSentimentStart, Closes, Stays, RagInv,
     Work!Running, Work!In, Work!Case, Work!Over, Work!Result, Work!Close, Work!End, Work!files, Work!external
<1>19. Work!AdaptiveSentimentReport => outcome = "running" /\ (Closes \/ Stays)
  BY SuitesAre, Zenon DEF Work!AdaptiveSentimentReport, Closes, Stays, RagInv,
     Work!Running, Work!In, Work!Case, Work!Over, Work!Result, Work!Close, Work!End, Work!files, Work!external
<1>20. Work!ExperimentalReport => outcome = "running" /\ (Closes \/ Stays)
  BY SuitesAre, Zenon DEF Work!ExperimentalReport, Closes, Stays, RagInv,
     Work!Running, Work!In, Work!Case, Work!Over, Work!Result, Work!Close, Work!End, Work!files, Work!external
<1>21. Work!RuleCasesOver => outcome = "running" /\ (Closes \/ Stays)
  BY SuitesAre, Zenon DEF Work!RuleCasesOver, Closes, Stays, RagInv,
     Work!Running, Work!In, Work!Case, Work!Over, Work!Result, Work!Close, Work!End, Work!files, Work!external
<1>22. Work!RuleAnalysis => outcome = "running" /\ (Closes \/ Stays)
  BY SuitesAre, Zenon DEF Work!RuleAnalysis, Closes, Stays, RagInv,
     Work!Running, Work!In, Work!Case, Work!Over, Work!Result, Work!Close, Work!End, Work!files, Work!external
<1>23. Work!AdvancedAnalysisSkipped => outcome = "running" /\ (Closes \/ Stays)
  BY SuitesAre, Zenon DEF Work!AdvancedAnalysisSkipped, Closes, Stays, RagInv,
     Work!Running, Work!In, Work!Case, Work!Over, Work!Result, Work!Close, Work!End, Work!files, Work!external
<1>24. Work!TissDBLiteTests => outcome = "running" /\ (Closes \/ Stays)
  BY SuitesAre, Zenon DEF Work!TissDBLiteTests, Closes, Stays, RagInv,
     Work!Running, Work!In, Work!Case, Work!Over, Work!Result, Work!Close, Work!End, Work!files, Work!external
<1>25. Work!CasesOver => outcome = "running" /\ (Closes \/ Stays)
  BY SuitesAre, Zenon DEF Work!CasesOver, Closes, Stays, RagInv,
     Work!Running, Work!In, Work!Case, Work!Over, Work!Result, Work!Close, Work!End, Work!files, Work!external
<1>26. Work!RagSetup => outcome = "running" /\ Retrieves
  BY SuitesAre DEF Work!RagSetup, Retrieves, RagInv, WorkTypes,
     Work!Running, Work!In, Work!Case, Work!Over, Work!Result, Work!Close, Work!End, Work!files, Work!external
<1>27. Work!RagStep => outcome = "running" /\ Retrieves
  BY SuitesAre DEF Work!RagStep, Retrieves, RagInv, WorkTypes,
     Work!Running, Work!In, Work!Case, Work!Over, Work!Result, Work!Close, Work!End, Work!files, Work!external
<1>28. Work!RagStepRaises => outcome = "running" /\ Retrieves
  BY SuitesAre DEF Work!RagStepRaises, Retrieves, RagInv, WorkTypes,
     Work!Running, Work!In, Work!Case, Work!Over, Work!Result, Work!Close, Work!End, Work!files, Work!external
<1>29. Work!RagCleanup => outcome = "running" /\ Retrieves
  BY SuitesAre DEF Work!RagCleanup, Retrieves, RagInv, WorkTypes,
     Work!Running, Work!In, Work!Case, Work!Over, Work!Result, Work!Close, Work!End, Work!files, Work!external
<1>30. Work!ServerStops => outcome = "running" /\ Stays
  BY SuitesAre DEF Work!ServerStops, Stays,
     Work!Running, Work!In, Work!Case, Work!Over, Work!Result, Work!Close, Work!End, Work!files, Work!external
<1>31. Work!ServerStarts => outcome = "running" /\ Stays
  BY SuitesAre DEF Work!ServerStarts, Stays,
     Work!Running, Work!In, Work!Case, Work!Over, Work!Result, Work!Close, Work!End, Work!files, Work!external
<1>32. Work!StandardCase => outcome = "running" /\ Stays
  BY SuitesAre DEF Work!StandardCase, Stays,
     Work!Running, Work!In, Work!Case, Work!Over, Work!Result, Work!Close, Work!End, Work!files, Work!external
<1>33. Work!Finish => outcome = "running" /\ Stays
  BY SuitesAre DEF Work!Finish, Stays,
     Work!Running, Work!In, Work!Case, Work!Over, Work!Result, Work!Close, Work!End, Work!files, Work!external
<1>34. Work!Kill => outcome = "running" /\ Stays
  BY SuitesAre DEF Work!Kill, Stays,
     Work!Running, Work!In, Work!Case, Work!Over, Work!Result, Work!Close, Work!End, Work!files, Work!external
<1>35. Work!Load => outcome = "running" /\ (Moves \/ Stays)
  BY SuitesAre DEF Work!Load, Moves, Stays, RagInv,
     Work!Running, Work!In, Work!Case, Work!Over, Work!Result, Work!Close, Work!End, Work!files, Work!external
<1>36. Work!Pass => outcome = "running" /\ Moves
  BY SuitesAre DEF WorkTypes, Work!Pass, Moves, RagInv,
     Work!Running, Work!In, Work!Case, Work!Over, Work!Result, Work!Close, Work!End, Work!files, Work!external
<1>37. Work!WordlistBackup => outcome = "running" /\ Backs
  BY SuitesAre DEF Work!WordlistBackup, Backs,
     Work!Running, Work!In, Work!Case, Work!Over, Work!Result, Work!Close, Work!End, Work!files, Work!external
<1>38. Work!SaveResults => outcome = "running" /\ Saves
  BY SuitesAre DEF Work!SaveResults, Saves,
     Work!Running, Work!In, Work!Case, Work!Over, Work!Result, Work!Close, Work!End, Work!files, Work!external
<1> QED  BY <1>1, <1>2, <1>3, <1>4, <1>5, <1>6, <1>7, <1>8, <1>9, <1>10, <1>11, <1>12, <1>13, <1>14, <1>15, <1>16, <1>17, <1>18, <1>19, <1>20, <1>21, <1>22, <1>23, <1>24, <1>25, <1>26, <1>27, <1>28, <1>29, <1>30, <1>31, <1>32, <1>33, <1>34, <1>35, <1>36, <1>37, <1>38 DEF Work!Next

LEMMA WorkInit == Work!Init => WorkInv
<1> SUFFICES ASSUME Work!Init PROVE WorkInv  OBVIOUS
<1>1. <<>> \in Seq({})  OBVIOUS
<1>2. WorkTypes  BY <1>1 DEF Work!Init, WorkTypes, IsSequence
<1>3. WordsInv  BY DEF Work!Init, WordsInv, Work!Ended, Work!WordlistRestored
<1>4. RagInv  BY DEF Work!Init, RagInv, Work!NoDatabaseLeft
<1>5. SavedInv  BY DEF Work!Init, SavedInv
<1> QED  BY <1>2, <1>3, <1>4, <1>5 DEF WorkInv

(* Which suites have ended, after an entry is added to the log. *)
LEMMA EndedGrows ==
    ASSUME IsSequence(log), NEW e, log' = Append(log, e)
    PROVE  \A suite : Work!Ended(suite)' <=> Work!Ended(suite) \/ e.suite = suite
<1>1. /\ DOMAIN log = 1..Len(log) /\ Len(log) \in Nat /\ DOMAIN log' = 1..(Len(log) + 1)
      /\ log'[Len(log) + 1] = e /\ \A i \in 1..Len(log) : log'[i] = log[i]
  BY SequenceGrows
<1> QED  BY <1>1 DEF Work!Ended

LEMMA WorkNext == WorkInv /\ [Work!Next]_(Work!vars) => WorkInv'
<1> SUFFICES ASSUME WorkInv, Work!Next \/ UNCHANGED Work!vars PROVE WorkInv'  OBVIOUS
<1> USE DEF WorkInv
<1>1. CASE UNCHANGED Work!vars
  <2>1. Stays /\ outcome' = outcome  BY <1>1 DEF Stays, Work!vars, Work!files, Work!external
  <2>2. \A suite : Work!Ended(suite)' <=> Work!Ended(suite)  BY <2>1 DEF Stays, Work!Ended
  <2> QED
    BY <2>1, <2>2 DEF Stays, WorkTypes, WordsInv, RagInv, SavedInv, Work!WordlistRestored, Work!NoDatabaseLeft
<1>2. CASE Work!Next
  <2>1. /\ outcome = "running"
        /\ Stays \/ Moves \/ Records \/ Closes \/ Backs \/ Retrieves \/ Saves
    BY <1>2, WorkSteps
  <2>2. log' = log => \A suite : Work!Ended(suite)' <=> Work!Ended(suite)  BY DEF Work!Ended
  <2>3. CASE Stays
    <3>1. WorkTypes'  BY <2>3, SequenceGrows DEF Stays, WorkTypes
    <3>2. WordsInv'  BY <2>2, <2>3 DEF Stays, WorkTypes, WordsInv, Work!WordlistRestored
    <3>3. RagInv'  BY <2>1, <2>3 DEF Stays, WorkTypes, RagInv, Work!NoDatabaseLeft
    <3>4. SavedInv'  BY <2>2, <2>3 DEF Stays, WorkTypes, SavedInv
    <3> QED  BY <3>1, <3>2, <3>3, <3>4
  <2>4. CASE Moves
    <3>1. WorkTypes'  BY <2>4, SequenceGrows DEF Moves, WorkTypes
    <3>2. WordsInv'  BY <2>2, <2>4 DEF Moves, WorkTypes, WordsInv, Work!WordlistRestored
    <3>3. RagInv'  BY <2>1, <2>4 DEF Moves, WorkTypes, RagInv, Work!NoDatabaseLeft
    <3>4. SavedInv'  BY <2>2, <2>4 DEF Moves, WorkTypes, SavedInv
    <3> QED  BY <3>1, <3>2, <3>3, <3>4
  <2>5. CASE Records
    <3>1. WorkTypes'  BY <2>5, SequenceGrows DEF Records, WorkTypes
    <3>2. WordsInv'  BY <2>2, <2>5 DEF Records, WorkTypes, WordsInv, Work!WordlistRestored
    <3>3. RagInv'  BY <2>1, <2>5 DEF Records, WorkTypes, RagInv, Work!NoDatabaseLeft
    <3>4. SavedInv'  BY <2>2, <2>5 DEF Records, WorkTypes, SavedInv
    <3> QED  BY <3>1, <3>2, <3>3, <3>4
  <2>6. CASE Backs
    <3>1. WorkTypes'  BY <2>6, SequenceGrows DEF Backs, WorkTypes
    <3>2. WordsInv'  BY <2>2, <2>6 DEF Backs, WorkTypes, WordsInv, Work!WordlistRestored
    <3>3. RagInv'  BY <2>1, <2>6 DEF Backs, WorkTypes, RagInv, Work!NoDatabaseLeft
    <3>4. SavedInv'  BY <2>2, <2>6 DEF Backs, WorkTypes, SavedInv
    <3> QED  BY <3>1, <3>2, <3>3, <3>4
  <2>7. CASE Retrieves
    <3>1. WorkTypes'
      <4>1. IsSequence(results')
        <5>1. results' = results \/ \E r : results' = Append(results, r)  BY <2>7 DEF Retrieves
        <5>2. \A r : IsSequence(Append(results, r))  BY SequenceGrows DEF WorkTypes
        <5> QED  BY <5>1, <5>2, Zenon DEF WorkTypes
      <4> QED  BY <2>7, <4>1 DEF Retrieves, WorkTypes
    <3>2. WordsInv'  BY <2>2, <2>7 DEF Retrieves, WorkTypes, WordsInv, Work!WordlistRestored
    <3>3. RagInv'  BY <2>1, <2>7 DEF Retrieves, WorkTypes, RagInv, Work!NoDatabaseLeft
    <3>4. SavedInv'  BY <2>2, <2>7 DEF Retrieves, WorkTypes, SavedInv
    <3> QED  BY <3>1, <3>2, <3>3, <3>4
  <2>8. CASE Saves
    <3>1. WorkTypes'  BY <2>8, SequenceGrows DEF Saves, WorkTypes
    <3>2. WordsInv'  BY <2>2, <2>8 DEF Saves, WorkTypes, WordsInv, Work!WordlistRestored
    <3>3. RagInv'  BY <2>1, <2>8 DEF Saves, WorkTypes, RagInv, Work!NoDatabaseLeft
    <3>4. SavedInv'  BY <2>2, <2>8 DEF Saves, WorkTypes, SavedInv
    <3> QED  BY <3>1, <3>2, <3>3, <3>4
  <2>9. CASE Closes
    <3>1. PICK e : e.suite = Work!Suites[stage] /\ log' = Append(log, e)  BY <2>9 DEF Closes
    <3>2. \A suite : Work!Ended(suite)' <=> Work!Ended(suite) \/ e.suite = suite
      BY <3>1, EndedGrows DEF WorkTypes
    <3>3. WorkTypes'
      <4>1. IsSequence(log')  BY <3>1, SequenceGrows DEF WorkTypes
      <4>2. IsSequence(results')  BY <2>9 DEF Closes, IsSequence
      <4> QED  BY <2>9, <4>1, <4>2 DEF Closes, WorkTypes
    <3>4. WordsInv'
      BY <2>9, <3>1, <3>2, SuitesAre DEF Closes, WorkTypes, WordsInv, Work!WordlistRestored
    <3>5. RagInv'  BY <2>1, <2>9 DEF Closes, WorkTypes, RagInv, Work!NoDatabaseLeft
    <3>6. SavedInv'
      <4>1. CASE stage = 1
        <5>1. evaluation' = <<>> \o results
          <6>1. evaluation = <<>>  BY <4>1 DEF SavedInv
          <6>2. evaluation' = evaluation \o results  BY <2>9, <4>1 DEF Closes
          <6> QED  BY <6>1, <6>2
        <5>2. PICK S : results \in Seq(S)  BY DEF WorkTypes, IsSequence
        <5>3. Len(evaluation') = Len(results)  BY <5>1, <5>2
        <5> QED  BY <2>9, <3>1, <3>2, <4>1, <5>3, SuitesAre DEF Closes, SavedInv
      <4>2. CASE stage # 1
        BY <2>9, <3>2, <4>2 DEF Closes, WorkTypes, SavedInv
      <4> QED  BY <4>1, <4>2
    <3> QED  BY <3>3, <3>4, <3>5, <3>6
  <2> QED  BY <2>1, <2>3, <2>4, <2>5, <2>6, <2>7, <2>8, <2>9
<1> QED  BY <1>1, <1>2

LEMMA WorkoutHolds ==
    Work!Init /\ [][Work!Next]_(Work!vars)
      => [](Work!WordlistRestored /\ Work!NoDatabaseLeft /\ Work!SavedIsWhole)
<1>1. WorkInv => Work!WordlistRestored /\ Work!NoDatabaseLeft /\ Work!SavedIsWhole
  BY DEF WorkInv, WordsInv, RagInv, SavedInv, Work!SavedIsWhole
<1> QED  BY WorkInit, WorkNext, <1>1, PTL

-----------------------------------------------------------------------------
(*****************************************************************************)
(* Nexus Flow, for any graphs and retries.  A request for something inside   *)
(* the database or the collection is made only when that is there; nothing   *)
(* is ever taken out of the store.                                           *)
(*****************************************************************************)
(* The context is made of graphs before a place, in their order. *)
ReadBefore(n) ==
    \E place \in [DOMAIN context -> DOMAIN Graphs] : \A i \in DOMAIN context :
       /\ context[i] = Graphs[place[i]] /\ place[i] < n
       /\ \A j \in DOMAIN context : i < j => place[i] < place[j]

(* Before the first graph is asked for, and after the last. *)
Filling == {"start", "health", "databases", "create db", "collections", "create collection", "put",
            "poll"}
Asking == {"ask", "write answer", "fill answer", "write error", "fill error", "ready", "stopped",
           "aborted"}

StoreInv ==
    /\ Nexus!StoreIsBuiltInOrder
    /\ pc[1] \in {"collections", "create collection"} => "db" \in store
    /\ pc[1] = "put" => "collection" \in store

ReadInv ==
    /\ IsSequence(context)
    /\ pc[1] \in Filling => context = <<>>
    /\ pc[1] \in Filling \cup Asking => ReadBefore(Len(Graphs) + 1)
    /\ \A n \in Nat : pc[1] = "get" /\ pc[2] = n => ReadBefore(n)

NexusInv ==
    /\ pc[1] \in Filling \cup Asking \cup {"get"} /\ pc[2] \in Nat
    /\ StoreInv
    /\ ReadInv
    /\ Nexus!Range(context) \subseteq store /\ Nexus!Range(prompt) \subseteq store

LEMMA NothingRead == context = <<>> => \A n : ReadBefore(n)
<1> SUFFICES ASSUME context = <<>>, NEW n PROVE ReadBefore(n)  OBVIOUS
<1> DEFINE place == [i \in DOMAIN context |-> CHOOSE g \in DOMAIN Graphs : TRUE]
<1>1. DOMAIN context = {}  OBVIOUS
<1>2. place \in [DOMAIN context -> DOMAIN Graphs]  BY <1>1
<1> QED  BY <1>1, <1>2, Zenon DEF ReadBefore

LEMMA NexusInit == Nexus!Init => NexusInv
<1> SUFFICES ASSUME Nexus!Init PROVE NexusInv  OBVIOUS
<1>1. <<>> \in Seq({}) /\ context = <<>> /\ prompt = <<>> /\ store = {} /\ pc = <<"start", 0>>
  BY DEF Nexus!Init, Nexus!At
<1>2. Nexus!Range(context) \subseteq store /\ Nexus!Range(prompt) \subseteq store
  BY <1>1 DEF Nexus!Range
<1>3. StoreInv  BY <1>1 DEF StoreInv, Nexus!StoreIsBuiltInOrder
<1>4. ReadInv  BY <1>1, NothingRead DEF ReadInv, IsSequence
<1>5. pc[1] \in Filling /\ pc[2] = 0  BY <1>1 DEF Filling
<1> QED  BY <1>2, <1>3, <1>4, <1>5 DEF NexusInv

(* What a request may do to the store and to the place of the script. *)
LEMMA StoreSteps ==
    ASSUME StoreInv,
           \/ Nexus!SetupDatabase \/ Nexus!SetupCollection \/ Nexus!PopulateGraphs
    PROVE  /\ UNCHANGED <<context, prompt>> /\ pc[1] \in Filling /\ pc'[1] \in Filling
           /\ pc'[2] \in Nat
           /\ pc'[1] \in {"collections", "create collection"} => "db" \in store'
           /\ pc'[1] = "put" => "collection" \in store'
           /\ \/ store' \in {store, store \cup {"db"}}
              \/ store' = store \cup {"collection"} /\ "db" \in store
              \/ /\ \E i \in DOMAIN Graphs : store' = store \cup {Graphs[i]}
                 /\ "collection" \in store
<1>1. CASE Nexus!SetupDatabase
  <2>1. CASE Nexus!Answered(<<"databases", 0>>,
               IF "db" \in store THEN <<"collections", 0>> ELSE <<"create db", 0>>, {})
    BY <2>1, Zenon DEF Nexus!Answered, Filling
  <2>2. CASE Nexus!Raised(<<"databases", 0>>, <<"poll", 0>>, TRUE, {})
    <3>1. pc[1] = "databases" /\ pc'[1] = "poll" /\ pc'[2] = 0  BY <2>2 DEF Nexus!Raised
    <3>2. UNCHANGED <<context, prompt>> /\ store' = store  BY <2>2 DEF Nexus!Raised
    <3> QED  BY <3>1, <3>2 DEF Filling
  <2>3. CASE Nexus!Answered(<<"create db", 0>>, <<"collections", 0>>, {"db"})
    BY <2>3, Zenon DEF Nexus!Answered, Filling
  <2>4. CASE Nexus!Raised(<<"create db", 0>>, <<"poll", 0>>, FALSE, {"db"})
    <3>1. pc[1] = "create db" /\ pc'[1] = "poll"  BY <2>4, Zenon DEF Nexus!Raised
    <3>5. pc'[2] \in Nat  BY <2>4, Zenon DEF Nexus!Raised
    <3>2. UNCHANGED <<context, prompt>> /\ store' \in {store, store \cup {"db"}}
      BY <2>4, Zenon DEF Nexus!Raised
    <3>3. /\ pc[1] \in Filling /\ pc'[1] \in Filling
          /\ pc'[1] \notin {"collections", "create collection", "put"}
      BY <3>1, Zenon DEF Filling
    <3> QED  BY <3>2, <3>3, <3>5, Zenon
  <2> QED  BY <1>1, <2>1, <2>2, <2>3, <2>4, Zenon DEF Nexus!SetupDatabase, Nexus!At
<1>2. CASE Nexus!SetupCollection
  <2>1. CASE Nexus!Answered(<<"collections", 0>>,
               IF "collection" \in store THEN <<"put", 1>> ELSE <<"create collection", 0>>, {})
    BY <2>1, Zenon DEF Nexus!Answered, Filling, StoreInv
  <2>2. CASE Nexus!Raised(<<"collections", 0>>, <<"poll", 0>>, TRUE, {})
    <3>1. pc[1] = "collections" /\ pc'[1] = "poll" /\ pc'[2] = 0  BY <2>2 DEF Nexus!Raised
    <3>2. UNCHANGED <<context, prompt>> /\ store' = store  BY <2>2 DEF Nexus!Raised
    <3> QED  BY <3>1, <3>2 DEF Filling
  <2>3. CASE Nexus!Answered(<<"create collection", 0>>, <<"put", 1>>, {"collection"})
    BY <2>3, Zenon DEF Nexus!Answered, Filling, StoreInv
  <2>4. CASE Nexus!Raised(<<"create collection", 0>>, <<"poll", 0>>, FALSE, {"collection"})
    <3>1. pc[1] = "create collection" /\ pc'[1] = "poll"  BY <2>4, Zenon DEF Nexus!Raised
    <3>5. pc'[2] \in Nat  BY <2>4, Zenon DEF Nexus!Raised
    <3>2. UNCHANGED <<context, prompt>> /\ store' \in {store, store \cup {"collection"}}
      BY <2>4, Zenon DEF Nexus!Raised
    <3>3. "db" \in store  BY <3>1, Zenon DEF StoreInv
    <3>4. /\ pc[1] \in Filling /\ pc'[1] \in Filling
          /\ pc'[1] \notin {"collections", "create collection", "put"}
      BY <3>1, Zenon DEF Filling
    <3> QED  BY <3>2, <3>3, <3>4, <3>5, Zenon
  <2> QED  BY <1>2, <2>1, <2>2, <2>3, <2>4, Zenon DEF Nexus!SetupCollection, Nexus!At
<1>3. CASE Nexus!PopulateGraphs
  <2>1. PICK i \in DOMAIN Graphs :
          LET after == IF i = Len(Graphs) THEN Nexus!At("poll") ELSE <<"put", i + 1>> IN
          \/ Nexus!Answered(<<"put", i>>, after, {Graphs[i]})
          \/ Nexus!Raised(<<"put", i>>, after, TRUE, {Graphs[i]})
    BY <1>3, Zenon DEF Nexus!PopulateGraphs
  <2>2. i \in Nat  BY GraphsAssumption
  <2>3. pc = <<"put", i>> /\ pc' \in {<<"poll", 0>>, <<"put", i + 1>>}
    BY <2>1 DEF Nexus!Answered, Nexus!Raised, Nexus!At
  <2>4. UNCHANGED <<context, prompt>> /\ store' \in {store, store \cup {Graphs[i]}}
    BY <2>1 DEF Nexus!Answered, Nexus!Raised
  <2>5. pc[1] = "put" /\ pc'[1] \in {"poll", "put"} /\ pc'[2] \in Nat
    BY <2>2, <2>3
  <2>6. "collection" \in store /\ "collection" \in store'
    BY <2>4, <2>5 DEF StoreInv
  <2> QED  BY <2>4, <2>5, <2>6, Zenon DEF Filling
<1> QED  BY <1>1, <1>2, <1>3, Zenon

(* A step of the script that neither fills the store nor reads a graph. *)
LEMMA ScriptMoves ==
    ASSUME NexusInv, UNCHANGED <<store, context>>, prompt' \in {prompt, context},
           \/ pc' = pc
           \/ /\ pc[1] \in Filling /\ pc'[2] \in Nat
              /\ pc'[1] \in {"health", "databases", "poll", "get", "aborted"}
           \/ pc[1] \in Asking /\ pc'[1] \in Asking /\ pc'[2] \in Nat
    PROVE  NexusInv'
<1>1. /\ pc[1] \in Filling \cup Asking \cup {"get"} /\ pc[2] \in Nat /\ StoreInv /\ ReadInv
      /\ Nexus!Range(context) \subseteq store /\ Nexus!Range(prompt) \subseteq store
  BY DEF NexusInv
<1>2. pc'[1] \in Filling \cup Asking \cup {"get"} /\ pc'[2] \in Nat  BY <1>1, Zenon DEF Filling, Asking
<1>3. StoreInv'
  <2>1. Nexus!StoreIsBuiltInOrder'  BY <1>1, Zenon DEF StoreInv, Nexus!StoreIsBuiltInOrder
  <2>2. pc'[1] \in {"collections", "create collection"} => pc'[1] = pc[1]
    BY Zenon DEF Asking
  <2>3. pc'[1] = "put" => pc'[1] = pc[1]
    BY DEF Asking
  <2> QED  BY <1>1, <2>1, <2>2, <2>3, Zenon DEF StoreInv
<1>4. \A n : ReadBefore(n)' <=> ReadBefore(n)  BY DEF ReadBefore
<1>5. ReadInv'
  <2>1. IsSequence(context)'  BY <1>1 DEF ReadInv
  <2>2. CASE pc' = pc
    BY <1>1, <1>4, <2>1, <2>2 DEF ReadInv
  <2>3. CASE pc[1] \in Filling
    <3>1. context = <<>>  BY <1>1, <2>3 DEF ReadInv
    <3> QED  BY <1>4, <2>1, <3>1, NothingRead DEF ReadInv
  <2>4. CASE pc[1] \in Asking /\ pc'[1] \in Asking
    <3>1. pc'[1] \notin Filling /\ pc'[1] # "get"  BY <2>4, Zenon DEF Filling, Asking
    <3> QED  BY <1>1, <1>4, <2>1, <2>4, <3>1 DEF ReadInv
  <2> QED  BY <2>2, <2>3, <2>4
<1>6. Nexus!Range(context)' \subseteq store' /\ Nexus!Range(prompt)' \subseteq store'
  BY <1>1 DEF Nexus!Range
<1> QED  BY <1>2, <1>3, <1>5, <1>6 DEF NexusInv

LEMMA StoreFills ==
    ASSUME NexusInv, Nexus!SetupDatabase \/ Nexus!SetupCollection \/ Nexus!PopulateGraphs
    PROVE  NexusInv'
<1>1. StoreInv /\ ReadInv /\ Nexus!Range(prompt) \subseteq store  BY DEF NexusInv
<1>2. PICK s, g : /\ store' = store \cup s
                  /\ \/ s \in {{}, {"db"}}
                     \/ s = {"collection"} /\ "db" \in store
                     \/ s = {g} /\ g \in Nexus!Range(Graphs) /\ "collection" \in store
  BY <1>1, StoreSteps, Zenon DEF Nexus!Range
<1>3. "db" \notin Nexus!Range(Graphs) /\ "collection" \notin Nexus!Range(Graphs)
  BY GraphsAssumption DEF Nexus!Range
<1>4. Nexus!StoreIsBuiltInOrder'
  <2>1. /\ "collection" \in store => "db" \in store
        /\ Nexus!Range(Graphs) \cap store # {} => "collection" \in store
    BY <1>1, Zenon DEF StoreInv, Nexus!StoreIsBuiltInOrder
  <2> QED  BY <1>2, <1>3, <2>1 DEF Nexus!StoreIsBuiltInOrder
<1>5. /\ UNCHANGED <<context, prompt>> /\ pc[1] \in Filling /\ pc'[1] \in Filling /\ pc'[2] \in Nat
      /\ pc'[1] \in {"collections", "create collection"} => "db" \in store'
      /\ pc'[1] = "put" => "collection" \in store'
  BY <1>1, StoreSteps, Zenon
<1>6. context = <<>> /\ context' = <<>>  BY <1>1, <1>5, Zenon DEF ReadInv
<1>7. Nexus!Range(context)' \subseteq store' /\ Nexus!Range(prompt)' \subseteq store'
  <2>1. store \subseteq store'  BY <1>2
  <2>2. Nexus!Range(context') = {}  BY <1>6 DEF Nexus!Range
  <2>3. Nexus!Range(prompt') = Nexus!Range(prompt)  BY <1>5, Zenon
  <2> QED  BY <1>1, <2>1, <2>2, <2>3
<1>8. ReadInv'
  <2>1. \A n : ReadBefore(n)' <=> ReadBefore(n)  BY <1>5, Zenon DEF ReadBefore
  <2> QED  BY <1>1, <1>5, <1>6, <2>1, NothingRead, Zenon DEF ReadInv
<1> QED  BY <1>4, <1>5, <1>7, <1>8, Zenon DEF NexusInv, StoreInv

LEMMA GraphRead == ASSUME NexusInv, Nexus!GetGraph PROVE NexusInv'
<1>1. PICK i \in DOMAIN Graphs :
        /\ pc = <<"get", i>>
        /\ \/ Graphs[i] \in store /\ context' = Append(context, Graphs[i])
           \/ context' = context
        /\ pc' = IF i = Len(Graphs) THEN <<"ask", 0>> ELSE <<"get", i + 1>>
        /\ UNCHANGED <<store, prompt>>
  BY Zenon DEF Nexus!GetGraph, Nexus!At
<1>2. i \in Nat /\ Len(Graphs) \in Nat /\ i <= Len(Graphs)  BY GraphsAssumption
<1>3. /\ IsSequence(context) /\ ReadBefore(i) /\ StoreInv
      /\ Nexus!Range(context) \subseteq store /\ Nexus!Range(prompt) \subseteq store
  BY <1>1, <1>2 DEF NexusInv, ReadInv
<1>4. PICK place \in [DOMAIN context -> DOMAIN Graphs] : \A k \in DOMAIN context :
        /\ context[k] = Graphs[place[k]] /\ place[k] < i
        /\ \A j \in DOMAIN context : k < j => place[k] < place[j]
  BY <1>3 DEF ReadBefore
<1>5. \A k \in DOMAIN context : place[k] \in Nat  BY <1>4, GraphsAssumption
<1>6. ReadBefore(i + 1)' /\ IsSequence(context)' /\ Nexus!Range(context)' \subseteq store'
  <2>1. CASE context' = context
    <3>1. \A k \in DOMAIN context : place[k] < i + 1  BY <1>2, <1>4, <1>5
    <3>2. ReadBefore(i + 1)'  BY <1>4, <2>1, <3>1 DEF ReadBefore
    <3> QED  BY <1>1, <1>3, <2>1, <3>2 DEF Nexus!Range
  <2>2. CASE Graphs[i] \in store /\ context' = Append(context, Graphs[i])
    <3> DEFINE n == Len(context) + 1
               wider == [k \in 1..n |-> IF k = n THEN i ELSE place[k]]
    <3>1. /\ IsSequence(Append(context, Graphs[i]))
          /\ DOMAIN context = 1..Len(context) /\ Len(context) \in Nat
          /\ DOMAIN Append(context, Graphs[i]) = 1..n /\ Append(context, Graphs[i])[n] = Graphs[i]
          /\ \A k \in 1..Len(context) : Append(context, Graphs[i])[k] = context[k]
      BY <1>3, SequenceGrows
    <3>2. wider \in [1..n -> DOMAIN Graphs]  BY <1>4, <3>1
    <3>3. \A k \in 1..n : context'[k] = Graphs[wider[k]]  BY <1>4, <2>2, <3>1
    <3>4. \A k \in 1..n : wider[k] < i + 1  BY <1>2, <1>4, <1>5, <3>1
    <3>5. \A j, k \in 1..n : k < j => wider[k] < wider[j]
      <4> SUFFICES ASSUME NEW j \in 1..n, NEW k \in 1..n, k < j PROVE wider[k] < wider[j]  OBVIOUS
      <4>1. k \in DOMAIN context /\ wider[k] = place[k]  BY <3>1
      <4>2. CASE j = n  BY <1>4, <4>1, <4>2
      <4>3. CASE j # n
        <5>1. j \in DOMAIN context /\ wider[j] = place[j]  BY <3>1, <4>3
        <5> QED  BY <1>4, <4>1, <5>1
      <4> QED  BY <4>2, <4>3
    <3> HIDE DEF wider
    <3>6. ReadBefore(i + 1)'
      <4> HIDE DEF n
      <4>1. DOMAIN context' = 1..n
        <5>1. DOMAIN Append(context, Graphs[i]) = 1..n  BY <3>1, Zenon
        <5>2. context' = Append(context, Graphs[i])  BY <2>2, Zenon
        <5> QED  BY <5>1, <5>2, Zenon
      <4> QED  BY <3>2, <3>3, <3>4, <3>5, <4>1, Zenon DEF ReadBefore
    <3>7. Nexus!Range(context)' \subseteq store'
      <4>1. \A k \in 1..n : context'[k] \in store
        <5> SUFFICES ASSUME NEW k \in 1..n PROVE context'[k] \in store  OBVIOUS
        <5>1. CASE k = n  BY <2>2, <3>1, <5>1
        <5>2. CASE k # n
          <6>1. k \in DOMAIN context /\ context'[k] = context[k]  BY <2>2, <3>1, <5>2
          <6> QED  BY <1>3, <6>1 DEF Nexus!Range
        <5> QED  BY <5>1, <5>2
      <4> QED  BY <1>1, <2>2, <3>1, <4>1, Zenon DEF Nexus!Range
    <3> QED  BY <2>2, <3>1, <3>6, <3>7
  <2> QED  BY <1>1, <2>1, <2>2
<1>7. StoreInv'
  <2>1. Nexus!StoreIsBuiltInOrder'  BY <1>1, <1>3 DEF StoreInv, Nexus!StoreIsBuiltInOrder
  <2>2. pc'[1] \in {"ask", "get"}  BY <1>1
  <2> QED  BY <2>1, <2>2, Zenon DEF StoreInv
<1>8. Nexus!Range(prompt)' \subseteq store'  BY <1>1, <1>3 DEF Nexus!Range
<1>9. /\ pc'[1] \in {"ask", "get"} /\ pc'[2] \in Nat
      /\ pc'[1] = "get" => pc'[2] = i + 1
      /\ pc'[1] = "ask" => i = Len(Graphs)
  <2>1. CASE i = Len(Graphs)  BY <1>1, <2>1
  <2>2. CASE i # Len(Graphs)  BY <1>1, <1>2, <2>2
  <2> QED  BY <2>1, <2>2
<1>10. ReadInv'
  BY <1>6, <1>9, Zenon DEF ReadInv, Filling, Asking
<1> QED  BY <1>6, <1>7, <1>8, <1>9, <1>10, Zenon DEF NexusInv, Asking

LEMMA NexusNext == NexusInv /\ [Nexus!Next]_(Nexus!vars) => NexusInv'
<1> SUFFICES ASSUME NexusInv, Nexus!Next \/ UNCHANGED Nexus!vars PROVE NexusInv'  OBVIOUS
<1>1. CASE Nexus!SetupDatabase \/ Nexus!SetupCollection \/ Nexus!PopulateGraphs
  BY <1>1, StoreFills
<1>2. CASE Nexus!GetGraph  BY <1>2, GraphRead
<1>3. CASE Nexus!Ask
  <2>1. pc[1] = "ask" /\ pc'[1] \in {"write answer", "write error"} /\ pc'[2] \in Nat
    <3>1. pc = <<"ask", 0>> /\ (pc' = <<"write answer", 0>> \/ pc' = <<"write error", 0>>)
      BY <1>3, Zenon DEF Nexus!Ask, Nexus!At
    <3>2. CASE pc' = <<"write answer", 0>>  BY <3>1, <3>2, Zenon
    <3>3. CASE pc' = <<"write error", 0>>  BY <3>1, <3>3, Zenon
    <3> QED  BY <3>1, <3>2, <3>3, Zenon
  <2> QED  BY <1>3, <2>1, ScriptMoves, Zenon DEF Nexus!Ask, Asking
<1>4. CASE Nexus!StartTissdb
  <2>1. pc[1] = "start" /\ pc'[1] \in {"health", "aborted"} /\ pc'[2] \in Nat
    BY <1>4 DEF Nexus!StartTissdb, Nexus!At
  <2> QED  BY <1>4, <2>1, ScriptMoves, Zenon DEF Nexus!StartTissdb, Filling
<1>5. CASE Nexus!CheckConnection
  <2>1. \/ pc[1] = "health" /\ pc'[1] \in {"databases", "poll"} /\ pc'[2] \in Nat
        \/ pc' = pc
    BY <1>5 DEF Nexus!CheckConnection, Nexus!At
  <2> QED  BY <1>5, <2>1, ScriptMoves, Zenon DEF Nexus!CheckConnection, Filling
<1>6. CASE Nexus!PollServer
  <2>1. pc[1] = "poll" /\ pc'[1] \in {"get", "aborted"} /\ pc'[2] \in Nat
    BY <1>6 DEF Nexus!PollServer, Nexus!At
  <2> QED  BY <1>6, <2>1, ScriptMoves, Zenon DEF Nexus!PollServer, Filling
<1>7. CASE Nexus!Shutdown
  <2>1. pc[1] = "ready" /\ pc'[1] = "stopped" /\ pc'[2] \in Nat
    BY <1>7 DEF Nexus!Shutdown, Nexus!At
  <2> QED  BY <1>7, <2>1, ScriptMoves, Zenon DEF Nexus!Shutdown, Asking
<1>8. ASSUME NEW result \in {"answer", "error"}, Nexus!OpenOutput(result) \/ Nexus!FillOutput(result)
      PROVE  NexusInv'
  <2>1. \E write, fill \in Asking :
          /\ Nexus!OpenOutput(result) => pc = <<write, 0>> /\ pc' = <<fill, 0>>
          /\ Nexus!FillOutput(result)
               => pc = <<fill, 0>> /\ (pc' = <<"ready", 0>> \/ pc' = <<"write error", 0>>)
    <3>1. CASE result = "answer"
      BY <3>1, Zenon DEF Nexus!OpenOutput, Nexus!FillOutput, Nexus!Write, Nexus!Fill, Nexus!At, Asking
    <3>2. CASE result = "error"
      BY <3>2, Zenon DEF Nexus!OpenOutput, Nexus!FillOutput, Nexus!Write, Nexus!Fill, Nexus!At, Asking
    <3> QED  BY <1>8, <3>1, <3>2, Zenon
  <2>2. PICK write \in Asking, fill \in Asking :
          \/ pc = <<write, 0>> /\ pc' = <<fill, 0>>
          \/ pc = <<fill, 0>> /\ (pc' = <<"ready", 0>> \/ pc' = <<"write error", 0>>)
    BY <1>8, <2>1, Zenon
  <2>3. pc[1] \in Asking /\ pc'[1] \in Asking /\ pc'[2] \in Nat
    <3>1. CASE pc = <<write, 0>> /\ pc' = <<fill, 0>>  BY <3>1
    <3>2. CASE pc = <<fill, 0>> /\ pc' = <<"ready", 0>>  BY <3>2, Zenon DEF Asking
    <3>3. CASE pc = <<fill, 0>> /\ pc' = <<"write error", 0>>  BY <3>3, Zenon DEF Asking
    <3> QED  BY <2>2, <3>1, <3>2, <3>3, Zenon
  <2>4. UNCHANGED <<store, context, prompt>>  BY <1>8, Zenon DEF Nexus!OpenOutput, Nexus!FillOutput
  <2> QED  BY <2>3, <2>4, ScriptMoves
<1>9. CASE Nexus!Comes \/ Nexus!Hangs \/ Nexus!Dies \/ UNCHANGED Nexus!vars
  BY <1>9, ScriptMoves DEF Nexus!Comes, Nexus!Hangs, Nexus!Dies, Nexus!vars
<1> QED  BY <1>1, <1>2, <1>3, <1>4, <1>5, <1>6, <1>7, <1>8, <1>9 DEF Nexus!Next

LEMMA NexusHolds ==
    Nexus!Init /\ [][Nexus!Next]_(Nexus!vars)
      => [](Nexus!StoreIsBuiltInOrder /\ Nexus!ContextIsRead)
<1>1. NexusInv => Nexus!StoreIsBuiltInOrder /\ Nexus!ContextIsRead
  <2> SUFFICES ASSUME NexusInv PROVE Nexus!StoreIsBuiltInOrder /\ Nexus!ContextIsRead  OBVIOUS
  <2>1. \E n : ReadBefore(n)  BY DEF NexusInv, ReadInv
  <2>2. Nexus!ContextIsRead  BY <2>1 DEF ReadBefore, NexusInv, Nexus!ContextIsRead
  <2> QED  BY <2>2, Zenon DEF NexusInv, StoreInv
<1> QED  BY NexusInit, NexusNext, <1>1, PTL

-----------------------------------------------------------------------------
(*****************************************************************************)
(* The knowledge base, for any texts, queries, scores and bounds, and        *)
(* whichever of its two threads adds.  The cache only grows until the        *)
(* process ends, so what was found in a beginning of it stays found there.   *)
(*****************************************************************************)
LEMMA TimesGrow ==
    ASSUME NEW s, IsSequence(s), NEW x, NEW t
    PROVE  /\ Base!Times(s, t) \in Nat
           /\ Base!Times(Append(s, x), t) = Base!Times(s, t) + (IF x = t THEN 1 ELSE 0)
<1> DEFINE At(q) == {i \in DOMAIN q : q[i] = t}
           n == Len(s) + 1
<1>1. \A q : Base!Times(q, t) = Cardinality(At(q))
  BY DEF Base!Times, Base!Cardinality, Cardinality
<1>2. /\ DOMAIN s = 1..Len(s) /\ Len(s) \in Nat /\ DOMAIN Append(s, x) = 1..n
      /\ Append(s, x)[n] = x /\ \A i \in 1..Len(s) : Append(s, x)[i] = s[i]
  BY SequenceGrows
<1>3. IsFiniteSet(At(s))
  <2>1. IsFiniteSet(1..Len(s))  BY <1>2, FS_Interval
  <2>2. At(s) \subseteq 1..Len(s)  BY <1>2
  <2> QED  BY <2>1, <2>2, FS_Subset
<1>4. At(Append(s, x)) = IF x = t THEN At(s) \cup {n} ELSE At(s)
  BY <1>2
<1>5. n \notin At(s)  BY <1>2
<1> HIDE DEF At
<1>6. Cardinality(At(s)) \in Nat /\ Cardinality(At(s) \cup {n}) = Cardinality(At(s)) + 1
  BY <1>3, <1>5, FS_CardinalityType, FS_AddElement
<1> HIDE DEF n
<1>7. CASE x = t  BY <1>1, <1>4, <1>6, <1>7, Zenon
<1>8. CASE x # t
  <2>1. At(Append(s, x)) = At(s)  BY <1>4, <1>8
  <2>2. Base!Times(Append(s, x), t) = Cardinality(At(s)) /\ Base!Times(s, t) = Cardinality(At(s))
    BY <1>1, <2>1
  <2> QED  BY <1>6, <1>8, <2>2
<1> QED  BY <1>7, <1>8

(* No text is in the database more often than in the cache. *)
Stored == \A t : Base!Times(db, t) <= Base!Times(cache, t)

(* An answer was the best for a beginning of the cache. *)
Answered ==
    \A i \in DOMAIN queryCache :
       /\ queryCache[i].size \in 0..Len(cache)
       /\ queryCache[i].answer \in Base!Best(queryCache[i].query, queryCache[i].k,
                                             Base!Range(SubSeq(cache, 1, queryCache[i].size)))

(* There is a thread while it is to run; without one it is not waited for in vain. *)
OneThread ==
    /\ running \in BOOLEAN /\ stopping \in BOOLEAN /\ threads \in {0, 1}
    /\ running => threads = 1 /\ ~stopping
    /\ threads = 1 => running \/ stopping

BaseInv ==
    /\ IsSequence(cache) /\ IsSequence(db) /\ IsSequence(queryCache)
    /\ Stored /\ Answered /\ OneThread

LEMMA EmptyBase ==
    ASSUME cache = <<>>, db = <<>>, queryCache = <<>>, running = FALSE, stopping = FALSE, threads = 0
    PROVE  BaseInv
<1>1. <<>> \in Seq({})  OBVIOUS
<1>2. \A t : Base!Times(<<>>, t) \in Nat  BY <1>1, TimesGrow, Zenon DEF IsSequence
<1>3. Stored  BY <1>2 DEF Stored
<1>4. Answered
  <2>1. DOMAIN queryCache = {}  BY <1>1
  <2>2. \A i \in DOMAIN queryCache : FALSE  BY <2>1
  <2> QED  BY <2>2, Zenon DEF Answered
<1>5. OneThread
  <2>1. running \in BOOLEAN /\ stopping \in BOOLEAN /\ ~running  BY Zenon
  <2>2. threads \in {0, 1} /\ threads # 1  OBVIOUS
  <2> QED  BY <2>1, <2>2, Zenon DEF OneThread
<1> QED  BY <1>1, <1>3, <1>4, <1>5 DEF BaseInv, IsSequence

(* Adding a chunk. *)
LEMMA ChunkAdded ==
    ASSUME BaseInv, NEW chunk,
           \/ cache' = cache /\ db' = db
           \/ cache' = Append(cache, chunk) /\ db' \in {db, Append(db, chunk)},
           UNCHANGED <<queryCache, running, threads, stopping>>
    PROVE  BaseInv'
<1>1. IsSequence(cache) /\ IsSequence(db) /\ IsSequence(queryCache) /\ Stored /\ Answered /\ OneThread
  BY DEF BaseInv
<1>2. IsSequence(cache') /\ IsSequence(db')
  <2>1. IsSequence(Append(cache, chunk)) /\ IsSequence(Append(db, chunk))  BY <1>1, SequenceGrows
  <2> QED  BY <1>1, <2>1, Zenon
<1>3. Stored'
  <2> SUFFICES ASSUME NEW t PROVE Base!Times(db', t) <= Base!Times(cache', t)
    BY DEF Stored
  <2>1. Base!Times(db, t) <= Base!Times(cache, t)  BY <1>1 DEF Stored
  <2>2. /\ Base!Times(db, t) \in Nat
        /\ Base!Times(Append(db, chunk), t) = Base!Times(db, t) + (IF chunk = t THEN 1 ELSE 0)
    BY <1>1, TimesGrow
  <2>3. /\ Base!Times(cache, t) \in Nat
        /\ Base!Times(Append(cache, chunk), t) = Base!Times(cache, t) + (IF chunk = t THEN 1 ELSE 0)
    BY <1>1, TimesGrow
  <2>4. CASE cache' = cache /\ db' = db  BY <2>1, <2>4
  <2>5. CASE cache' = Append(cache, chunk) /\ db' = db  BY <2>1, <2>2, <2>3, <2>5
  <2>6. CASE cache' = Append(cache, chunk) /\ db' = Append(db, chunk)
    BY <2>1, <2>2, <2>3, <2>6
  <2> QED  BY <2>4, <2>5, <2>6
<1>4. Answered'
  <2> SUFFICES ASSUME NEW i \in DOMAIN queryCache
               PROVE  /\ queryCache[i].size \in 0..Len(cache')
                      /\ queryCache[i].answer \in Base!Best(queryCache[i].query, queryCache[i].k,
                                   Base!Range(SubSeq(cache', 1, queryCache[i].size)))
    BY DEF Answered
  <2>1. PICK n : n = queryCache[i].size  OBVIOUS
  <2>2. /\ n \in 0..Len(cache)
        /\ queryCache[i].answer \in Base!Best(queryCache[i].query, queryCache[i].k,
                                              Base!Range(SubSeq(cache, 1, n)))
    BY <1>1, <2>1 DEF Answered
  <2>3. n \in 0..Len(cache') /\ SubSeq(cache', 1, n) = SubSeq(cache, 1, n)
    <3>1. CASE cache' = cache  BY <2>2, <3>1
    <3>2. CASE cache' = Append(cache, chunk)
      <4>1. PICK S : cache \in Seq(S)  BY <1>1 DEF IsSequence
      <4>2. cache \in Seq(S \cup {chunk})  BY <4>1
      <4>3. /\ Len(cache') = Len(cache) + 1 /\ Len(cache) \in Nat
            /\ \A k \in 1..Len(cache) : cache'[k] = cache[k]
        BY <3>2, <4>2
      <4>4. n \in 0..Len(cache')  BY <2>2, <4>3
      <4>5. \A k \in 1..n : cache'[k] = cache[k]  BY <2>2, <4>3
      <4>6. SubSeq(cache, 1, n) = [k \in 1..n |-> cache[k]]  BY <2>2, <4>1
      <4>7. SubSeq(cache', 1, n) = [k \in 1..n |-> cache'[k]]  BY <2>2, <3>2, <4>2
      <4> QED  BY <4>4, <4>5, <4>6, <4>7
    <3> QED  BY <3>1, <3>2
  <2> QED  BY <2>1, <2>2, <2>3, Zenon
<1>5. OneThread'  BY <1>1 DEF OneThread
<1> QED  BY <1>1, <1>2, <1>3, <1>4, <1>5 DEF BaseInv

LEMMA Retrieved == ASSUME BaseInv, Base!Retrieve PROVE BaseInv'
<1>1. IsSequence(cache) /\ IsSequence(db) /\ IsSequence(queryCache) /\ Stored /\ Answered /\ OneThread
  BY DEF BaseInv
<1>2. PICK query, k, answer :
        /\ answer \in Base!Best(query, k, Base!Range(cache))
        /\ queryCache' = Append(queryCache, [query |-> query, k |-> k, answer |-> answer,
                                             size |-> Len(cache)])
  BY DEF Base!Retrieve, Base!Remember
<1>3. UNCHANGED <<cache, db, running, threads, stopping>>
  BY DEF Base!Retrieve, Base!updater
<1>4. PICK entry : entry = [query |-> query, k |-> k, answer |-> answer, size |-> Len(cache)]
  BY Zenon
<1>5. /\ IsSequence(Append(queryCache, entry)) /\ DOMAIN queryCache = 1..Len(queryCache)
      /\ Len(queryCache) \in Nat /\ DOMAIN Append(queryCache, entry) = 1..(Len(queryCache) + 1)
      /\ Append(queryCache, entry)[Len(queryCache) + 1] = entry
      /\ \A i \in 1..Len(queryCache) : Append(queryCache, entry)[i] = queryCache[i]
  BY <1>1, SequenceGrows
<1>6. Len(cache) \in Nat /\ SubSeq(cache, 1, Len(cache)) = cache
  <2>1. PICK S : cache \in Seq(S)  BY <1>1 DEF IsSequence
  <2> QED  BY <2>1
<1>7. Answered'
  <2> SUFFICES ASSUME NEW i \in DOMAIN queryCache'
               PROVE  /\ queryCache'[i].size \in 0..Len(cache)
                      /\ queryCache'[i].answer \in Base!Best(queryCache'[i].query, queryCache'[i].k,
                                   Base!Range(SubSeq(cache, 1, queryCache'[i].size)))
    BY <1>3 DEF Answered
  <2>1. CASE i = Len(queryCache) + 1
    <3>1. queryCache'[i] = entry  BY <1>2, <1>4, <1>5, <2>1
    <3>2. /\ queryCache'[i].query = query /\ queryCache'[i].k = k
          /\ queryCache'[i].answer = answer /\ queryCache'[i].size = Len(cache)
      BY <1>4, <3>1
    <3>3. SubSeq(cache, 1, queryCache'[i].size) = cache  BY <1>6, <3>2
    <3>4. queryCache'[i].size \in 0..Len(cache)  BY <1>6, <3>2
    <3>5. answer \in Base!Best(query, k, Base!Range(cache))  BY <1>2
    <3> QED  BY <3>2, <3>3, <3>4, <3>5, Zenon
  <2>2. CASE i # Len(queryCache) + 1
    <3>1. i \in DOMAIN queryCache /\ queryCache'[i] = queryCache[i]  BY <1>2, <1>4, <1>5, <2>2
    <3> QED  BY <1>1, <3>1 DEF Answered
  <2> QED  BY <2>1, <2>2
<1>8. Stored' /\ OneThread'  BY <1>1, <1>3 DEF Stored, OneThread
<1> QED  BY <1>1, <1>2, <1>3, <1>4, <1>5, <1>7, <1>8 DEF BaseInv

(* Steps of the threads that neither add nor ask. *)
LEMMA ThreadMoves ==
    ASSUME BaseInv, UNCHANGED <<cache, db, queryCache>>, OneThread'
    PROVE  BaseInv'
<1>1. Stored' /\ Answered'  BY DEF BaseInv, Stored, Answered
<1> QED  BY <1>1 DEF BaseInv

LEMMA BaseNext == BaseInv /\ [Base!Next]_(Base!vars) => BaseInv'
<1> SUFFICES ASSUME BaseInv, Base!Next \/ UNCHANGED Base!vars PROVE BaseInv'  OBVIOUS
<1>1. OneThread  BY DEF BaseInv
<1>2. CASE \E who \in {"user", "updater"} : Base!AddChunk(who)
  <2>1. PICK who : Base!AddChunk(who)  BY <1>2
  <2>2. PICK chunk : chunk = Head(adding[who])  OBVIOUS
  <2>3. \/ cache' = cache /\ db' = db
        \/ cache' = Append(cache, chunk) /\ db' \in {db, Append(db, chunk)}
    BY <2>1, <2>2 DEF Base!AddChunk
  <2>4. UNCHANGED <<queryCache, running, threads, stopping>>  BY <2>1 DEF Base!AddChunk
  <2> QED  BY <2>3, <2>4, ChunkAdded
<1>3. CASE Base!Retrieve  BY <1>3, Retrieved
<1>4. CASE Base!AddDocument \/ Base!Fetch \/ Base!AddNext \/ UNCHANGED Base!vars
  <2>1. UNCHANGED <<cache, db, queryCache, running, threads, stopping>>
    BY <1>4 DEF Base!AddDocument, Base!Fetch, Base!AddNext, Base!documents, Base!updater, Base!vars
  <2>2. OneThread'  BY <1>1, <2>1 DEF OneThread
  <2> QED  BY <2>1, <2>2, ThreadMoves
<1>5. CASE Base!Start \/ Base!Stop \/ Base!Joined \/ Base!ThreadEnds
  <2>1. UNCHANGED <<cache, db, queryCache>>
    BY <1>5 DEF Base!Start, Base!Stop, Base!Joined, Base!ThreadEnds, Base!documents
  <2>2. OneThread'
    <3>1. CASE Base!Start  BY <1>1, <3>1 DEF Base!Start, OneThread
    <3>2. CASE Base!Stop  BY <1>1, <3>2, Zenon DEF Base!Stop, OneThread
    <3>3. CASE Base!Joined
      <4>1. threads = 0 /\ stopping' = FALSE /\ running' = running /\ threads' = threads
        BY <3>3 DEF Base!Joined
      <4>2. ~running  BY <1>1, <4>1 DEF OneThread
      <4>3. running' \in BOOLEAN /\ stopping' \in BOOLEAN /\ ~running'  BY <1>1, <4>1, <4>2, Zenon DEF OneThread
      <4>4. threads' \in {0, 1} /\ threads' # 1  BY <4>1
      <4> QED  BY <4>3, <4>4, Zenon DEF OneThread
    <3>4. CASE Base!ThreadEnds  BY <1>1, <3>4 DEF Base!ThreadEnds, OneThread
    <3> QED  BY <1>5, <3>1, <3>2, <3>3, <3>4
  <2> QED  BY <2>1, <2>2, ThreadMoves
<1>6. CASE Base!Restart
  <2>1. /\ cache' = <<>> /\ db' = <<>> /\ queryCache' = <<>>
        /\ running' = FALSE /\ stopping' = FALSE /\ threads' = 0
    BY <1>6 DEF Base!Restart
  <2>2. (cache = <<>> /\ db = <<>> /\ queryCache = <<>> /\ running = FALSE /\ stopping = FALSE
         /\ threads = 0 => BaseInv)'
    BY EmptyBase, PTL
  <2> QED  BY <2>1, <2>2
<1> QED  BY <1>2, <1>3, <1>4, <1>5, <1>6 DEF Base!Next

LEMMA BaseHolds ==
    Base!Init /\ [][Base!Next]_(Base!vars)
      => [](Base!StoredIsCached /\ Base!AnswersWereRight /\ Base!OneUpdaterThread)
<1>1. Base!Init => BaseInv  BY EmptyBase, Zenon DEF Base!Init
<1>2. BaseInv => Base!StoredIsCached /\ Base!AnswersWereRight /\ Base!OneUpdaterThread
  BY DEF BaseInv, Stored, Answered, OneThread, Base!StoredIsCached, Base!AnswersWereRight,
         Base!OneUpdaterThread
<1> QED  BY BaseNext, <1>1, <1>2, PTL

-----------------------------------------------------------------------------
(*****************************************************************************)
(* Data migration, for any number of documents with any keys and values.     *)
(* What the import has stored is a part of the rows it read, in their order; *)
(* without a failure it is all of them up to the place it is at.             *)
(*****************************************************************************)
(* The loop over the documents of an SQL file: one up to m extends one up to *)
(* m - 1.                                                                    *)
LEMMA InsertedUnfolds ==
    ASSUME NEW docs, Len(docs) \in Nat
    PROVE  Migration!Inserted(docs) = [n \in 0..Len(docs) |->
              IF n = 0 THEN <<>>
              ELSE IF Migration!Filled(docs[n]) = {} THEN Migration!Inserted(docs)[n - 1]
              ELSE Append(Migration!Inserted(docs)[n - 1], docs[n])]
<1> DEFINE Step(n, s) == IF Migration!Filled(docs[n]) = {} THEN s ELSE Append(s, docs[n])
           Of(f, m) == [n \in 0..m |-> IF n = 0 THEN <<>> ELSE Step(n, f[n - 1])]
           G == {m \in 0..Len(docs) : \E f : f = Of(f, m)}
<1> HIDE DEF Step
<1>1. 0 \in G
  <2> DEFINE f == [n \in 0..0 |-> <<>>]
  <2>1. \A n \in 0..0 : f[n] = IF n = 0 THEN <<>> ELSE Step(n, f[n - 1])  OBVIOUS
  <2>2. f = [n \in 0..0 |-> f[n]]  OBVIOUS
  <2> HIDE DEF f
  <2>3. f = Of(f, 0)  BY <2>1, <2>2
  <2> QED  BY <2>3
<1>2. ASSUME NEW m \in 1..Len(docs), m - 1 \in G PROVE m \in G
  <2>1. PICK g : g = Of(g, m - 1)  BY <1>2, Zenon
  <2> DEFINE f == [n \in 0..m |-> IF n = m THEN Step(m, g[m - 1]) ELSE g[n]]
  <2>2. \A n \in 0..m : f[n] = IF n = 0 THEN <<>> ELSE Step(n, f[n - 1])
    <3>1. \A n \in 0..(m - 1) : g[n] = IF n = 0 THEN <<>> ELSE Step(n, g[n - 1])  BY <2>1
    <3>2. \A n \in 0..m : n # m => f[n] = g[n]  OBVIOUS
    <3>3. f[m] = Step(m, f[m - 1])  OBVIOUS
    <3>4. \A n \in 1..m : n # m => f[n - 1] = g[n - 1]  OBVIOUS
    <3> QED  BY <3>1, <3>2, <3>3, <3>4
  <2>3. f = [n \in 0..m |-> f[n]]  OBVIOUS
  <2> HIDE DEF f
  <2>4. f = Of(f, m)  BY <2>2, <2>3
  <2> QED  BY <2>4
<1>3. \E f : f = Of(f, Len(docs))
  <2>1. \A m \in 0..Len(docs) : m \in G
    <3> HIDE DEF G
    <3> QED BY <1>1, <1>2, UpTo, Zenon
  <2> QED  BY <2>1
<1>4. Migration!Inserted(docs) = Of(Migration!Inserted(docs), Len(docs))
  <2>1. Migration!Inserted(docs) = CHOOSE f : f = Of(f, Len(docs))  BY Zenon DEF Migration!Inserted, Step
  <2> QED  BY <1>3, <2>1, Zenon
<1> QED  BY <1>4, Zenon DEF Step

(* The documents with values are documents of the collection that have one. *)
LEMMA ValuesAreOfDocuments ==
    ASSUME NEW docs, IsSequence(docs)
    PROVE  /\ IsSequence(Migration!WithValues(docs))
           /\ \A i \in DOMAIN Migration!WithValues(docs) :
                 /\ \E j \in DOMAIN docs : Migration!WithValues(docs)[i] = docs[j]
                 /\ Migration!Filled(Migration!WithValues(docs)[i]) # {}
<1>1. PICK S : docs \in Seq(S)  BY DEF IsSequence
<1> DEFINE N == Len(docs)
           T == {docs[j] : j \in {j \in 1..N : Migration!Filled(docs[j]) # {}}}
           F == Migration!Inserted(docs)
           G == {n \in 0..N : F[n] \in Seq(T)}
<1>2. N \in Nat /\ DOMAIN docs = 1..N  BY <1>1
<1>3. F = [n \in 0..N |-> IF n = 0 THEN <<>>
                          ELSE IF Migration!Filled(docs[n]) = {} THEN F[n - 1]
                          ELSE Append(F[n - 1], docs[n])]
  BY <1>2, InsertedUnfolds
<1> HIDE DEF F
<1>4. 0 \in 0..N /\ \A n \in 1..N : n \in 0..N /\ n # 0  BY <1>2
<1>5. /\ F[0] = <<>>
      /\ \A n \in 1..N : F[n] = IF Migration!Filled(docs[n]) = {} THEN F[n - 1]
                               ELSE Append(F[n - 1], docs[n])
  BY <1>3, <1>4, Zenon
<1> HIDE DEF N
<1>6. 0 \in G
  <2>1. <<>> \in Seq(T)
    <3> HIDE DEF T
    <3> QED  OBVIOUS
  <2> QED  BY <1>4, <1>5, <2>1, Zenon
<1>7. ASSUME NEW n \in 1..N, n - 1 \in G PROVE n \in G
  <2>1. F[n] = IF Migration!Filled(docs[n]) = {} THEN F[n - 1] ELSE Append(F[n - 1], docs[n])
    BY <1>5
  <2>2. F[n - 1] \in Seq(T)  BY <1>7
  <2>3. Migration!Filled(docs[n]) # {} => docs[n] \in T  OBVIOUS
  <2> HIDE DEF T
  <2>4. F[n] \in Seq(T)  BY <2>1, <2>2, <2>3
  <2> QED  BY <1>4, <2>4
<1>8. N \in G
  <2> HIDE DEF G
  <2> QED  BY <1>2, <1>6, <1>7, UpTo
<1>9. Migration!WithValues(docs) \in Seq(T)  BY <1>8 DEF Migration!WithValues, F, N
<1>10. \A i \in DOMAIN Migration!WithValues(docs) : Migration!WithValues(docs)[i] \in T
  <2> HIDE DEF T
  <2> QED  BY <1>9
<1> QED  BY <1>2, <1>9, <1>10 DEF IsSequence

(* A function on 1..n is a sequence. *)
LEMMA ListIsSequence ==
    ASSUME NEW n \in Nat, NEW f, f = [i \in 1..n |-> f[i]]
    PROVE  IsSequence(f) /\ Len(f) = n /\ DOMAIN f = 1..n
<1> DEFINE S == {f[i] : i \in 1..n}
<1>1. f \in [1..n -> S]  OBVIOUS
<1> HIDE DEF S
<1>2. f \in Seq(S) /\ DOMAIN f = 1..n  BY <1>1
<1>3. Len(f) = n  BY <1>2
<1> QED  BY <1>2, <1>3 DEF IsSequence

(* What the import has stored is taken from the rows before its place, in    *)
(* their order; without a failure it is all of them.                         *)
TakenInOrder ==
    /\ \A i \in 1..(Len(target) - job.before) :
          \E x \in DOMAIN job.rows : x < job.at /\ target[job.before + i] = job.rows[x]
    /\ \A i, j \in 1..(Len(target) - job.before) : i < j =>
          \E x, y \in DOMAIN job.rows :
             x < y /\ y < job.at /\ target[job.before + i] = job.rows[x]
                                 /\ target[job.before + j] = job.rows[y]
AllTaken ==
    job.clean => /\ Len(target) - job.before = job.at - 1
                 /\ \A i \in 1..(job.at - 1) : target[job.before + i] = job.rows[i]
JobShape == DOMAIN job = {"tool", "from", "format", "rows", "at", "count", "before", "clean"}
ImportInv ==
    /\ IsSequence(target) /\ IsSequence(job.rows) /\ JobShape
    /\ job.at \in 0..(Len(job.rows) + 1) /\ job.before \in 0..Len(target)
    /\ job.count \in Nat /\ lost \in Nat
    /\ Len(target) - job.before = job.count + lost
    /\ TakenInOrder /\ AllTaken

LEMMA Advanced ==
    ASSUME JobShape, NEW n, job' = Migration!Advance(n)
    PROVE  /\ JobShape'
           /\ job'.tool = job.tool /\ job'.from = job.from /\ job'.format = job.format
           /\ job'.rows = job.rows /\ job'.before = job.before
           /\ job'.at = job.at + 1 /\ job'.count = job.count + n
           /\ job'.clean => job.clean /\ n = 1
<1>1. job' = [[[job EXCEPT !.at = @ + 1] EXCEPT !.count = @ + n] EXCEPT !.clean = @ /\ n = 1]
  BY DEF Migration!Advance
<1>2. JobShape' /\ UNCHANGED <<job.tool, job.from, job.format, job.rows, job.before>>
  BY <1>1 DEF JobShape
<1>3. job'.at = job.at + 1 /\ job'.count = job.count + n  BY <1>1 DEF JobShape
<1>4. job'.clean = (job.clean /\ n = 1)  BY <1>1 DEF JobShape
<1> QED  BY <1>2, <1>3, <1>4, Zenon

(* A document is stored. *)
LEMMA DocumentStored ==
    ASSUME ImportInv, job.at \in DOMAIN job.rows, target' = Append(target, job.rows[job.at]),
           JobShape', job'.rows = job.rows, job'.before = job.before,
           job'.at \in (job.at + 1)..(Len(job.rows) + 1),
           job'.clean => job.clean /\ job'.at = job.at + 1,
           job'.count \in Nat, lost' \in Nat, job'.count + lost' = job.count + lost + 1
    PROVE  ImportInv'
<1> DEFINE n == Len(target) - job.before
<1>1. /\ IsSequence(target) /\ IsSequence(job.rows)
      /\ job.at \in 0..(Len(job.rows) + 1) /\ job.before \in 0..Len(target)
      /\ job.count \in Nat /\ lost \in Nat
      /\ n = job.count + lost
      /\ TakenInOrder /\ AllTaken
  BY DEF ImportInv
<1>2. /\ DOMAIN job.rows = 1..Len(job.rows) /\ Len(job.rows) \in Nat  BY <1>1, SequenceGrows, Zenon
<1>3. /\ IsSequence(target') /\ DOMAIN target = 1..Len(target) /\ Len(target) \in Nat
      /\ target'[Len(target) + 1] = job.rows[job.at]
      /\ \A i \in 1..Len(target) : target'[i] = target[i]
  <2>1. PICK d, more : d = job.rows[job.at] /\ more = Append(target, d)  OBVIOUS
  <2>2. /\ IsSequence(more) /\ DOMAIN target = 1..Len(target) /\ Len(target) \in Nat
        /\ more[Len(target) + 1] = d
        /\ \A i \in 1..Len(target) : more[i] = target[i]
    BY <1>1, <2>1, SequenceGrows
  <2>3. target' = more  BY <2>1
  <2> QED  BY <2>1, <2>2, <2>3, Zenon
<1>4. Len(target') = Len(target) + 1
  <2>1. PICK S : target \in Seq(S)  BY <1>1 DEF IsSequence
  <2> QED  BY <2>1
<1>5. /\ Len(target') - job'.before = n + 1 /\ n \in Nat
      /\ target'[job.before + (n + 1)] = job.rows[job.at]
      /\ \A i \in 1..n : target'[job.before + i] = target[job.before + i]
  <2>1. Len(target) \in Nat /\ job.before \in 0..Len(target)  BY <1>1, <1>3
  <2>2. \A m \in Nat : \A k \in 0..m :
           /\ m - k \in Nat /\ (m + 1) - k = (m - k) + 1 /\ k + ((m - k) + 1) = m + 1
           /\ \A i \in 1..(m - k) : k + i \in 1..m
    OBVIOUS
  <2>3. /\ n \in Nat /\ (Len(target) + 1) - job.before = n + 1 /\ job.before + (n + 1) = Len(target) + 1
        /\ \A i \in 1..n : job.before + i \in 1..Len(target)
    BY <2>1, <2>2, Zenon
  <2> HIDE DEF n
  <2> QED  BY <1>3, <1>4, <2>3
<1>6. job.at \in Nat /\ job'.at \in Nat /\ job.at < job'.at /\ job'.at <= Len(job.rows) + 1
  <2>1. job.at \in Nat  BY <1>1
  <2>2. \A x, y \in Nat : \A z \in (x + 1)..(y + 1) : z \in Nat /\ x < z /\ z <= y + 1  OBVIOUS
  <2> QED  BY <1>2, <2>1, <2>2
<1> HIDE DEF n
<1>7. TakenInOrder'
  <2>1. /\ \A i \in 1..n : \E x \in DOMAIN job.rows :
                x < job.at /\ target[job.before + i] = job.rows[x]
        /\ \A i, j \in 1..n : i < j => \E x, y \in DOMAIN job.rows :
                x < y /\ y < job.at /\ target[job.before + i] = job.rows[x]
                                    /\ target[job.before + j] = job.rows[y]
    BY <1>1 DEF TakenInOrder, n
  <2>2. \A i \in 1..(n + 1) : \E x \in DOMAIN job.rows :
           x < job'.at /\ target'[job.before + i] = job.rows[x]
    <3> SUFFICES ASSUME NEW i \in 1..(n + 1)
                 PROVE  \E x \in DOMAIN job.rows : x < job'.at /\ target'[job.before + i] = job.rows[x]
      BY Zenon
    <3>1. CASE i = n + 1
      <4>1. target'[job.before + i] = job.rows[job.at]
        <5>1. job.before + i = job.before + (n + 1)  BY <3>1, Zenon
        <5> QED  BY <1>5, <5>1, Zenon
      <4> QED  BY <1>6, <4>1
    <3>2. CASE i # n + 1
      <4>1. i \in 1..n  BY <1>5, <3>2
      <4>2. PICK x \in DOMAIN job.rows : x < job.at /\ target[job.before + i] = job.rows[x]
        BY <2>1, <4>1
      <4>3. x < job'.at  BY <1>2, <1>6, <4>2
      <4>4. target'[job.before + i] = job.rows[x]  BY <1>5, <4>1, <4>2, Zenon
      <4> QED  BY <4>3, <4>4
    <3> QED  BY <3>1, <3>2, Zenon
  <2>3. \A i, j \in 1..(n + 1) : i < j => \E x, y \in DOMAIN job.rows :
           x < y /\ y < job'.at /\ target'[job.before + i] = job.rows[x]
                                /\ target'[job.before + j] = job.rows[y]
    <3> SUFFICES ASSUME NEW i \in 1..(n + 1), NEW j \in 1..(n + 1), i < j
                 PROVE  \E x, y \in DOMAIN job.rows :
                           x < y /\ y < job'.at /\ target'[job.before + i] = job.rows[x]
                                                /\ target'[job.before + j] = job.rows[y]
      BY Zenon
    <3>1. i \in 1..n  BY <1>5
    <3>2. CASE j = n + 1
      <4>1. PICK x \in DOMAIN job.rows : x < job.at /\ target[job.before + i] = job.rows[x]
        BY <2>1, <3>1
      <4>2. target'[job.before + j] = job.rows[job.at]
        <5>1. job.before + j = job.before + (n + 1)  BY <3>2, Zenon
        <5> QED  BY <1>5, <5>1, Zenon
      <4>3. target'[job.before + i] = job.rows[x]  BY <1>5, <3>1, <4>1, Zenon
      <4> QED  BY <1>6, <4>1, <4>2, <4>3
    <3>3. CASE j # n + 1
      <4>1. j \in 1..n  BY <1>5, <3>3
      <4>2. PICK x \in DOMAIN job.rows, y \in DOMAIN job.rows :
               x < y /\ y < job.at /\ target[job.before + i] = job.rows[x]
                                   /\ target[job.before + j] = job.rows[y]
        BY <2>1, <3>1, <4>1
      <4>3. y < job'.at  BY <1>2, <1>6, <4>2
      <4>4. target'[job.before + i] = job.rows[x] /\ target'[job.before + j] = job.rows[y]
        BY <1>5, <3>1, <4>1, <4>2, Zenon
      <4> QED  BY <4>2, <4>3, <4>4
    <3> QED  BY <3>2, <3>3, Zenon
  <2>4. 1..(Len(target') - job'.before) = 1..(n + 1)  BY <1>5
  <2>5. job'.before = job.before /\ job'.rows = job.rows  OBVIOUS
  <2>6. ASSUME NEW i \in 1..(Len(target') - job'.before)
        PROVE  \E x \in DOMAIN job'.rows : x < job'.at /\ target'[job'.before + i] = job'.rows[x]
    <3>1. i \in 1..(n + 1)  BY <2>4, Zenon
    <3>2. PICK x \in DOMAIN job.rows : x < job'.at /\ target'[job.before + i] = job.rows[x]
      BY <2>2, <3>1, Zenon
    <3> QED  BY <2>5, <3>2
  <2>7. ASSUME NEW i \in 1..(Len(target') - job'.before), NEW j \in 1..(Len(target') - job'.before),
               i < j
        PROVE  \E x, y \in DOMAIN job'.rows :
                  x < y /\ y < job'.at /\ target'[job'.before + i] = job'.rows[x]
                                       /\ target'[job'.before + j] = job'.rows[y]
    <3>1. i \in 1..(n + 1) /\ j \in 1..(n + 1)  BY <2>4, Zenon
    <3>2. PICK x \in DOMAIN job.rows, y \in DOMAIN job.rows :
             x < y /\ y < job'.at /\ target'[job.before + i] = job.rows[x]
                                  /\ target'[job.before + j] = job.rows[y]
      BY <2>3, <2>7, <3>1, Zenon
    <3> QED  BY <2>5, <3>2
  <2> QED  BY <2>6, <2>7, Zenon DEF TakenInOrder
<1>8. AllTaken'
  <2> SUFFICES ASSUME job'.clean
               PROVE  /\ Len(target') - job.before = job'.at - 1
                      /\ \A i \in 1..(job'.at - 1) : target'[job.before + i] = job.rows[i]
    BY Zenon DEF AllTaken
  <2>1. /\ n = job.at - 1 /\ job'.at = job.at + 1
        /\ \A i \in 1..(job.at - 1) : target[job.before + i] = job.rows[i]
    BY <1>1 DEF AllTaken, n
  <2>2. Len(target') - job.before = job'.at - 1  BY <1>1, <1>5, <2>1
  <2>3. ASSUME NEW i \in 1..(job'.at - 1) PROVE target'[job.before + i] = job.rows[i]
    <3>1. CASE i = job.at
      <4> HIDE DEF n
      <4>1. i = n + 1  BY <1>6, <2>1, <3>1
      <4>2. job.before + i = job.before + (n + 1)  BY <4>1, Zenon
      <4> QED  BY <1>5, <3>1, <4>2, Zenon
    <3>2. CASE i # job.at
      <4>1. i \in 1..(job.at - 1)  BY <1>1, <2>1, <3>2
      <4> QED  BY <1>5, <2>1, <4>1, Zenon
    <3> QED  BY <3>1, <3>2, Zenon
  <2> QED  BY <2>2, <2>3, Zenon
<1>9. /\ job'.at \in 0..(Len(job.rows) + 1) /\ job.before \in 0..Len(target')
      /\ Len(target') - job.before = job'.count + lost'
  <2>1. job'.at \in 0..(Len(job.rows) + 1)  BY <1>2, <1>6
  <2>2. job.before \in 0..Len(target')
    <3>1. \A m \in Nat : \A k \in 0..m : k \in 0..(m + 1)  OBVIOUS
    <3>2. Len(target) \in Nat /\ job.before \in 0..Len(target)  BY <1>1, <1>3
    <3>3. job.before \in 0..(Len(target) + 1)  BY <3>1, <3>2, Zenon
    <3> QED  BY <1>4, <3>3
  <2>3. Len(target') - job.before = job'.count + lost'  BY <1>1, <1>5
  <2> QED  BY <2>1, <2>2, <2>3
<1> QED  BY <1>1, <1>3, <1>7, <1>8, <1>9 DEF ImportInv

(* A document is left out. *)
LEMMA DocumentSkipped ==
    ASSUME ImportInv, job.at \in DOMAIN job.rows, target' = target,
           JobShape', job'.rows = job.rows, job'.before = job.before,
           job'.at \in (job.at + 1)..(Len(job.rows) + 1), ~job'.clean,
           job'.count = job.count, lost' = lost
    PROVE  ImportInv'
<1>1. /\ IsSequence(target) /\ IsSequence(job.rows)
      /\ job.at \in 0..(Len(job.rows) + 1) /\ TakenInOrder
  BY DEF ImportInv
<1>2. DOMAIN job.rows = 1..Len(job.rows) /\ Len(job.rows) \in Nat  BY <1>1, SequenceGrows
<1>3. \A x \in DOMAIN job.rows : x < job.at => x < job'.at  BY <1>1, <1>2
<1>4. TakenInOrder'  BY <1>1, <1>3 DEF TakenInOrder
<1>5. AllTaken'  BY DEF AllTaken
<1>6. job'.at \in 0..(Len(job.rows) + 1)  BY <1>1, <1>2
<1> QED  BY <1>4, <1>5, <1>6 DEF ImportInv

(* What a collection reads back as through one of the tools and formats. *)
ReadBack(tool, format, docs) ==
    [i \in DOMAIN Migration!RowsOf(format, docs) |->
        Migration!ReadRow(tool, format, Migration!RowsOf(format, docs)[i])]

(* The formats are one of five, by tool. *)
LEMMA ToolFormats ==
    ASSUME NEW tool \in DOMAIN Migration!Tools, NEW format \in Migration!Tools[tool]
    PROVE  \/ tool = "importer" /\ format \in {"csv", "xml", "sql"}
           \/ tool = "migration" /\ format \in {"json", "xml"}
BY DEF Migration!Tools

(* The documents a format keeps, and the rows it makes of them. *)
Kept(format, docs) == IF format = "sql" THEN Migration!WithValues(docs) ELSE docs

LEMMA RowsByFormat ==
    ASSUME NEW docs
    PROVE  /\ Migration!RowsOf("csv", docs) = Migration!CsvRows(docs)
           /\ Migration!RowsOf("xml", docs) = Migration!XmlRows(docs)
           /\ Migration!RowsOf("sql", docs) = Migration!SqlRows(docs)
           /\ Migration!RowsOf("json", docs) = docs
BY DEF Migration!RowsOf

LEMMA OneRowEach ==
    ASSUME NEW docs, IsSequence(docs), NEW format \in {"csv", "xml", "sql", "json"}
    PROVE  /\ IsSequence(Kept(format, docs))
           /\ IsSequence(Migration!RowsOf(format, docs))
           /\ DOMAIN Migration!RowsOf(format, docs) = DOMAIN Kept(format, docs)
           /\ Len(Migration!RowsOf(format, docs)) = Len(Kept(format, docs))
<1> DEFINE K == Kept(format, docs)
           R == Migration!RowsOf(format, docs)
<1>1. IsSequence(K)
  <2>1. CASE format = "sql"  BY <2>1, ValuesAreOfDocuments DEF Kept
  <2>2. CASE format # "sql"  BY <2>2 DEF Kept
  <2> QED  BY <2>1, <2>2
<1>2. DOMAIN K = 1..Len(K) /\ Len(K) \in Nat  BY <1>1, SequenceGrows
<1>3. CASE format = "json"
  <2>1. R = docs /\ K = docs  BY <1>3, RowsByFormat DEF Kept
  <2> QED  BY <1>1, <2>1
<1>4. CASE format # "json"
  <2>1. R = [i \in DOMAIN K |-> R[i]]
    <3>1. CASE format = "csv"  BY <3>1, RowsByFormat, Zenon DEF Kept, Migration!CsvRows
    <3>2. CASE format = "xml"  BY <3>2, RowsByFormat DEF Kept, Migration!XmlRows
    <3>3. CASE format = "sql"  BY <3>3, RowsByFormat DEF Kept, Migration!SqlRows
    <3> QED  BY <1>4, <3>1, <3>2, <3>3
  <2> HIDE DEF K, R
  <2>2. R = [i \in 1..Len(K) |-> R[i]]  BY <1>2, <2>1
  <2>3. IsSequence(R) /\ Len(R) = Len(K) /\ DOMAIN R = 1..Len(K)  BY <1>2, <2>2, ListIsSequence
  <2> QED  BY <1>1, <1>2, <2>3 DEF K, R
<1> QED  BY <1>3, <1>4

LEMMA ReadBackIsSequence ==
    ASSUME NEW docs, IsSequence(docs), NEW tool, NEW format \in {"csv", "xml", "sql", "json"}
    PROVE  /\ IsSequence(ReadBack(tool, format, docs))
           /\ Len(ReadBack(tool, format, docs)) = Len(Kept(format, docs))
           /\ DOMAIN ReadBack(tool, format, docs) = DOMAIN Kept(format, docs)
<1> DEFINE R == Migration!RowsOf(format, docs)
           B == ReadBack(tool, format, docs)
<1>1. /\ DOMAIN R = 1..Len(R) /\ Len(R) \in Nat /\ Len(R) = Len(Kept(format, docs))
      /\ DOMAIN R = DOMAIN Kept(format, docs)
  BY OneRowEach, SequenceGrows
<1>2. B = [i \in DOMAIN R |-> B[i]]  BY DEF ReadBack
<1> HIDE DEF B, R
<1>3. B = [i \in 1..Len(R) |-> B[i]]  BY <1>1, <1>2
<1>4. IsSequence(B) /\ Len(B) = Len(R) /\ DOMAIN B = 1..Len(R)  BY <1>1, <1>3, ListIsSequence
<1> QED  BY <1>1, <1>4 DEF B

(* A document that is kept is one of the collection, and in SQL has a value. *)
LEMMA KeptIsOfDocuments ==
    ASSUME NEW docs \in Seq(Migration!Docs), NEW format, NEW i \in DOMAIN Kept(format, docs)
    PROVE  Kept(format, docs)[i] \in Migration!Docs
<1>1. IsSequence(docs)  BY DEF IsSequence
<1>2. CASE format = "sql"
  <2>1. PICK j \in DOMAIN docs : Migration!WithValues(docs)[i] = docs[j]
    BY <1>1, <1>2, ValuesAreOfDocuments DEF Kept
  <2> HIDE DEF Migration!Docs
  <2> QED  BY <1>2, <2>1 DEF Kept
<1>3. CASE format # "sql"
  <2> HIDE DEF Migration!Docs
  <2> QED  BY <1>3 DEF Kept
<1> QED  BY <1>2, <1>3

(* The value that is read under a key that was written with a value. *)
LEMMA ValueReadBack ==
    ASSUME NEW docs, IsSequence(docs),
           NEW format \in {"csv", "xml", "sql"}, NEW tool \in {"importer", "migration"},
           NEW i \in DOMAIN Kept(format, docs), NEW k \in DOMAIN Kept(format, docs)[i],
           Kept(format, docs)[i][k] # NullValue
    PROVE  /\ k \in DOMAIN Migration!RowsOf(format, docs)[i]
           /\ Migration!RowsOf(format, docs)[i][k] = Migration!Str(Kept(format, docs)[i][k].text)
<1>1. CASE format = "csv"
  <2>1. Kept(format, docs) = docs /\ i \in DOMAIN docs  BY <1>1 DEF Kept
  <2>2. /\ Migration!RowsOf(format, docs)[i] =
              [c \in Migration!Header(docs) |->
                 IF c \in DOMAIN docs[i] /\ docs[i][c] # NullValue
                 THEN Migration!Str(Migration!Text(docs[i][c])) ELSE Migration!Str("")]
        /\ Kept(format, docs) = docs
    <3>1. Migration!RowsOf(format, docs) = Migration!CsvRows(docs)  BY <1>1, RowsByFormat
    <3> QED  BY <2>1, <3>1, Zenon DEF Migration!CsvRows
  <2>3. k \in Migration!Header(docs)  BY <2>2, Zenon DEF Migration!Header
  <2> QED  BY <2>2, <2>3, Zenon DEF Migration!Text
<1>2. CASE format = "xml"
  <2>1. /\ Migration!RowsOf(format, docs)[i] =
              [c \in DOMAIN docs[i] |-> Migration!Str(Migration!Text(docs[i][c]))]
        /\ Kept(format, docs) = docs
    BY <1>2, RowsByFormat DEF Kept, Migration!XmlRows
  <2> QED  BY <2>1 DEF Migration!Text
<1>3. CASE format = "sql"
  <2> DEFINE K == Migration!WithValues(docs)
  <2>1. /\ Migration!RowsOf(format, docs)[i] =
              [c \in Migration!Filled(K[i]) |-> Migration!Str(Migration!Text(K[i][c]))]
        /\ Kept(format, docs) = K
    BY <1>3, RowsByFormat DEF Kept, Migration!SqlRows
  <2>2. k \in Migration!Filled(K[i])  BY <2>1 DEF Migration!Filled
  <2> HIDE DEF K
  <2> QED  BY <2>1, <2>2 DEF Migration!Text
<1> QED  BY <1>1, <1>2, <1>3

(* What a file and an import hold of the collection. *)
FileHolds ==
    file # Migration!NoFile =>
       /\ file.tool \in DOMAIN Migration!Tools /\ file.format \in Migration!Tools[file.tool]
       /\ IsSequence(file.rows)
       /\ file.whole => file.rows = Migration!RowsOf(file.format, source)
ImportReads ==
    job # Migration!NoJob =>
       /\ file # Migration!NoFile /\ job.at >= 1
       /\ job.tool \in DOMAIN Migration!Tools /\ job.format \in Migration!Tools[job.tool]
       /\ job.clean /\ job.tool = job.from => job.rows = ReadBack(job.tool, job.format, source)

MigrationInv ==
    /\ ImportInv /\ source \in Seq(Migration!Docs) /\ FileHolds /\ ImportReads

(* What a finished import without a failure has added is what the file read  *)
(* back as.                                                                  *)
LEMMA FinishedHasAll ==
    ASSUME MigrationInv, Migration!Finished
    PROVE  /\ job.tool \in DOMAIN Migration!Tools /\ job.format \in Migration!Tools[job.tool]
           /\ Migration!New = ReadBack(job.tool, job.format, source)
<1>1. /\ job # Migration!NoJob /\ job.clean /\ job.tool = job.from
      /\ ~(job.at \in 1..Len(job.rows))
  BY DEF Migration!Finished, Migration!Running
<1>2. /\ job.at >= 1
      /\ job.tool \in DOMAIN Migration!Tools /\ job.format \in Migration!Tools[job.tool]
      /\ job.rows = ReadBack(job.tool, job.format, source)
  BY <1>1 DEF MigrationInv, ImportReads
<1>3. /\ IsSequence(target) /\ IsSequence(job.rows)
      /\ job.at \in 0..(Len(job.rows) + 1) /\ job.before \in 0..Len(target)
      /\ Len(target) - job.before = job.at - 1
      /\ \A i \in 1..(job.at - 1) : target[job.before + i] = job.rows[i]
  BY <1>1 DEF MigrationInv, ImportInv, AllTaken
<1>4. /\ DOMAIN job.rows = 1..Len(job.rows) /\ Len(job.rows) \in Nat /\ Len(target) \in Nat
  BY <1>3, SequenceGrows
<1>5. job.at = Len(job.rows) + 1  BY <1>1, <1>2, <1>3, <1>4
<1>6. Len(target) - job.before = Len(job.rows) /\ \A i \in 1..Len(job.rows) : target[job.before + i] = job.rows[i]
  BY <1>3, <1>4, <1>5
<1>7. Migration!New = job.rows
  <2>1. PICK S : target \in Seq(S)  BY <1>3 DEF IsSequence
  <2>2. PICK T : job.rows \in Seq(T)  BY <1>3 DEF IsSequence
  <2>3. job.before + 1 \in 1..(Len(target) + 1) /\ job.before \in Nat  BY <1>3, <1>4
  <2>4. Migration!New = [i \in 1..(Len(target) - job.before) |-> target[job.before + i]]
    BY <2>1, <2>3, <1>4 DEF Migration!New
  <2>5. Migration!New = [i \in 1..Len(job.rows) |-> target[job.before + i]]  BY <1>6, <2>4
  <2>6. Migration!New = [i \in 1..Len(job.rows) |-> job.rows[i]]  BY <1>6, <2>5
  <2> QED  BY <2>2, <2>6
<1> QED  BY <1>2, <1>7

LEMMA CountsAndOrder ==
    ASSUME MigrationInv
    PROVE  Migration!CountIsStored /\ Migration!NoneTwice
<1>1. TakenInOrder /\ Len(target) - job.before = job.count + lost
  BY DEF MigrationInv, ImportInv
<1>2. Migration!NoneTwice
  <2> SUFFICES ASSUME NEW i \in 1..(Len(target) - job.before),
                      NEW j \in 1..(Len(target) - job.before), i < j
               PROVE  \E x, y \in DOMAIN job.rows :
                         x < y /\ target[job.before + i] = job.rows[x]
                               /\ target[job.before + j] = job.rows[y]
    BY DEF Migration!NoneTwice
  <2> QED  BY <1>1, Zenon DEF TakenInOrder
<1> QED  BY <1>1, <1>2 DEF Migration!CountIsStored

(* Reading a text and writing it again: nothing reads as a null.             *)
LEMMA ReadingSettles ==
    ASSUME NEW txt, \/ txt = "" \/ \E v \in MigratedValues : txt = v.text
    PROVE  /\ ReadAs("") = NullValue
           /\ ReadAs(txt) # NullValue => txt # "" /\ ReadAs(ReadAs(txt).text) = ReadAs(txt)
BY MigrationAssumption, Zenon

LEMMA TripKeeps == ASSUME MigrationInv PROVE Migration!TripKeepsValues
<1> SUFFICES ASSUME Migration!Finished
             PROVE  /\ Len(Migration!New) = Len(Kept(job.format, source))
                    /\ \A i \in DOMAIN Kept(job.format, source) :
                       \A k \in DOMAIN Kept(job.format, source)[i] :
                          Migration!Plain(Kept(job.format, source)[i][k]) =>
                             /\ k \in DOMAIN Migration!New[i]
                             /\ Migration!New[i][k].text = Kept(job.format, source)[i][k].text
                             /\ job.tool = "importer" =>
                                   Migration!New[i][k] = Kept(job.format, source)[i][k]
  BY Zenon DEF Migration!TripKeepsValues, Kept, Migration!Text
<1>1. PICK docs : docs = source  OBVIOUS
<1>2. PICK tool, format : tool = job.tool /\ format = job.format  OBVIOUS
<1>3. /\ \/ tool = "importer" /\ format \in {"csv", "xml", "sql"}
         \/ tool = "migration" /\ format \in {"json", "xml"}
      /\ Migration!New = ReadBack(tool, format, docs)
  BY <1>1, <1>2, FinishedHasAll, ToolFormats
<1>4. IsSequence(docs)  BY <1>1 DEF MigrationInv, IsSequence
<1>5. /\ Len(Migration!New) = Len(Kept(format, docs))
      /\ DOMAIN Migration!RowsOf(format, docs) = DOMAIN Kept(format, docs)
  BY <1>3, <1>4, ReadBackIsSequence, OneRowEach
<1>6. ASSUME NEW i \in DOMAIN Kept(format, docs), NEW k \in DOMAIN Kept(format, docs)[i],
             Migration!Plain(Kept(format, docs)[i][k])
      PROVE  /\ k \in DOMAIN Migration!New[i]
             /\ Migration!New[i][k].text = Kept(format, docs)[i][k].text
             /\ tool = "importer" => Migration!New[i][k] = Kept(format, docs)[i][k]
  <2>1. PICK v : v = Kept(format, docs)[i][k]  OBVIOUS
  <2>2. v # NullValue /\ ReadAs(v.text) = v  BY <1>6, <2>1 DEF Migration!Plain, Migration!Text
  <2>3. PICK row : row = Migration!RowsOf(format, docs)[i]  OBVIOUS
  <2>4. Migration!New[i] = Migration!ReadRow(tool, format, row)  BY <1>3, <1>5, <2>3 DEF ReadBack
  <2>5. CASE format = "json"
    <3>1. row = docs[i] /\ Kept(format, docs) = docs  BY <2>3, <2>5, RowsByFormat DEF Kept
    <3>2. Migration!New[i] = row /\ tool = "migration"
      BY <1>3, <2>4, <2>5 DEF Migration!ReadRow
    <3> QED  BY <3>1, <3>2
  <2>6. CASE format # "json"
    <3>1. k \in DOMAIN row /\ row[k] = Migration!Str(v.text)
      BY <1>3, <1>4, <2>1, <2>2, <2>3, <2>6, ValueReadBack
    <3>2. row[k].text = v.text  BY <3>1 DEF Migration!Str
    <3>3. CASE tool = "importer"
      <4>1. Migration!New[i] = [c \in DOMAIN row |-> ReadAs(row[c].text)]
        BY <2>4, <3>3 DEF Migration!ReadRow, Migration!Text
      <4> QED  BY <2>1, <2>2, <3>1, <3>2, <4>1
    <3>4. CASE tool = "migration"
      <4>1. Migration!New[i] = [c \in DOMAIN row |-> IF row[c].text = "" THEN NullValue ELSE row[c]]
        BY <1>3, <2>4, <2>6, <3>4, Zenon DEF Migration!ReadRow, Migration!Text
      <4>2. v.text # ""  BY <2>2, MigrationAssumption, Zenon
      <4>3. k \in DOMAIN Migration!New[i] /\ Migration!New[i][k] = row[k]  BY <3>1, <3>2, <4>1, <4>2, Zenon
      <4> QED  BY <2>1, <3>2, <3>4, <4>3
    <3> QED  BY <1>3, <3>3, <3>4
  <2> QED  BY <2>5, <2>6
<1> QED  BY <1>1, <1>2, <1>5, <1>6

(* What a trip through CSV or SQL gives under a key: what a text was read as,*)
(* and of a CSV file every document has the same keys.                       *)
LEMMA TripGives ==
    ASSUME NEW docs \in Seq(Migration!Docs), NEW format \in {"csv", "sql"},
           NEW i \in DOMAIN ReadBack("importer", format, docs)
    PROVE  /\ \A k \in DOMAIN ReadBack("importer", format, docs)[i] :
                \E txt : /\ \/ txt = "" \/ \E v \in MigratedValues : txt = v.text
                         /\ ReadBack("importer", format, docs)[i][k] = ReadAs(txt)
           /\ format = "csv" => DOMAIN ReadBack("importer", format, docs)[i] = Migration!Header(docs)
<1> DEFINE R == Migration!RowsOf(format, docs)
           K == Kept(format, docs)
<1>1. IsSequence(docs)  BY DEF IsSequence
<1>2. ReadBack("importer", format, docs)[i] = [c \in DOMAIN R[i] |-> ReadAs(R[i][c].text)]
  BY DEF ReadBack, Migration!ReadRow, Migration!Text
<1>3. i \in DOMAIN K /\ DOMAIN R = DOMAIN K  BY <1>1, ReadBackIsSequence, OneRowEach
<1>4. K[i] \in Migration!Docs
  <2> HIDE DEF K
  <2> QED  BY <1>3, KeptIsOfDocuments DEF K
<1>5. \A c \in DOMAIN K[i] : K[i][c] \in MigratedValues
  <2> HIDE DEF K
  <2> QED  BY <1>4 DEF Migration!Docs
<1>6. CASE format = "csv"
  <2>1. K = docs /\ R = Migration!CsvRows(docs)  BY <1>6, RowsByFormat DEF Kept
  <2>2. R[i] = [c \in Migration!Header(docs) |->
                  IF c \in DOMAIN docs[i] /\ docs[i][c] # NullValue
                  THEN Migration!Str(Migration!Text(docs[i][c])) ELSE Migration!Str("")]
    <3> HIDE DEF K, R
    <3> QED  BY <1>3, <2>1, Zenon DEF Migration!CsvRows
  <2>3. \A c \in DOMAIN R[i] : \/ R[i][c].text = ""
                               \/ c \in DOMAIN docs[i] /\ R[i][c].text = docs[i][c].text
    <3> SUFFICES ASSUME NEW c \in DOMAIN R[i]
                 PROVE  \/ R[i][c].text = ""
                        \/ c \in DOMAIN docs[i] /\ R[i][c].text = docs[i][c].text
      BY Zenon
    <3> HIDE DEF R
    <3>1. R[i][c] = IF c \in DOMAIN docs[i] /\ docs[i][c] # NullValue
                    THEN Migration!Str(Migration!Text(docs[i][c])) ELSE Migration!Str("")
      BY <2>2, Zenon
    <3>2. \A x : Migration!Str(x).text = x  BY DEF Migration!Str
    <3> QED  BY <3>1, <3>2, Zenon DEF Migration!Text
  <2>4. \A c \in DOMAIN docs[i] : docs[i][c] \in MigratedValues  BY <1>5, <2>1
  <2>5. DOMAIN ReadBack("importer", format, docs)[i] = Migration!Header(docs)  BY <1>2, <2>2, Zenon
  <2> HIDE DEF K, R
  <2>6. ASSUME NEW c \in DOMAIN ReadBack("importer", format, docs)[i]
        PROVE  \E txt : /\ \/ txt = "" \/ \E v \in MigratedValues : txt = v.text
                        /\ ReadBack("importer", format, docs)[i][c] = ReadAs(txt)
    <3>1. c \in DOMAIN R[i] /\ ReadBack("importer", format, docs)[i][c] = ReadAs(R[i][c].text)
      BY <1>2, <2>6
    <3>2. PICK txt : txt = R[i][c].text  OBVIOUS
    <3>3. txt = "" \/ \E v \in MigratedValues : txt = v.text  BY <2>3, <2>4, <3>1, <3>2, Zenon
    <3> QED  BY <3>1, <3>2, <3>3, Zenon
  <2> QED  BY <2>5, <2>6, Zenon
<1>7. CASE format = "sql"
  <2>1. R = Migration!SqlRows(docs) /\ K = Migration!WithValues(docs)  BY <1>7, RowsByFormat DEF Kept
  <2>2. R[i] = [c \in Migration!Filled(K[i]) |-> Migration!Str(Migration!Text(K[i][c]))]
    <3> HIDE DEF K, R
    <3> QED  BY <1>3, <2>1 DEF Migration!SqlRows
  <2>3. \A c \in DOMAIN R[i] : c \in DOMAIN K[i] /\ R[i][c].text = K[i][c].text
    <3> HIDE DEF R, K
    <3> QED  BY <2>2 DEF Migration!Str, Migration!Text, Migration!Filled
  <2> HIDE DEF K, R
  <2> QED  BY <1>2, <1>5, <1>7, <2>3, Zenon
<1> QED  BY <1>6, <1>7, Zenon

LEMMA TripSettled == ASSUME MigrationInv PROVE Migration!TripSettles
<1> SUFFICES ASSUME Migration!Finished, job.format \in {"csv", "sql"},
                    NEW i \in DOMAIN Migration!RowsOf(job.format, Migration!New),
                    NEW k \in DOMAIN Migration!RowsOf(job.format, Migration!New)[i]
             PROVE  Migration!ReadRow("importer", job.format,
                                      Migration!RowsOf(job.format, Migration!New)[i])[k]
                      = Kept(job.format, Migration!New)[i][k]
  BY Zenon DEF Migration!TripSettles, Kept
<1>1. PICK docs, format : docs = source /\ format = job.format  OBVIOUS
<1>2. PICK B : B = ReadBack("importer", format, docs)  OBVIOUS
<1>3. Migration!New = B /\ docs \in Seq(Migration!Docs) /\ format \in {"csv", "sql"}
  <2>1. job.tool = "importer"  BY FinishedHasAll, ToolFormats
  <2> QED  BY <1>1, <1>2, <2>1, FinishedHasAll DEF MigrationInv
<1>4. IsSequence(B) /\ DOMAIN B = DOMAIN Kept(format, docs)
  <2>1. IsSequence(docs)  BY <1>3 DEF IsSequence
  <2> QED  BY <1>2, <1>3, <2>1, ReadBackIsSequence
<1>5. PICK row : row = Migration!RowsOf(format, B)[i]  OBVIOUS
<1>6. Migration!ReadRow("importer", format, row)[k] = ReadAs(row[k].text) /\ k \in DOMAIN row
  BY <1>1, <1>3, <1>5 DEF Migration!ReadRow, Migration!Text
<1>7. /\ i \in DOMAIN Kept(format, B)  
  BY <1>1, <1>3, <1>4, OneRowEach
(* The documents of the import, each key's value being what a text was read as. *)
<1>8. \A j \in DOMAIN B : \A c \in DOMAIN B[j] : B[j][c] # NullValue => ReadAs(B[j][c].text) = B[j][c]
  <2> SUFFICES ASSUME NEW j \in DOMAIN B, NEW c \in DOMAIN B[j], B[j][c] # NullValue
               PROVE  ReadAs(B[j][c].text) = B[j][c]
    OBVIOUS
  <2>1. PICK txt : /\ \/ txt = "" \/ \E v \in MigratedValues : txt = v.text
                   /\ B[j][c] = ReadAs(txt)
    BY <1>2, <1>3, TripGives, Zenon
  <2> QED  BY <2>1, ReadingSettles, Zenon
<1>9. CASE format = "csv"
  <2>1. Kept(format, B) = B /\ Migration!RowsOf(format, B) = Migration!CsvRows(B)
    BY <1>9, RowsByFormat DEF Kept
  <2>2. row = [c \in Migration!Header(B) |->
                 IF c \in DOMAIN B[i] /\ B[i][c] # NullValue
                 THEN Migration!Str(Migration!Text(B[i][c])) ELSE Migration!Str("")]
    BY <1>5, <1>7, <2>1, Zenon DEF Migration!CsvRows
  <2>3. k \in Migration!Header(B)  BY <1>6, <2>2, Zenon
  <2>4. k \in DOMAIN B[i]
    <3>1. PICK j \in DOMAIN B : k \in DOMAIN B[j]  BY <2>3 DEF Migration!Header
    <3>2. DOMAIN B[j] = Migration!Header(docs)  BY <1>2, <1>3, <1>9, TripGives, Zenon
    <3>3. DOMAIN B[i] = Migration!Header(docs)  BY <1>2, <1>3, <1>7, <1>9, <2>1, TripGives, Zenon
    <3> QED  BY <3>1, <3>2, <3>3
  <2>5. \A x : Migration!Str(x).text = x  BY DEF Migration!Str
  <2>6. CASE B[i][k] # NullValue
    <3>1. row[k] = Migration!Str(B[i][k].text)  BY <2>2, <2>3, <2>4, <2>6, Zenon DEF Migration!Text
    <3>2. row[k].text = B[i][k].text  BY <2>5, <3>1
    <3> QED  BY <1>1, <1>3, <1>5, <1>6, <1>7, <1>8, <2>1, <2>4, <2>6, <3>2
  <2>7. CASE B[i][k] = NullValue
    <3>1. row[k].text = ""  BY <2>2, <2>3, <2>5, <2>7, Zenon
    <3>2. ReadAs(row[k].text) = NullValue  BY <3>1, MigrationAssumption, Zenon
    <3> QED  BY <1>1, <1>3, <1>5, <1>6, <2>1, <2>7, <3>2
  <2> QED  BY <2>6, <2>7
<1>10. CASE format = "sql"
  <2>1. PICK K : K = Migration!WithValues(B)  OBVIOUS
  <2>2. Kept(format, B) = K /\ Migration!RowsOf(format, B) = Migration!SqlRows(B)
    BY <1>10, <2>1, RowsByFormat DEF Kept
  <2>3. row = [c \in Migration!Filled(K[i]) |-> Migration!Str(Migration!Text(K[i][c]))]
    BY <1>5, <1>7, <2>1, <2>2 DEF Migration!SqlRows
  <2>4. k \in DOMAIN K[i] /\ K[i][k] # NullValue /\ row[k].text = K[i][k].text
    BY <1>6, <2>3 DEF Migration!Filled, Migration!Str, Migration!Text
  <2>5. PICK j \in DOMAIN B : K[i] = B[j]  BY <1>4, <1>7, <2>1, <2>2, ValuesAreOfDocuments
  <2>6. ReadAs(K[i][k].text) = K[i][k]  BY <1>8, <2>4, <2>5
  <2> QED  BY <1>1, <1>3, <1>5, <1>6, <2>2, <2>4, <2>6
<1> QED  BY <1>3, <1>9, <1>10

(* Steps of the import leave what the file and the import are about alone.   *)
LEMMA ImportMoves ==
    ASSUME MigrationInv, job.at \in DOMAIN job.rows, ImportInv', UNCHANGED <<source, file>>,
           job'.tool = job.tool, job'.from = job.from, job'.format = job.format,
           job'.rows = job.rows, job'.at >= 1, job'.clean => job.clean
    PROVE  MigrationInv'
<1>1. FileHolds /\ ImportReads /\ source \in Seq(Migration!Docs)  BY DEF MigrationInv
<1>2. FileHolds'  BY <1>1 DEF FileHolds
<1>3. job # Migration!NoJob
  <2>1. CASE job = Migration!NoJob
    <3>1. job.rows = <<>>  BY <2>1 DEF Migration!NoJob
    <3> QED  BY <3>1
  <2> QED  BY <2>1
<1>4. ImportReads'
  <2>1. /\ file # Migration!NoFile
        /\ job.tool \in DOMAIN Migration!Tools /\ job.format \in Migration!Tools[job.tool]
        /\ job.clean /\ job.tool = job.from => job.rows = ReadBack(job.tool, job.format, source)
    BY <1>1, <1>3 DEF ImportReads
  <2>2. /\ file' # Migration!NoFile /\ job'.at >= 1
        /\ job'.tool \in DOMAIN Migration!Tools /\ job'.format \in Migration!Tools[job'.tool]
    BY <2>1, Zenon
  <2>3. job'.clean /\ job'.tool = job'.from => job'.rows = ReadBack(job'.tool, job'.format, source')
    <3>1. ReadBack(job'.tool, job'.format, source') = ReadBack(job.tool, job.format, source)
      BY DEF ReadBack
    <3> QED  BY <2>1, <3>1, Zenon
  <2> QED  BY <2>2, <2>3, Zenon DEF ImportReads
<1> QED  BY <1>1, <1>2, <1>4 DEF MigrationInv

LEMMA InsertKeeps == ASSUME MigrationInv, Migration!Insert PROVE MigrationInv'
<1>1. file = Migration!NoFile /\ UNCHANGED <<file, target, job, lost>>  BY DEF Migration!Insert
<1>2. source' \in Seq(Migration!Docs)
  <2>1. PICK d \in Migration!Docs : source' = Append(source, d)  BY DEF Migration!Insert
  <2> HIDE DEF Migration!Docs
  <2> QED  BY <2>1 DEF MigrationInv
<1>3. FileHolds'  BY <1>1 DEF FileHolds
<1>4. job = Migration!NoJob  BY <1>1 DEF MigrationInv, ImportReads
<1>5. ImportReads'  BY <1>1, <1>4 DEF ImportReads
<1>6. ImportInv'  BY <1>1 DEF MigrationInv, ImportInv, TakenInOrder, AllTaken, JobShape
<1> QED  BY <1>2, <1>3, <1>5, <1>6 DEF MigrationInv

LEMMA ExportKeeps == ASSUME MigrationInv, Migration!Export PROVE MigrationInv'
<1>1. PICK tool \in DOMAIN Migration!Tools : \E format \in Migration!Tools[tool] : \E written :
        /\ written = Migration!RowsOf(format, source)
        /\ \/ file' = [tool |-> tool, format |-> format, rows |-> written, whole |-> TRUE]
           \/ \E n \in 0..Len(written) :
                file' = [tool |-> tool, format |-> format, rows |-> SubSeq(written, 1, n), whole |-> FALSE]
  BY DEF Migration!Export
<1>2. PICK format \in Migration!Tools[tool] : \E written :
        /\ written = Migration!RowsOf(format, source)
        /\ \/ file' = [tool |-> tool, format |-> format, rows |-> written, whole |-> TRUE]
           \/ \E n \in 0..Len(written) :
                file' = [tool |-> tool, format |-> format, rows |-> SubSeq(written, 1, n), whole |-> FALSE]
  BY <1>1
<1>3. PICK written :
        /\ written = Migration!RowsOf(format, source)
        /\ \/ file' = [tool |-> tool, format |-> format, rows |-> written, whole |-> TRUE]
           \/ \E n \in 0..Len(written) :
                file' = [tool |-> tool, format |-> format, rows |-> SubSeq(written, 1, n), whole |-> FALSE]
  BY <1>2
<1>4. UNCHANGED <<source, target, job, lost>>  BY DEF Migration!Export
<1>5. /\ format \in {"csv", "xml", "sql", "json"} /\ tool # "none"  BY ToolFormats
<1>6. IsSequence(source)  BY DEF MigrationInv, IsSequence
<1>7. IsSequence(written)  BY <1>3, <1>5, <1>6, OneRowEach
<1>8. file'.tool = tool /\ file'.format = format
  BY <1>3
<1>9. IsSequence(file'.rows)
  <2>1. CASE file' = [tool |-> tool, format |-> format, rows |-> written, whole |-> TRUE]
    BY <1>7, <2>1
  <2>2. ASSUME NEW n \in 0..Len(written),
               file' = [tool |-> tool, format |-> format, rows |-> SubSeq(written, 1, n), whole |-> FALSE]
        PROVE  IsSequence(file'.rows)
    <3>1. PICK S : written \in Seq(S)  BY <1>7 DEF IsSequence
    <3>2. SubSeq(written, 1, n) \in Seq(S)  BY <3>1
    <3> QED  BY <2>2, <3>2, Zenon DEF IsSequence
  <2> QED  BY <1>3, <2>1, <2>2
<1>10. file'.whole => file'.rows = written
  <2>1. CASE file' = [tool |-> tool, format |-> format, rows |-> written, whole |-> TRUE]
    BY <2>1
  <2>2. ASSUME NEW n \in 0..Len(written),
               file' = [tool |-> tool, format |-> format, rows |-> SubSeq(written, 1, n), whole |-> FALSE]
        PROVE  ~file'.whole
    BY <2>2
  <2> QED  BY <1>3, <2>1, <2>2
<1>11. file' # Migration!NoFile  BY <1>5, <1>8 DEF Migration!NoFile
<1>12. FileHolds'
  <2>1. file'.whole => file'.rows = Migration!RowsOf(file'.format, source')  BY <1>3, <1>4, <1>8, <1>10, Zenon
  <2> QED  BY <1>8, <1>9, <2>1, Zenon DEF FileHolds
<1>13. ImportReads'
  <2>1. job # Migration!NoJob =>
          /\ job.at >= 1
          /\ job.tool \in DOMAIN Migration!Tools /\ job.format \in Migration!Tools[job.tool]
          /\ job.clean /\ job.tool = job.from => job.rows = ReadBack(job.tool, job.format, source)
    BY DEF MigrationInv, ImportReads
  <2>2. \A t, f : ReadBack(t, f, source') = ReadBack(t, f, source)  BY <1>4 DEF ReadBack
  <2> QED  BY <1>4, <1>11, <2>1, <2>2, Zenon DEF ImportReads
<1>14. ImportInv'  BY <1>4 DEF MigrationInv, ImportInv, TakenInOrder, AllTaken, JobShape
<1> QED  BY <1>4, <1>12, <1>13, <1>14 DEF MigrationInv

LEMMA StartKeeps == ASSUME MigrationInv, Migration!StartImport PROVE MigrationInv'
<1>1. PICK tool \in DOMAIN Migration!Tools : \E entries : 
        /\ Migration!Readable(tool, file) /\ entries = Migration!RowsRead(tool, file)
        /\ job' = [tool |-> tool, from |-> file.tool, format |-> file.format,
                   rows |-> [i \in DOMAIN entries |-> Migration!ReadRow(tool, file.format, entries[i])],
                   at |-> 1, count |-> 0, before |-> Len(target), clean |-> file.whole]
  BY Zenon DEF Migration!StartImport
<1>2. PICK entries :
        /\ Migration!Readable(tool, file) /\ entries = Migration!RowsRead(tool, file)
        /\ job' = [tool |-> tool, from |-> file.tool, format |-> file.format,
                   rows |-> [i \in DOMAIN entries |-> Migration!ReadRow(tool, file.format, entries[i])],
                   at |-> 1, count |-> 0, before |-> Len(target), clean |-> file.whole]
  BY <1>1, Zenon
<1>3. UNCHANGED <<source, file, target>> /\ lost' = 0  BY DEF Migration!StartImport
<1>4. file.format \in Migration!Tools[tool]  BY <1>2 DEF Migration!Readable
<1>5. file # Migration!NoFile
  <2>1. file.format # "none"  BY <1>4, ToolFormats
  <2> QED  BY <2>1 DEF Migration!NoFile
<1>6. /\ IsSequence(file.rows)
      /\ file.whole => file.rows = Migration!RowsOf(file.format, source)
  BY <1>5 DEF MigrationInv, FileHolds
<1>7. /\ IsSequence(entries)
      /\ tool = file.tool => entries = file.rows
  <2>1. <<>> \in Seq({})  OBVIOUS
  <2>2. IsSequence(<<>>)  BY <2>1 DEF IsSequence
  <2> QED  BY <1>2, <1>6, <2>2 DEF Migration!RowsRead
<1>8. DOMAIN entries = 1..Len(entries) /\ Len(entries) \in Nat  BY <1>7, SequenceGrows
<1>9. PICK back : back = [i \in DOMAIN entries |-> Migration!ReadRow(tool, file.format, entries[i])]  BY Zenon
<1>10. /\ job'.tool = tool /\ job'.from = file.tool /\ job'.format = file.format
       /\ job'.rows = back
  BY <1>2, <1>9
<1>11. /\ job'.at = 1 /\ job'.count = 0 /\ job'.before = Len(target) /\ JobShape'
  BY <1>2 DEF JobShape
<1>12. job'.clean => file.whole  BY <1>2
<1>13. IsSequence(back)
  <2>1. back = [i \in 1..Len(entries) |-> back[i]]  BY <1>8, <1>9
  <2> QED  BY <1>8, <2>1, ListIsSequence
<1>14. IsSequence(target) /\ Len(target) \in Nat
  BY SequenceGrows DEF MigrationInv, ImportInv
<1>15. ImportInv'
  <2>1. Len(target') - job'.before = 0  BY <1>3, <1>11, <1>14
  <2>2. TakenInOrder'
    <3>1. \A i \in 1..(Len(target') - job'.before) : FALSE  BY <2>1
    <3> QED  BY <3>1, Zenon DEF TakenInOrder
  <2>3. AllTaken'
    <3>1. Len(target') - job'.before = job'.at - 1 /\ \A i \in 1..(job'.at - 1) : FALSE
      BY <1>11, <2>1
    <3> QED  BY <3>1, Zenon DEF AllTaken
  <2>4. job'.at \in 0..(Len(job'.rows) + 1)  BY <1>10, <1>11, <1>13, SequenceGrows
  <2>5. job'.before \in 0..Len(target')  BY <1>3, <1>11, <1>14
  <2> QED  BY <1>3, <1>10, <1>11, <1>13, <1>14, <2>1, <2>2, <2>3, <2>4, <2>5 DEF ImportInv
<1>16. FileHolds'  BY <1>3 DEF MigrationInv, FileHolds
<1>17. ImportReads'
  <2>1. ASSUME job'.clean, job'.tool = job'.from
        PROVE  job'.rows = ReadBack(job'.tool, job'.format, source')
    <3>1. entries = Migration!RowsOf(file.format, source)
      <4>1. tool = file.tool  BY <1>10, <2>1
      <4>2. file.whole  BY <1>12, <2>1
      <4>3. file.rows = Migration!RowsOf(file.format, source)  BY <1>6, <4>2
      <4> QED  BY <1>7, <4>1, <4>3, Zenon
    <3>2. back = ReadBack(tool, file.format, source)  BY <1>9, <3>1, Zenon DEF ReadBack
    <3>3. source' = source  BY <1>3
    <3> QED  BY <1>10, <3>2, <3>3, Zenon
  <2>2. job'.at >= 1  BY <1>11
  <2>3. /\ file' # Migration!NoFile
        /\ job'.tool \in DOMAIN Migration!Tools /\ job'.format \in Migration!Tools[job'.tool]
    BY <1>3, <1>4, <1>5, <1>10
  <2> QED  BY <2>1, <2>2, <2>3, Zenon DEF ImportReads
<1> QED  BY <1>3, <1>15, <1>16, <1>17 DEF MigrationInv

LEMMA MigrationNext == MigrationInv /\ [Migration!Next]_(Migration!vars) => MigrationInv'
<1> SUFFICES ASSUME MigrationInv, Migration!Next \/ UNCHANGED Migration!vars PROVE MigrationInv'
  OBVIOUS
<1>1. /\ ImportInv /\ JobShape /\ IsSequence(job.rows) /\ job.at \in 0..(Len(job.rows) + 1)
      /\ job.count \in Nat /\ lost \in Nat
  BY DEF MigrationInv, ImportInv
<1>2. DOMAIN job.rows = 1..Len(job.rows) /\ Len(job.rows) \in Nat  BY <1>1, SequenceGrows
<1>3. CASE Migration!Posted
  <2>1. /\ job.at \in DOMAIN job.rows /\ target' = Append(target, job.rows[job.at])
        /\ job' = Migration!Advance(1) /\ UNCHANGED <<source, file, lost>>
    BY <1>2, <1>3 DEF Migration!Posted, Migration!Running
  <2>2. /\ JobShape'
        /\ job'.tool = job.tool /\ job'.from = job.from /\ job'.format = job.format
        /\ job'.rows = job.rows /\ job'.before = job.before
        /\ job'.at = job.at + 1 /\ job'.count = job.count + 1
        /\ job'.clean => job.clean
    BY <1>1, <2>1, Advanced
  <2>3. job'.at \in (job.at + 1)..(Len(job.rows) + 1) /\ job'.at >= 1  BY <1>2, <2>1, <2>2
  <2>4. job'.count \in Nat /\ lost' \in Nat /\ job'.count + lost' = job.count + lost + 1
    BY <1>1, <2>1, <2>2
  <2>5. ImportInv'  BY <1>1, <2>1, <2>2, <2>3, <2>4, DocumentStored
  <2> QED  BY <2>1, <2>2, <2>3, <2>5, ImportMoves
<1>4. CASE Migration!PostFailed
  <2>1. /\ job.at \in DOMAIN job.rows /\ UNCHANGED <<source, file>>
        /\ \/ target' = Append(target, job.rows[job.at]) /\ lost' = lost + 1
           \/ target' = target /\ lost' = lost
        /\ \/ job' = [Migration!Advance(0) EXCEPT !.at = Len(job.rows) + 1]
           \/ job' = Migration!Advance(0)
    BY <1>2, <1>4 DEF Migration!PostFailed, Migration!Running
  <2>2. /\ JobShape'
        /\ job'.tool = job.tool /\ job'.from = job.from /\ job'.format = job.format
        /\ job'.rows = job.rows /\ job'.before = job.before
        /\ job'.at \in {job.at + 1, Len(job.rows) + 1} /\ job'.count = job.count
        /\ ~job'.clean
    <3>1. PICK after : after = Migration!Advance(0)  OBVIOUS
    <3>2. /\ DOMAIN after = {"tool", "from", "format", "rows", "at", "count", "before", "clean"}
          /\ after.tool = job.tool /\ after.from = job.from /\ after.format = job.format
          /\ after.rows = job.rows /\ after.before = job.before
          /\ after.at = job.at + 1 /\ after.count = job.count
          /\ ~after.clean
      <4>1. after = [[[job EXCEPT !.at = @ + 1] EXCEPT !.count = @ + 0] EXCEPT !.clean = @ /\ 0 = 1]
        BY <3>1 DEF Migration!Advance
      <4>2. /\ DOMAIN after = {"tool", "from", "format", "rows", "at", "count", "before", "clean"}
            /\ after.tool = job.tool /\ after.from = job.from /\ after.format = job.format
            /\ after.rows = job.rows /\ after.before = job.before
        BY <1>1, <4>1 DEF JobShape
      <4>3. after.at = job.at + 1 /\ after.count = job.count + 0  BY <1>1, <4>1 DEF JobShape
      <4>4. after.clean = (job.clean /\ 0 = 1)  BY <1>1, <4>1 DEF JobShape
      <4>5. after.clean => 0 = 1  BY <4>4, Zenon
      <4>6. after.count = job.count  BY <1>1, <4>3
      <4> QED  BY <4>2, <4>3, <4>5, <4>6
    <3>3. CASE job' = after  BY <3>2, <3>3 DEF JobShape
    <3>4. CASE job' = [after EXCEPT !.at = Len(job.rows) + 1]  BY <3>2, <3>4 DEF JobShape
    <3> QED  BY <2>1, <3>1, <3>3, <3>4
  <2>3. job'.at \in (job.at + 1)..(Len(job.rows) + 1) /\ job'.at >= 1  BY <1>2, <2>1, <2>2
  <2>4. ImportInv'
    <3>1. CASE target' = Append(target, job.rows[job.at]) /\ lost' = lost + 1
      <4>1. job'.count \in Nat /\ lost' \in Nat /\ job'.count + lost' = job.count + lost + 1
        <5>1. job'.count = job.count /\ job.count \in Nat /\ lost \in Nat  BY <1>1, <2>2
        <5> QED  BY <3>1, <5>1
      <4> QED  BY <1>1, <2>1, <2>2, <2>3, <3>1, <4>1, DocumentStored
    <3>2. CASE target' = target /\ lost' = lost
      BY <1>1, <2>1, <2>2, <2>3, <3>2, DocumentSkipped
    <3> QED  BY <2>1, <3>1, <3>2
  <2> QED  BY <2>1, <2>2, <2>3, <2>4, ImportMoves
<1>5. CASE Migration!StatementSkipped
  <2>1. /\ job.at \in DOMAIN job.rows /\ job' = Migration!Advance(0)
        /\ UNCHANGED <<source, file, target, lost>>
    BY <1>2, <1>5 DEF Migration!StatementSkipped, Migration!Running
  <2>2. /\ JobShape'
        /\ job'.tool = job.tool /\ job'.from = job.from /\ job'.format = job.format
        /\ job'.rows = job.rows /\ job'.before = job.before
        /\ job'.at = job.at + 1 /\ job'.count = job.count + 0
        /\ ~job'.clean
    <3>1. job'.clean => 0 = 1  BY <1>1, <2>1, Advanced
    <3> QED  BY <1>1, <2>1, <3>1, Advanced
  <2>3. job'.at \in (job.at + 1)..(Len(job.rows) + 1) /\ job'.at >= 1 /\ job'.count = job.count
    BY <1>1, <1>2, <2>1, <2>2
  <2>4. ImportInv'  BY <1>1, <2>1, <2>2, <2>3, DocumentSkipped
  <2> QED  BY <2>1, <2>2, <2>3, <2>4, ImportMoves
<1>6. CASE UNCHANGED Migration!vars
  <2>1. UNCHANGED <<source, file, target, job, lost>>  BY <1>6 DEF Migration!vars
  <2>2. ImportInv'  BY <1>1, <2>1 DEF ImportInv, TakenInOrder, AllTaken, JobShape
  <2>3. FileHolds' /\ ImportReads'
    <3>1. FileHolds /\ ImportReads  BY DEF MigrationInv
    <3>2. \A t, f : ReadBack(t, f, source') = ReadBack(t, f, source)  BY <2>1 DEF ReadBack
    <3> QED  BY <2>1, <3>1, <3>2 DEF FileHolds, ImportReads
  <2> QED  BY <2>1, <2>2, <2>3 DEF MigrationInv
<1> QED  BY <1>3, <1>4, <1>5, <1>6, InsertKeeps, ExportKeeps, StartKeeps DEF Migration!Next

LEMMA MigrationHolds ==
    Migration!Init /\ [][Migration!Next]_(Migration!vars)
      => [](/\ Migration!CountIsStored /\ Migration!NoneTwice
            /\ Migration!TripKeepsValues /\ Migration!TripSettles)
<1>1. Migration!Init => MigrationInv
  <2> SUFFICES ASSUME Migration!Init PROVE MigrationInv  OBVIOUS
  <2>1. source = <<>> /\ file = Migration!NoFile /\ target = <<>> /\ job = Migration!NoJob /\ lost = 0
    BY DEF Migration!Init
  <2>2. <<>> \in Seq({}) /\ <<>> \in Seq(Migration!Docs) /\ Len(<<>>) = 0
    <3> HIDE DEF Migration!Docs
    <3> QED  OBVIOUS
  <2>3. /\ job.rows = <<>> /\ job.at = 0 /\ job.count = 0 /\ job.before = 0 /\ ~job.clean /\ JobShape
    BY <2>1 DEF Migration!NoJob, JobShape
  <2>4. IsSequence(target) /\ IsSequence(job.rows)  BY <2>1, <2>2, <2>3 DEF IsSequence
  <2>5. Len(target) - job.before = 0 /\ Len(target) = 0 /\ Len(job.rows) = 0  BY <2>1, <2>2, <2>3
  <2>6. TakenInOrder
    <3>1. \A i \in 1..(Len(target) - job.before) : FALSE  BY <2>5
    <3> QED  BY <3>1, Zenon DEF TakenInOrder
  <2>7. AllTaken  BY <2>3 DEF AllTaken
  <2>8. ImportInv  BY <2>1, <2>3, <2>4, <2>5, <2>6, <2>7 DEF ImportInv
  <2>9. FileHolds /\ ImportReads  BY <2>1 DEF FileHolds, ImportReads
  <2> QED  BY <2>1, <2>2, <2>8, <2>9 DEF MigrationInv
<1>2. MigrationInv => /\ Migration!CountIsStored /\ Migration!NoneTwice
                      /\ Migration!TripKeepsValues /\ Migration!TripSettles
  BY CountsAndOrder, TripKeeps, TripSettled
<1> QED  BY MigrationNext, <1>1, <1>2, PTL

-----------------------------------------------------------------------------
(*****************************************************************************)
(* Algorithmic generation, for any tokens, prompts, words, save intervals    *)
(* and number of calls and failures.  A call's counts are those of the       *)
(* tokens since its last save, which are fewer than an interval, and the     *)
(* file holds those of the tokens between the last save and one at most an   *)
(* interval earlier; what a call returns with follows from both.             *)
(*****************************************************************************)
(* Sequences that grow by one element. *)
LEMMA SubAppend ==
    ASSUME NEW S, NEW s \in Seq(S), NEW t \in S, NEW m \in 1..(Len(s) + 1)
    PROVE  /\ SubSeq(Append(s, t), m, Len(s) + 1) = Append(SubSeq(s, m, Len(s)), t)
           /\ \A n \in 0..Len(s) : SubSeq(Append(s, t), m, n) = SubSeq(s, m, n)
<1>1. SubSeq(Append(s, t), m, Len(s) + 1) = Append(SubSeq(s, m, Len(s)), t)  OBVIOUS
<1>2. ASSUME NEW n \in 0..Len(s) PROVE SubSeq(Append(s, t), m, n) = SubSeq(s, m, n)  OBVIOUS
<1> QED  BY <1>1, <1>2

(* A bag with one more of t. *)
More(f, t) == [e \in DOMAIN f \cup {t} |-> (IF e \in DOMAIN f THEN f[e] ELSE 0) + (IF e = t THEN 1 ELSE 0)]

(* The bag of a sequence that grows by t has one more of t. *)
LEMMA CountSteps ==
    ASSUME NEW S, NEW s \in Seq(S), NEW t \in S
    PROVE  Alg!Counted(Append(s, t)) = More(Alg!Counted(s), t)
<1> DEFINE At(q, e) == {i \in DOMAIN q : q[i] = e}
           w == Append(s, t)
<1>1. /\ DOMAIN w = 1..(Len(s) + 1) /\ DOMAIN s = 1..Len(s) /\ Len(s) \in Nat
      /\ w[Len(s) + 1] = t /\ \A i \in 1..Len(s) : w[i] = s[i]
  OBVIOUS
<1> HIDE DEF w
<1>2. /\ At(w, t) = At(s, t) \cup {Len(s) + 1} /\ Len(s) + 1 \notin At(s, t)
      /\ \A e : e # t => At(w, e) = At(s, e)
  <2>1. \A i : i \in 1..(Len(s) + 1) <=> i \in 1..Len(s) \/ i = Len(s) + 1  BY <1>1
  <2>2. Len(s) + 1 \notin 1..Len(s)  BY <1>1
  <2>3. At(w, t) = At(s, t) \cup {Len(s) + 1}  BY <1>1, <2>1, <2>2
  <2>4. \A e : e # t => At(w, e) = At(s, e)  BY <1>1, <2>1, <2>2
  <2> QED  BY <1>1, <2>2, <2>3, <2>4
<1>3. \A e : IsFiniteSet(At(s, e))
  <2> SUFFICES ASSUME NEW e PROVE IsFiniteSet(At(s, e))  BY Zenon
  <2>1. At(s, e) \subseteq 1..Len(s) /\ IsFiniteSet(1..Len(s))  BY <1>1, FS_Interval
  <2> QED  BY <2>1, FS_Subset
<1>4. Cardinality(At(w, t)) = Cardinality(At(s, t)) + 1 /\ Cardinality(At(s, t)) \in Nat
  <2>1. PICK C : C = At(s, t)  BY Zenon
  <2>2. IsFiniteSet(C) /\ Len(s) + 1 \notin C /\ At(w, t) = C \cup {Len(s) + 1}  BY <1>2, <1>3, <2>1, Zenon
  <2>3. Cardinality(C \cup {Len(s) + 1}) = Cardinality(C) + 1 /\ Cardinality(C) \in Nat
    BY <2>2, FS_AddElement, FS_CardinalityType
  <2> HIDE DEF At
  <2> QED  BY <2>1, <2>2, <2>3
<1> DEFINE Values(q) == {q[i] : i \in DOMAIN q}
<1>5. Values(w) = Values(s) \cup {t}
  <2>1. \A i : i \in 1..(Len(s) + 1) <=> i \in 1..Len(s) \/ i = Len(s) + 1  BY <1>1
  <2> QED  BY <1>1, <2>1
<1>6. t \notin Values(s) => Cardinality(At(s, t)) = 0
  <2>1. t \notin Values(s) => At(s, t) = {}  OBVIOUS
  <2> QED  BY <2>1, FS_EmptySet, Zenon
<1>7. \A q : Alg!Counted(q) = [e \in Values(q) |-> Cardinality(At(q, e))]
  <2>1. \A T : Alg!Cardinality(T) = Cardinality(T)  BY DEF Alg!Cardinality, Cardinality
  <2> QED  BY <2>1, Zenon DEF Alg!Counted, Alg!Range
<1> HIDE DEF At, Values
<1>9. \A e \in Values(w) : Cardinality(At(w, e)) =
          (IF e \in Values(s) THEN Cardinality(At(s, e)) ELSE 0) + (IF e = t THEN 1 ELSE 0)
  <2> SUFFICES ASSUME NEW e \in Values(w)
               PROVE  Cardinality(At(w, e)) =
                        (IF e \in Values(s) THEN Cardinality(At(s, e)) ELSE 0) + (IF e = t THEN 1 ELSE 0)
    OBVIOUS
  <2>1. CASE e = t
    <3>1. Cardinality(At(w, t)) = Cardinality(At(s, t)) + 1  BY <1>4
    <3> QED  BY <2>1, <3>1, <1>4, <1>6
  <2>2. CASE e # t
    <3>1. e \in Values(s) /\ At(w, e) = At(s, e)  BY <2>2, <1>5, <1>2
    <3>2. Cardinality(At(s, e)) \in Nat  BY <1>3, FS_CardinalityType
    <3> QED  BY <2>2, <3>1, <3>2
  <2> QED  BY <2>1, <2>2
<1>10. DOMAIN Alg!Counted(s) = Values(s)  BY <1>7
<1>11. Alg!Counted(w) =
          [e \in DOMAIN Alg!Counted(s) \cup {t} |->
             (IF e \in DOMAIN Alg!Counted(s) THEN Alg!Counted(s)[e] ELSE 0) + (IF e = t THEN 1 ELSE 0)]
  <2>1. \A e \in Values(s) : Alg!Counted(s)[e] = Cardinality(At(s, e))  BY <1>7
  <2>2. Alg!Counted(w) = [e \in Values(s) \cup {t} |-> Cardinality(At(w, e))]  BY <1>5, <1>7, Zenon
  <2> QED  BY <2>1, <2>2, <1>5, <1>9, <1>10
<1> QED  BY <1>11, Zenon DEF w, More

(* A remainder counts up and starts again. *)
LEMMA ModStep ==
    ASSUME NEW x \in Nat, NEW d \in Nat \ {0}
    PROVE  /\ x % d \in 0..(d - 1)
           /\ (x + 1) % d = IF (x % d) + 1 = d THEN 0 ELSE (x % d) + 1
<1>1. x % d \in 0..(d - 1) /\ (x + 1) % d \in 0..(d - 1)  OBVIOUS
<1>2. x = (d * (x \div d)) + (x % d) /\ x \div d \in Int  OBVIOUS
<1>3. x + 1 = (d * ((x + 1) \div d)) + ((x + 1) % d) /\ (x + 1) \div d \in Int  OBVIOUS
<1>4. PICK p \in Int : p = x \div d  BY <1>2
<1>5. PICK q \in Int : q = (x + 1) \div d  BY <1>3
<1>6. PICK r \in 0..(d - 1) : r = x % d  BY <1>1
<1>7. PICK r1 \in 0..(d - 1) : r1 = (x + 1) % d  BY <1>1
<1>8. PICK z \in Int : z = q - p  OBVIOUS
<1>9. d * z = r + 1 - r1  BY <1>2, <1>3, <1>4, <1>5, <1>6, <1>7, <1>8
<1>10. CASE z < 0
  <2>1. d * z <= -d  BY <1>10
  <2> QED  BY <2>1, <1>9
<1>11. CASE z > 1
  <2>1. d * z >= 2 * d  BY <1>11
  <2> QED  BY <2>1, <1>9
<1>12. CASE z = 0  BY <1>6, <1>7, <1>9, <1>12
<1>13. CASE z = 1  BY <1>6, <1>7, <1>9, <1>13
<1> QED  BY <1>8, <1>10, <1>11, <1>12, <1>13

(* What a call holds. *)
CallShape ==
    /\ DOMAIN call = {"state", "method", "prompt", "current", "past", "n", "interval", "target",
                      "strength", "chunk", "saved"}
    /\ call.prompt \in Seq(AlgTokens) /\ call.current \in Seq(AlgTokens)
    /\ Len(call.prompt) <= Len(call.current)
    /\ call.n \in Nat /\ call.interval \in Nat \ {0} /\ call.saved \in Nat

CountsIn(g, k, n) == Alg!Counted(SubSeq(g, k + 1, n))
InTemp(g, n) == \E k \in 0..(n - 1) : n - k <= call.interval /\ temp = CountsIn(g, k, n)

Counting(g) ==
    /\ call.saved \in 0..Len(g) /\ Len(g) - call.saved = Len(g) % call.interval
    /\ counts = CountsIn(g, call.saved, Len(g))
    /\ call.saved > 0 => InTemp(g, call.saved)

SessionInv ==
    call.method = "dynamic" /\ failures = 0 =>
      /\ call.state = "sampling" => Counting(Alg!Generated)
      /\ call.state = "returned" /\ call.n > 0 => InTemp(Alg!Generated, call.n)

WordsListed ==
    /\ wordlist \in Seq(Alg!Range(wordlist)) /\ Alg!ListedIsKnown /\ Alg!NoWordTwice

AlgInv == failures \in Nat /\ CallShape /\ WordsListed /\ Alg!PenaltySeesAll /\ SessionInv

LEMMA CountsGrow ==
    ASSUME NEW S, NEW g \in Seq(S), NEW t \in S, NEW k \in 0..Len(g)
    PROVE  /\ CountsIn(Append(g, t), k, Len(g) + 1) = More(CountsIn(g, k, Len(g)), t)
           /\ \A n \in 0..Len(g) : CountsIn(Append(g, t), k, n) = CountsIn(g, k, n)
           /\ CountsIn(g, k, k) = Alg!EmptyBag
           /\ k < Len(g) => CountsIn(g, k, Len(g)) # Alg!EmptyBag
<1>1. k + 1 \in 1..(Len(g) + 1) /\ Len(g) \in Nat  OBVIOUS
<1>2. /\ SubSeq(Append(g, t), k + 1, Len(g) + 1) = Append(SubSeq(g, k + 1, Len(g)), t)
      /\ \A n \in 0..Len(g) : SubSeq(Append(g, t), k + 1, n) = SubSeq(g, k + 1, n)
  BY <1>1, SubAppend, Zenon
<1>3. SubSeq(g, k + 1, Len(g)) \in Seq(S)  OBVIOUS
<1>4. CountsIn(Append(g, t), k, Len(g) + 1) = More(CountsIn(g, k, Len(g)), t)
  <2>1. PICK z \in Seq(S) : z = SubSeq(g, k + 1, Len(g))  BY <1>3, Zenon
  <2>2. Alg!Counted(Append(z, t)) = More(Alg!Counted(z), t)  BY CountSteps
  <2> QED  BY <1>2, <2>1, <2>2, Zenon DEF CountsIn
<1>5. \A n \in 0..Len(g) : CountsIn(Append(g, t), k, n) = CountsIn(g, k, n)
  BY <1>2, Zenon DEF CountsIn
<1>6. \A q : DOMAIN Alg!Counted(q) = {q[i] : i \in DOMAIN q}
  BY DEF Alg!Counted, Alg!Range
<1>7. Alg!EmptyBag = [e \in {} |-> 1]  BY DEF Alg!EmptyBag, Alg!SetToBag
<1>8. CountsIn(g, k, k) = Alg!EmptyBag
  <2>1. PICK z : z = SubSeq(g, k + 1, k)  BY Zenon
  <2>2. DOMAIN z = {}  BY <2>1
  <2>3. Alg!Counted(z) = [e \in {} |-> Alg!Cardinality({i \in DOMAIN z : z[i] = e})]
    BY <2>2 DEF Alg!Counted, Alg!Range
  <2> QED  BY <1>7, <2>1, <2>3 DEF CountsIn
<1>9. k < Len(g) => CountsIn(g, k, Len(g)) # Alg!EmptyBag
  <2> SUFFICES ASSUME k < Len(g) PROVE CountsIn(g, k, Len(g)) # Alg!EmptyBag  OBVIOUS
  <2>1. PICK z : z = SubSeq(g, k + 1, Len(g))  BY Zenon
  <2>2. 1 \in DOMAIN z  BY <2>1
  <2>3. z[1] \in DOMAIN Alg!Counted(z)  BY <1>6, <2>2, Zenon
  <2>4. DOMAIN Alg!EmptyBag = {}  BY <1>7
  <2> QED  BY <2>1, <2>3, <2>4 DEF CountsIn
<1> QED  BY <1>4, <1>5, <1>8, <1>9

(* A token is appended. *)
LEMMA TokenAppended ==
    ASSUME CallShape, NEW token \in AlgTokens, NEW after, after = Alg!Extended(token)
    PROVE  /\ after = [call EXCEPT !.current = Append(call.current, token), !.past = after.past]
           /\ after.past = Alg!Range(after.current)
           /\ Alg!Generated \in Seq(AlgTokens)
           /\ SubSeq(after.current, Len(call.prompt) + 1, Len(after.current)) = Append(Alg!Generated, token)
           /\ Len(Alg!Generated) = Len(call.current) - Len(call.prompt)
<1>1. after = [call EXCEPT !.current = Append(call.current, token), !.past = Alg!Range(Append(call.current, token))]
  BY DEF Alg!Extended
<1>2. after.current = Append(call.current, token) /\ after.past = Alg!Range(Append(call.current, token))
  BY <1>1 DEF CallShape
<1>3. Len(call.prompt) + 1 \in 1..(Len(call.current) + 1) /\ call.current \in Seq(AlgTokens)
  BY DEF CallShape
<1>4. PICK c, m : c = call.current /\ m = Len(call.prompt) + 1  OBVIOUS
<1>5. c \in Seq(AlgTokens) /\ m \in 1..(Len(c) + 1) /\ Alg!Generated = SubSeq(c, m, Len(c))
  BY <1>3, <1>4 DEF Alg!Generated
<1>6. /\ SubSeq(Append(c, token), m, Len(c) + 1) = Append(SubSeq(c, m, Len(c)), token)
      /\ Len(Append(c, token)) = Len(c) + 1
  BY <1>5, SubAppend
<1>7. SubSeq(c, m, Len(c)) \in Seq(AlgTokens) /\ Len(SubSeq(c, m, Len(c))) = Len(c) - m + 1
  BY <1>5
<1>8. Len(Alg!Generated) = Len(call.current) - Len(call.prompt)
  <2>1. PICK l \in Nat : l = Len(call.prompt)  BY DEF CallShape
  <2>2. PICK d \in Nat : d = Len(c)  BY <1>5
  <2>3. Len(Alg!Generated) = d - (l + 1) + 1  BY <1>4, <1>5, <1>7, <2>1, <2>2, Zenon
  <2> QED  BY <2>1, <2>2, <2>3, <1>4
<1>9. after = [call EXCEPT !.current = Append(call.current, token), !.past = after.past]  BY <1>1, <1>2
<1>10. SubSeq(after.current, Len(call.prompt) + 1, Len(after.current)) = Append(Alg!Generated, token)
  BY <1>2, <1>4, <1>5, <1>6, Zenon
<1>11. after.past = Alg!Range(after.current)  BY <1>2
<1>12. Alg!Generated \in Seq(AlgTokens)  BY <1>5, <1>7
<1> QED  BY <1>8, <1>9, <1>10, <1>11, <1>12, Zenon

SameCall == UNCHANGED <<DOMAIN call, call.state, call.method, call.prompt, call.n, call.interval>>

LEMMA CallGrows ==
    ASSUME CallShape, NEW token \in AlgTokens, SameCall, call'.saved \in Nat,
           call'.current = Alg!Extended(token).current, call'.past = Alg!Extended(token).past
    PROVE  /\ CallShape' /\ Alg!PenaltySeesAll'
           /\ Alg!Generated \in Seq(AlgTokens) /\ Alg!Generated' = Append(Alg!Generated, token)
<1>1. PICK after : after = Alg!Extended(token)  OBVIOUS
<1>2. /\ after = [call EXCEPT !.current = Append(call.current, token), !.past = after.past]
      /\ after.past = Alg!Range(after.current)
      /\ Alg!Generated \in Seq(AlgTokens)
      /\ SubSeq(after.current, Len(call.prompt) + 1, Len(after.current)) = Append(Alg!Generated, token)
  BY <1>1, TokenAppended, Zenon
<1>3. after.current = Append(call.current, token)  BY <1>2, Zenon DEF CallShape
<1>4. call'.current = after.current /\ call'.past = after.past  BY <1>1
<1>5. CallShape'  BY <1>3, <1>4 DEF CallShape, SameCall
<1>6. Alg!Generated' = Append(Alg!Generated, token)  BY <1>2, <1>4, Zenon DEF Alg!Generated, SameCall
<1>7. Alg!PenaltySeesAll'  BY <1>2, <1>4 DEF Alg!PenaltySeesAll
<1> QED  BY <1>2, <1>5, <1>6, <1>7

(* The session's counts grow with the call, and go to the file when they are due. *)
LEMMA CountsStep ==
    ASSUME AlgInv, Alg!DynamicTokenRevisionStep, failures' = 0
    PROVE  SessionInv'
<1>1. /\ call.state = "sampling" /\ call.method = "dynamic"
      /\ failures \in Nat /\ CallShape
  BY DEF Alg!DynamicTokenRevisionStep, Alg!Sampling, AlgInv
<1>2. PICK token \in AlgTokens, due \in BOOLEAN :
        /\ due = ((Len(Alg!Generated) + 1) % call.interval = 0)
        /\ call' = [Alg!Extended(token) EXCEPT !.saved = IF due THEN Len(Alg!Generated) + 1 ELSE @]
        /\ IF due THEN Alg!SaveSessionTokens(Alg!WithOneMore(token))
           ELSE counts' = Alg!WithOneMore(token) /\ UNCHANGED <<temp, failures>>
  BY Zenon DEF Alg!DynamicTokenRevisionStep
<1>3. PICK after : after = Alg!Extended(token)  OBVIOUS
<1>4. /\ after = [call EXCEPT !.current = Append(call.current, token), !.past = after.past]
      /\ Alg!Generated \in Seq(AlgTokens)
  BY <1>1, <1>3, TokenAppended, Zenon
<1>5. PICK g \in Seq(AlgTokens) : g = Alg!Generated  BY <1>4
<1>6. /\ SameCall
      /\ call'.current = after.current /\ call'.past = after.past
      /\ call'.saved = IF due THEN Len(g) + 1 ELSE call.saved
  BY <1>1, <1>2, <1>3, <1>4, <1>5, Zenon DEF SameCall, CallShape
<1>7. call'.saved \in Nat
  <2>1. Len(g) \in Nat /\ call.saved \in Nat  BY <1>1 DEF CallShape
  <2> QED  BY <1>6, <2>1
<1>8. Alg!Generated' = Append(g, token) /\ Len(Append(g, token)) = Len(g) + 1 /\ Len(g) \in Nat
  BY <1>1, <1>3, <1>5, <1>6, <1>7, CallGrows
<1>9. failures = 0
  BY <1>1, <1>2 DEF Alg!SaveSessionTokens, Alg!CanFail
<1>10. Counting(g)  BY <1>1, <1>5, <1>9 DEF AlgInv, SessionInv
<1>11. PICK s \in 0..Len(g) : s = call.saved  BY <1>10 DEF Counting
<1>12. PICK v \in Nat \ {0} : v = call.interval  BY <1>1 DEF CallShape
<1>13. /\ Len(g) - s = Len(g) % v
       /\ counts = CountsIn(g, s, Len(g))
       /\ s > 0 => InTemp(g, s)
  BY <1>10, <1>11, <1>12 DEF Counting
<1>14. PICK h : h = Append(g, token)  BY Zenon
<1>15. /\ CountsIn(h, s, Len(g) + 1) = More(counts, token)
       /\ \A k \in 0..Len(g) : \A n \in 0..Len(g) : CountsIn(h, k, n) = CountsIn(g, k, n)
       /\ CountsIn(h, Len(g) + 1, Len(g) + 1) = Alg!EmptyBag
  <2>1. h \in Seq(AlgTokens) /\ Len(h) = Len(g) + 1  BY <1>14
  <2>2. CountsIn(h, Len(h), Len(h)) = Alg!EmptyBag  BY <2>1, CountsGrow
  <2>3. CountsIn(h, s, Len(g) + 1) = More(counts, token)  BY <1>13, <1>14, CountsGrow
  <2>4. \A k \in 0..Len(g) : \A n \in 0..Len(g) : CountsIn(h, k, n) = CountsIn(g, k, n)
    BY <1>14, CountsGrow
  <2> QED  BY <2>1, <2>2, <2>3, <2>4
<1>16. Alg!WithOneMore(token) = More(counts, token)  BY DEF Alg!WithOneMore, More
<1>17. More(counts, token) # Alg!EmptyBag
  <2>1. token \in DOMAIN More(counts, token)  BY DEF More
  <2>2. DOMAIN Alg!EmptyBag = {}  BY DEF Alg!EmptyBag, Alg!SetToBag
  <2> QED  BY <2>1, <2>2
<1>18. /\ Len(g) % v \in 0..(v - 1)
       /\ (Len(g) + 1) % v = IF (Len(g) % v) + 1 = v THEN 0 ELSE (Len(g) % v) + 1
  BY <1>8, ModStep, Zenon
<1>21. due = ((Len(g) + 1) % v = 0)  BY <1>2, <1>5, <1>12
<1>22. PICK l \in Nat, r \in 0..(v - 1), q \in 0..(v - 1) :
        l = Len(g) /\ r = Len(g) % v /\ q = (Len(g) + 1) % v
  <2>1. (Len(g) + 1) % v \in 0..(v - 1)
    <3>1. PICK x \in Nat : x = Len(g) + 1  BY <1>8
    <3>2. x % v \in 0..(v - 1)  BY ModStep
    <3> QED  BY <3>1, <3>2
  <2> QED  BY <1>8, <1>18, <2>1
<1>23. q = IF r + 1 = v THEN 0 ELSE r + 1  BY <1>18, <1>22
<1>24. l - s = r /\ (due => q = 0) /\ (~due => q # 0)
  <2>1. (due => q = 0) /\ (~due => q # 0)  BY <1>21, <1>22, Zenon
  <2> QED  BY <2>1, <1>13, <1>22
<1>19. CASE due
  <2>1. counts' = Alg!EmptyBag /\ temp' = More(counts, token)
    BY <1>2, <1>9, <1>16, <1>17, <1>19 DEF Alg!SaveSessionTokens, Alg!CanFail
  <2>2. Len(g) + 1 - s = v
    <3>1. l + 1 - s = v  BY <1>23, <1>24, <1>19
    <3> QED  BY <3>1, <1>22
  <2>3. call'.saved = Len(g) + 1 /\ call'.interval = v
    BY <1>6, <1>12, <1>19 DEF SameCall
  <2>4. \E k \in 0..(Len(g) + 1 - 1) : Len(g) + 1 - k <= v /\ temp' = CountsIn(h, k, Len(g) + 1)
    BY <1>8, <1>15, <2>1, <2>2
  <2>6. (Len(g) + 1) % v = 0  BY <1>2, <1>5, <1>12, <1>19, Zenon
  <2>7. Counting(Alg!Generated)'
    <3>1. Alg!Generated' = h /\ Len(h) = Len(g) + 1  BY <1>8, <1>14
    <3>2. call'.saved \in 0..Len(h) /\ Len(h) - call'.saved = Len(h) % call'.interval
      BY <1>8, <2>3, <2>6, <3>1
    <3>3. counts' = CountsIn(h, call'.saved, Len(h))  BY <1>15, <2>1, <2>3, <3>1
    <3>4. \E k \in 0..(call'.saved - 1) : /\ call'.saved - k <= call'.interval
                                          /\ temp' = CountsIn(h, k, call'.saved)
      BY <2>3, <2>4
    <3> QED  BY <3>1, <3>2, <3>3, <3>4 DEF Counting, InTemp
  <2> QED  BY <1>1, <1>6, <2>7 DEF SessionInv, SameCall
<1>20. CASE ~due
  <2>1. counts' = More(counts, token) /\ temp' = temp  BY <1>2, <1>16, <1>20
  <2>2. Len(g) + 1 - s = (Len(g) + 1) % v
    <3>1. l + 1 - s = q  BY <1>23, <1>24, <1>20
    <3> QED  BY <3>1, <1>22
  <2>3. call'.saved = s /\ call'.interval = v  BY <1>6, <1>11, <1>12, <1>20 DEF SameCall
  <2>4. s > 0 => \E k \in 0..(s - 1) : s - k <= v /\ temp' = CountsIn(h, k, s)
    <3> SUFFICES ASSUME s > 0 PROVE \E k \in 0..(s - 1) : s - k <= v /\ temp' = CountsIn(h, k, s)
      OBVIOUS
    <3>1. PICK k \in 0..(s - 1) : s - k <= v /\ temp = CountsIn(g, k, s)
      BY <1>12, <1>13 DEF InTemp
    <3>2. k \in 0..Len(g) /\ CountsIn(h, k, s) = CountsIn(g, k, s)  BY <1>8, <1>15
    <3> QED  BY <2>1, <3>1, <3>2
  <2>5. s \in 0..(Len(g) + 1)  BY <1>8
  <2>6. Counting(Alg!Generated)'
    <3>1. Alg!Generated' = h /\ Len(h) = Len(g) + 1  BY <1>8, <1>14
    <3>2. call'.saved \in 0..Len(h) /\ Len(h) - call'.saved = Len(h) % call'.interval
      BY <2>2, <2>3, <2>5, <3>1
    <3>3. counts' = CountsIn(h, call'.saved, Len(h))  BY <1>15, <2>1, <2>3, <3>1
    <3>4. call'.saved > 0 => \E k \in 0..(call'.saved - 1) :
                               call'.saved - k <= call'.interval /\ temp' = CountsIn(h, k, call'.saved)
      BY <2>3, <2>4
    <3> QED  BY <3>1, <3>2, <3>3, <3>4 DEF Counting, InTemp
  <2> QED  BY <1>1, <1>6, <2>6 DEF SessionInv, SameCall
<1> QED  BY <1>19, <1>20

(* A return saves what is left, unless nothing was counted since the last save. *)
LEMMA ReturnSaves ==
    ASSUME AlgInv, Alg!Return PROVE AlgInv'
<1>1. /\ call.state = "sampling" /\ Len(Alg!Generated) = call.n /\ CallShape /\ failures \in Nat
      /\ call' = [call EXCEPT !.state = "returned"] /\ UNCHANGED <<known, wordlist>>
  BY DEF Alg!Return, AlgInv
<1>2. SameCall \/ call'.state = "returned"  BY <1>1 DEF CallShape
<1>3. /\ UNCHANGED <<DOMAIN call, call.method, call.prompt, call.current, call.past, call.n,
                     call.interval, call.saved>>
      /\ call'.state = "returned"
  BY <1>1 DEF CallShape
<1>4. CallShape' /\ Alg!PenaltySeesAll'  BY <1>1, <1>3 DEF CallShape, Alg!PenaltySeesAll
<1>5. failures' \in Nat /\ (failures' = 0 => failures = 0)
  BY <1>1 DEF Alg!Return, Alg!SaveSessionTokens, Alg!CanFail
<1>6. WordsListed'
  BY <1>1, <1>5 DEF AlgInv, WordsListed, Alg!ListedIsKnown, Alg!LoadKnownWords, Alg!NoWordTwice
<1>7. SessionInv'
  <2> SUFFICES ASSUME call.method = "dynamic", failures' = 0, call.n > 0
               PROVE  InTemp(Alg!Generated, call.n)'
    BY <1>3 DEF SessionInv
  <2>1. Counting(Alg!Generated)  BY <1>1, <1>5 DEF AlgInv, SessionInv
  <2>2. PICK g \in Seq(AlgTokens) : g = Alg!Generated
    <3>1. Alg!Generated \in Seq(AlgTokens)  BY <1>1 DEF CallShape, Alg!Generated
    <3> QED  BY <3>1
  <2>3. Alg!Generated' = g  BY <1>3, <2>2 DEF Alg!Generated
  <2>4. PICK n \in Nat, s \in Nat, v \in Nat \ {0} :
          s \in 0..n /\ n = Len(g) /\ n = call.n /\ s = call.saved /\ v = call.interval
    BY <1>1, <2>1, <2>2 DEF Counting, CallShape
  <2>5. n - s = n % v /\ n % v \in 0..(v - 1) /\ counts = CountsIn(g, s, n)
    BY <2>1, <2>2, <2>4, ModStep, Zenon DEF Counting
  <2>6. Alg!SaveSessionTokens(counts)  BY <1>1 DEF Alg!Return
  <2>7. CASE counts = Alg!EmptyBag
    <3>1. s = n
      <4> SUFFICES ASSUME s # n PROVE FALSE  OBVIOUS
      <4>1. s \in 0..Len(g) /\ s < Len(g)  BY <2>4
      <4>2. \A t \in AlgTokens : CountsIn(g, s, n) # Alg!EmptyBag  BY <2>4, <4>1, CountsGrow, Zenon
      <4>3. Len(g) \in Nat /\ Len(g) > 0  BY <4>1, <2>4
      <4>4. g[1] \in AlgTokens  BY <4>3
      <4> QED  BY <4>2, <4>4, <2>5, <2>7
    <3>2. temp' = temp  BY <2>6, <2>7 DEF Alg!SaveSessionTokens
    <3>3. \E k \in 0..(n - 1) : n - k <= v /\ temp = CountsIn(g, k, n)
      BY <2>1, <2>2, <2>4, <3>1 DEF Counting, InTemp
    <3> QED  BY <1>3, <2>3, <2>4, <3>2, <3>3 DEF InTemp
  <2>8. CASE counts # Alg!EmptyBag
    <3>1. temp' = counts
      BY <1>1, <1>5, <2>6, <2>8 DEF Alg!SaveSessionTokens, Alg!CanFail
    <3>2. s # n
      <4> SUFFICES ASSUME s = n PROVE FALSE  OBVIOUS
      <4>1. Len(g) > 0 /\ Len(g) \in Nat  BY <2>2, <2>4
      <4>2. g[1] \in AlgTokens  BY <4>1
      <4>3. s \in 0..Len(g)  BY <2>4
      <4>4. \A t \in AlgTokens : CountsIn(g, s, s) = Alg!EmptyBag  BY <4>3, CountsGrow
      <4> QED  BY <4>2, <4>4, <2>5, <2>8
    <3>3. s \in 0..(n - 1) /\ n - s <= v  BY <2>4, <2>5, <3>2
    <3>4. \E k \in 0..(n - 1) : n - k <= v /\ temp' = CountsIn(g, k, n)  BY <2>5, <3>1, <3>3
    <3> QED  BY <1>3, <2>3, <2>4, <3>4 DEF InTemp
  <2> QED  BY <2>7, <2>8
<1> QED  BY <1>4, <1>5, <1>6, <1>7 DEF AlgInv

(* The other steps that choose a token. *)
LEMMA TokenSteps ==
    ASSUME AlgInv,
           Alg!IterativeStep \/ Alg!DynamicTokenRevisionStep \/ Alg!BayesianWordExpansionStep
             \/ Alg!AdaptiveSentimentStep
    PROVE  CallShape' /\ Alg!PenaltySeesAll' /\ UNCHANGED <<call.state, call.method>>
<1>1. CallShape /\ Len(Alg!Generated) \in Nat
  <2>1. CallShape  BY DEF AlgInv
  <2>2. Alg!Generated \in Seq(AlgTokens)  BY <2>1 DEF CallShape, Alg!Generated
  <2> QED  BY <2>1, <2>2
<1>2. PICK token \in AlgTokens :
        \/ call' = Alg!Extended(token)
        \/ \E x \in Nat : call' = [Alg!Extended(token) EXCEPT !.saved = x]
        \/ \E y, z : call' = [Alg!Extended(token) EXCEPT !.strength = y, !.chunk = z]
  <2>1. CASE Alg!IterativeStep
    <3>1. \E token \in AlgTokens : call' = Alg!Extended(token)  BY <2>1 DEF Alg!IterativeStep
    <3> QED  BY <3>1, Zenon
  <2>2. CASE Alg!DynamicTokenRevisionStep
    <3>1. PICK token \in AlgTokens, due \in BOOLEAN :
            call' = [Alg!Extended(token) EXCEPT !.saved = IF due THEN Len(Alg!Generated) + 1 ELSE @]
      BY <2>2, Zenon DEF Alg!DynamicTokenRevisionStep
    <3>2. PICK x : x = IF due THEN Len(Alg!Generated) + 1 ELSE Alg!Extended(token).saved  OBVIOUS
    <3>3. PICK after : after = Alg!Extended(token)  OBVIOUS
    <3>4. after.saved = call.saved
      <4>1. after = [call EXCEPT !.current = Append(call.current, token), !.past = after.past]
        BY <1>1, <3>3, TokenAppended, Zenon
      <4> QED  BY <1>1, <4>1, Zenon DEF CallShape
    <3>5. x \in Nat  BY <1>1, <3>2, <3>3, <3>4 DEF CallShape
    <3>6. call' = [Alg!Extended(token) EXCEPT !.saved = x]  BY <3>1, <3>2, Zenon
    <3> QED  BY <3>5, <3>6, Zenon
  <2>3. CASE Alg!BayesianWordExpansionStep  BY <2>3, Zenon DEF Alg!BayesianWordExpansionStep
  <2>4. CASE Alg!AdaptiveSentimentStep
    <3>1. PICK token \in AlgTokens, due \in BOOLEAN, average \in {-10, 0, 10} :
            call' = [Alg!Extended(token) EXCEPT
                      !.strength = IF due THEN Alg!Adapted(@, call.target, average) ELSE @,
                      !.chunk = IF due THEN average ELSE @]
      BY <2>4, Zenon DEF Alg!AdaptiveSentimentStep
    <3>2. PICK y : y = IF due THEN Alg!Adapted(Alg!Extended(token).strength, call.target, average)
                       ELSE Alg!Extended(token).strength
      OBVIOUS
    <3>3. PICK z : z = IF due THEN average ELSE Alg!Extended(token).chunk  OBVIOUS
    <3> QED  BY <3>1, <3>2, <3>3, Zenon
  <2> QED  BY <2>1, <2>2, <2>3, <2>4, Zenon
<1>3. PICK after : after = Alg!Extended(token)  OBVIOUS
<1>4. /\ after = [call EXCEPT !.current = Append(call.current, token), !.past = after.past]
  BY <1>1, <1>3, TokenAppended, Zenon
<1>5. SameCall /\ call'.current = after.current /\ call'.past = after.past /\ call'.saved \in Nat
  <2>1. CASE call' = after  BY <1>1, <1>4, <2>1, Zenon DEF SameCall, CallShape
  <2>2. CASE \E x \in Nat : call' = [after EXCEPT !.saved = x]
    BY <1>1, <1>4, <2>2, Zenon DEF SameCall, CallShape
  <2>3. CASE \E y, z : call' = [after EXCEPT !.strength = y, !.chunk = z]
    BY <1>1, <1>4, <2>3, Zenon DEF SameCall, CallShape
  <2> QED  BY <1>2, <1>3, <2>1, <2>2, <2>3, Zenon
<1> QED  BY <1>1, <1>3, <1>5, CallGrows DEF SameCall

(* A word is learned once, and is known before it is listed. *)
LEMMA WordsStep ==
    ASSUME AlgInv, Alg!BayesianWordExpansionStep
    PROVE  WordsListed' /\ failures' \in Nat /\ call.method = "bayesian"
<1>1. /\ failures \in Nat /\ wordlist \in Seq(Alg!Range(wordlist)) /\ Alg!Range(wordlist) \subseteq known
      /\ failures = 0 => Alg!IsInjective(wordlist)
  BY DEF AlgInv, WordsListed, Alg!ListedIsKnown, Alg!LoadKnownWords, Alg!NoWordTwice
<1>2. PICK word :
        \/ /\ word \notin known /\ known' = known \cup {word}
           /\ \/ wordlist' = Append(wordlist, word) /\ UNCHANGED failures
              \/ Alg!CanFail /\ UNCHANGED wordlist
        \/ UNCHANGED <<known, wordlist, failures>>
  BY DEF Alg!BayesianWordExpansionStep
<1>3. CASE word \notin known /\ known' = known \cup {word} /\ wordlist' = Append(wordlist, word) /\ UNCHANGED failures
  <2>1. PICK s : s = Append(wordlist, word)  BY Zenon
  <2>2. /\ DOMAIN s = 1..(Len(wordlist) + 1) /\ DOMAIN wordlist = 1..Len(wordlist) /\ Len(wordlist) \in Nat
        /\ s[Len(wordlist) + 1] = word /\ \A i \in 1..Len(wordlist) : s[i] = wordlist[i]
        /\ \E S : s \in Seq(S)
    <3>1. IsSequence(wordlist)  BY <1>1 DEF IsSequence
    <3>2. PICK q : q = wordlist /\ IsSequence(q)  BY <3>1
    <3>3. /\ IsSequence(Append(q, word)) /\ DOMAIN q = 1..Len(q) /\ Len(q) \in Nat
          /\ DOMAIN Append(q, word) = 1..(Len(q) + 1)
          /\ Append(q, word)[Len(q) + 1] = word /\ \A i \in 1..Len(q) : Append(q, word)[i] = q[i]
      BY <3>2, SequenceGrows
    <3> QED  BY <2>1, <3>2, <3>3 DEF IsSequence
  <2>3. Alg!Range(s) = Alg!Range(wordlist) \cup {word}
    <3>1. \A i : i \in 1..(Len(wordlist) + 1) <=> i \in 1..Len(wordlist) \/ i = Len(wordlist) + 1  BY <2>2
    <3> QED  BY <2>2, <3>1 DEF Alg!Range
  <2>4. s \in Seq(Alg!Range(s))
    <3>1. /\ Len(s) = Len(wordlist) + 1
          /\ s = [i \in 1..Len(s) |-> s[i]]
      BY <2>2
    <3>2. \A i \in 1..Len(s) : s[i] \in Alg!Range(s)  BY <2>2, <3>1 DEF Alg!Range
    <3>3. Len(s) \in Nat  BY <2>2
    <3> QED  BY <3>1, <3>2, <3>3, IsASeq
  <2>5. failures = 0 => Alg!IsInjective(s)
    <3> SUFFICES ASSUME failures = 0, NEW i \in DOMAIN s, NEW j \in DOMAIN s, s[i] = s[j] PROVE i = j
      BY DEF Alg!IsInjective
    <3>1. \A k \in 1..Len(wordlist) : wordlist[k] # word  BY <1>1, <1>3, <2>2 DEF Alg!Range
    <3>2. \A k, l \in 1..Len(wordlist) : wordlist[k] = wordlist[l] => k = l
      BY <1>1, <2>2 DEF Alg!IsInjective
    <3> QED  BY <2>2, <3>1, <3>2
  <2> QED
    BY <1>1, <1>3, <2>1, <2>3, <2>4, <2>5
    DEF WordsListed, Alg!ListedIsKnown, Alg!LoadKnownWords, Alg!NoWordTwice, Alg!BayesianWordExpansionStep, Alg!Sampling
<1>4. CASE (UNCHANGED <<known, wordlist, failures>>) \/ (known' = known \cup {word} /\ Alg!CanFail /\ UNCHANGED wordlist)
  <2>1. known \subseteq known' /\ wordlist' = wordlist /\ failures' \in Nat /\ (failures' = 0 => failures = 0)
    BY <1>1, <1>4 DEF Alg!CanFail
  <2> QED
    BY <1>1, <2>1
    DEF WordsListed, Alg!ListedIsKnown, Alg!LoadKnownWords, Alg!NoWordTwice, Alg!BayesianWordExpansionStep, Alg!Sampling
<1> QED  BY <1>2, <1>3, <1>4

LEMMA AlgNext == AlgInv /\ [Alg!Next]_(Alg!vars) => AlgInv'
<1> SUFFICES ASSUME AlgInv, [Alg!Next]_(Alg!vars) PROVE AlgInv'  OBVIOUS
<1>1. failures \in Nat /\ CallShape /\ WordsListed /\ Alg!PenaltySeesAll /\ SessionInv  BY DEF AlgInv
<1>2. UNCHANGED <<wordlist, failures>> /\ known' \in {known, Alg!LoadKnownWords} => WordsListed' /\ failures' \in Nat
  BY <1>1 DEF WordsListed, Alg!ListedIsKnown, Alg!LoadKnownWords, Alg!NoWordTwice
<1>3. CASE Alg!NewGenerator
  <2>1. call' = Alg!Idle /\ UNCHANGED <<wordlist, failures>> /\ known' = Alg!LoadKnownWords
    BY <1>3 DEF Alg!NewGenerator
  <2>2. CallShape'  BY <2>1 DEF CallShape, Alg!Idle
  <2>3. call'.state = "idle"  BY <2>1 DEF Alg!Idle
  <2>4. Alg!PenaltySeesAll' /\ SessionInv'  BY <2>3 DEF Alg!PenaltySeesAll, SessionInv
  <2> QED  BY <1>2, <2>1, <2>2, <2>4 DEF AlgInv
<1>4. CASE Alg!SampleRaises
  <2>1. PICK method : call' = [Alg!Idle EXCEPT !.state = "raised", !.method = method]
    BY <1>4, Zenon DEF Alg!SampleRaises
  <2>2. CallShape'  BY <2>1 DEF CallShape, Alg!Idle
  <2>3. call'.state = "raised"  BY <2>1 DEF Alg!Idle
  <2>4. Alg!PenaltySeesAll' /\ SessionInv'  BY <2>3 DEF Alg!PenaltySeesAll, SessionInv
  <2>5. UNCHANGED <<known, wordlist, failures>>  BY <1>4 DEF Alg!SampleRaises
  <2> QED  BY <1>2, <2>2, <2>4, <2>5 DEF AlgInv
<1>5. CASE Alg!Sample
  <2>1. PICK method \in Alg!Methods, asked \in Prompts, n \in 0..MaxNew, interval \in Intervals,
             aim \in Alg!Targets :
          /\ method # "adaptive" => aim = "neutral"
          /\ method \in {"iterative", "bayesian"} => interval = 1
          /\ call' = [Alg!Idle EXCEPT !.state = "sampling", !.method = method, !.prompt = asked,
                        !.current = asked, !.n = n, !.interval = interval, !.target = aim]
          /\ counts' = IF method = "dynamic" THEN Alg!EmptyBag ELSE counts
    BY <1>5, Zenon DEF Alg!Sample
  <2>2. asked \in Seq(AlgTokens) /\ interval \in Nat \ {0} /\ n \in Nat
    BY AlgorithmicAssumption, GenerationAssumption
  <2>3. /\ call'.state = "sampling" /\ call'.method = method /\ call'.prompt = asked
        /\ call'.current = asked /\ call'.n = n /\ call'.interval = interval /\ call'.saved = 0
    BY <2>1 DEF Alg!Idle
  <2>4. CallShape'
    <3>1. DOMAIN call' = {"state", "method", "prompt", "current", "past", "n", "interval", "target",
                          "strength", "chunk", "saved"}
      BY <2>1 DEF Alg!Idle
    <3>2. Len(asked) \in Nat /\ 0 \in Nat  BY <2>2
    <3>3. Len(asked) <= Len(asked)  BY <3>2
    <3> QED  BY <2>2, <2>3, <3>1, <3>2, <3>3 DEF CallShape
  <2>5. PICK g : g = SubSeq(asked, Len(asked) + 1, Len(asked))  BY Zenon
  <2>6. g = <<>> /\ Len(g) = 0  BY <2>2, <2>5
  <2>7. Alg!Generated' = g  BY <2>3, <2>5 DEF Alg!Generated
  <2>8. Alg!PenaltySeesAll'  BY <2>6, <2>7 DEF Alg!PenaltySeesAll
  <2>9. SessionInv'
    <3> SUFFICES ASSUME method = "dynamic" PROVE Counting(Alg!Generated)'  BY <2>3 DEF SessionInv
    <3>1. CountsIn(g, 0, 0) = Alg!EmptyBag
      <4>3. PICK z : z = SubSeq(g, 1, 0)  BY Zenon
      <4>4. DOMAIN z = {}  BY <2>6, <4>3
      <4>5. Alg!Counted(z) = [t \in {} |-> Alg!Cardinality({i \in DOMAIN z : z[i] = t})]
        BY <4>4 DEF Alg!Counted, Alg!Range
      <4>6. Alg!EmptyBag = [t \in {} |-> 1]  BY DEF Alg!EmptyBag, Alg!SetToBag
      <4>7. CountsIn(g, 0, 0) = Alg!Counted(z)  BY <4>3 DEF CountsIn
      <4> QED  BY <4>5, <4>6, <4>7
    <3>2. 0 % interval = 0  BY <2>2
    <3> QED  BY <2>1, <2>3, <2>6, <2>7, <3>1, <3>2 DEF Counting
  <2>10. UNCHANGED <<known, wordlist, failures>>  BY <1>5 DEF Alg!Sample
  <2> QED  BY <1>2, <2>4, <2>8, <2>9, <2>10 DEF AlgInv
<1>6. CASE Alg!IterativeStep
  <2>1. UNCHANGED <<known, wordlist, failures>> /\ call.method = "iterative"
    BY <1>6 DEF Alg!IterativeStep, Alg!Sampling
  <2>2. CallShape' /\ Alg!PenaltySeesAll' /\ call'.method = "iterative"  BY <1>6, <2>1, TokenSteps
  <2>3. SessionInv'  BY <2>2 DEF SessionInv
  <2> QED  BY <1>2, <2>1, <2>2, <2>3 DEF AlgInv
<1>7. CASE Alg!DynamicTokenRevisionStep
  <2>1. UNCHANGED <<known, wordlist>> /\ failures' \in Nat /\ (failures' = 0 => failures = 0)
    BY <1>1, <1>7 DEF Alg!DynamicTokenRevisionStep, Alg!SaveSessionTokens, Alg!CanFail
  <2>2. CallShape' /\ Alg!PenaltySeesAll'  BY <1>7, TokenSteps
  <2>3. SessionInv'
    <3>1. CASE failures' = 0  BY <1>7, <3>1, CountsStep
    <3>2. CASE failures' # 0  BY <3>2 DEF SessionInv
    <3> QED  BY <3>1, <3>2
  <2>4. WordsListed'
    BY <1>1, <2>1 DEF WordsListed, Alg!ListedIsKnown, Alg!LoadKnownWords, Alg!NoWordTwice
  <2> QED  BY <2>1, <2>2, <2>3, <2>4 DEF AlgInv
<1>8. CASE Alg!BayesianWordExpansionStep
  <2>1. CallShape' /\ Alg!PenaltySeesAll' /\ call'.method = "bayesian"  BY <1>8, TokenSteps, WordsStep
  <2>2. SessionInv'  BY <2>1 DEF SessionInv
  <2> QED  BY <1>8, <2>1, <2>2, WordsStep DEF AlgInv
<1>9. CASE Alg!AdaptiveSentimentStep
  <2>1. UNCHANGED <<known, wordlist, failures>> /\ call.method = "adaptive"
    BY <1>9 DEF Alg!AdaptiveSentimentStep, Alg!Sampling
  <2>2. CallShape' /\ Alg!PenaltySeesAll' /\ call'.method = "adaptive"  BY <1>9, <2>1, TokenSteps
  <2>3. SessionInv'  BY <2>2 DEF SessionInv
  <2> QED  BY <1>2, <2>1, <2>2, <2>3 DEF AlgInv
<1>10. CASE Alg!Return  BY <1>10, ReturnSaves
<1>11. CASE UNCHANGED Alg!vars
  <2>1. UNCHANGED <<known, wordlist, counts, temp, call, failures>>  BY <1>11 DEF Alg!vars
  <2>2. CallShape' /\ Alg!PenaltySeesAll'
    BY <1>1, <2>1 DEF CallShape, Alg!PenaltySeesAll, Alg!Generated
  <2>3. SessionInv'  BY <1>1, <2>1, Zenon DEF SessionInv, Counting, InTemp, Alg!Generated
  <2> QED  BY <1>1, <1>2, <2>1, <2>2, <2>3 DEF AlgInv
<1> QED  BY <1>3, <1>4, <1>5, <1>6, <1>7, <1>8, <1>9, <1>10, <1>11 DEF Alg!Next

LEMMA AlgHolds ==
    Alg!Init /\ [][Alg!Next]_(Alg!vars)
      => [](Alg!PenaltySeesAll /\ Alg!NoWordTwice /\ Alg!TempHoldsTheTail)
<1>1. Alg!Init => AlgInv
  <2> SUFFICES ASSUME Alg!Init PROVE AlgInv  OBVIOUS
  <2>1. call = Alg!Idle /\ failures = 0 /\ known = Alg!LoadKnownWords  BY DEF Alg!Init
  <2>2. CallShape  BY <2>1 DEF CallShape, Alg!Idle
  <2>3. call.state = "idle"  BY <2>1 DEF Alg!Idle
  <2>4. Alg!PenaltySeesAll /\ SessionInv  BY <2>3 DEF Alg!PenaltySeesAll, SessionInv
  <2>5. PICK w : wordlist = <<w>> \/ wordlist = <<>>  BY DEF Alg!Init
  <2>6. PICK s : s = <<w>>  BY Zenon
  <2>7. DOMAIN s = {1} /\ s[1] = w /\ s \in Seq({w})  BY <2>6
  <2>8. Alg!Range(s) = {w} /\ Alg!IsInjective(s)  BY <2>7 DEF Alg!Range, Alg!IsInjective
  <2>9. PICK e : e = <<>>  OBVIOUS
  <2>10. DOMAIN e = {} /\ e \in Seq(Alg!Range(e))  BY <2>9
  <2>11. Alg!IsInjective(e)  BY <2>10 DEF Alg!IsInjective
  <2>12. wordlist \in Seq(Alg!Range(wordlist)) /\ Alg!IsInjective(wordlist)
    BY <2>5, <2>6, <2>7, <2>8, <2>9, <2>10, <2>11, Zenon
  <2>13. WordsListed
    BY <2>1, <2>12 DEF WordsListed, Alg!ListedIsKnown, Alg!NoWordTwice
  <2> QED  BY <2>1, <2>2, <2>4, <2>13 DEF AlgInv
<1>2. AlgInv => Alg!PenaltySeesAll /\ Alg!NoWordTwice /\ Alg!TempHoldsTheTail
  <2> SUFFICES ASSUME AlgInv PROVE Alg!TempHoldsTheTail  BY DEF AlgInv, WordsListed
  <2> SUFFICES ASSUME call.state = "returned", call.method = "dynamic", call.n > 0, failures = 0
               PROVE  \E k \in 0..(call.n - 1) :
                        /\ call.n - k <= call.interval
                        /\ temp = Alg!Counted(SubSeq(Alg!Generated, k + 1, call.n))
    BY DEF Alg!TempHoldsTheTail
  <2>1. InTemp(Alg!Generated, call.n)  BY DEF AlgInv, SessionInv
  <2> QED  BY <2>1 DEF InTemp, CountsIn
<1> QED  BY AlgNext, <1>1, <1>2, PTL

-----------------------------------------------------------------------------
(*****************************************************************************)
(* Generation, for any tokens, batches and configurations.  A mask fits the  *)
(* rows only when no sequence had ended before them: then the rows are of    *)
(* all sequences, in their order.  What a sequence holds after its prompt    *)
(* was chosen from what its own past did not ban.                            *)
(*****************************************************************************)
GenText == Nat \cup GenTokens

BannedIn(past, n) ==
    IF n < 2 \/ Len(past) < n THEN {}
    ELSE {past[k + n - 1] : k \in {k \in 1..(Len(past) - n + 1) :
                                     SubSeq(past, k, k + n - 2) = SubSeq(past, Len(past) - n + 2, Len(past))}}
GramIn(s, k, n) == SubSeq(s, k - n + 1, k)

\* What is said of one sequence s that began with the first l tokens.
NoRepeats(s, l, n) ==
    n >= 2 => \A k \in (l + 1)..Len(s) : \A e \in n..(k - 1) :
                GramIn(s, e, n) = GramIn(s, k, n) => GenTokens \subseteq BannedIn(SubSeq(s, 1, k - 1), n)

ConfigIs == "ngram" \in DOMAIN config /\ config.ngram \in Int

TextsAre ==
    /\ prompts \in Seq(Seq(Nat)) /\ DOMAIN current = DOMAIN prompts /\ active \subseteq DOMAIN prompts
    /\ \A i \in DOMAIN prompts : current[i] \in Seq(GenText) /\ Len(prompts[i]) <= Len(current[i])

RowsMatch ==
    Len(rows) = Len(prompts) /\ (\A i, j \in DOMAIN prompts : Len(prompts[i]) = Len(prompts[j]))
      => \A i \in active : Gen!Last(rows[i]) = Gen!Last(current[i])

GramsNew == \A i \in DOMAIN prompts : NoRepeats(current[i], Len(prompts[i]), config.ngram)

GenInv == ConfigIs /\ TextsAre /\ RowsMatch /\ GramsNew

(* An order of all the numbers to n that rises is the identity. *)
LEMMA RisingIsIdentity ==
    ASSUME NEW n \in Nat, NEW f \in [1..n -> 1..n], \A k, l \in 1..n : k < l => f[k] < f[l]
    PROVE  \A k \in 1..n : f[k] = k
<1> DEFINE Up == {k \in 0..n : k = 0 \/ f[k] >= k}
           Down == {d \in 0..n : d = n \/ f[n - d] <= n - d}
<1>1. \A k \in 0..n : k \in Up
  <2>1. 0 \in Up  OBVIOUS
  <2>2. \A k \in 1..n : k - 1 \in Up => k \in Up
    <3> SUFFICES ASSUME NEW k \in 1..n, k - 1 \in Up PROVE f[k] >= k  OBVIOUS
    <3>1. f[k] \in 1..n  OBVIOUS
    <3>2. CASE k = 1  BY <3>1, <3>2
    <3>3. CASE k # 1
      <4>1. k - 1 \in 1..n /\ k - 1 < k  BY <3>3
      <4>2. f[k - 1] < f[k] /\ f[k - 1] >= k - 1 /\ f[k - 1] \in 1..n  BY <4>1
      <4> QED  BY <3>1, <4>2
    <3> QED  BY <3>2, <3>3
  <2> HIDE DEF Up
  <2> QED  BY <2>1, <2>2, UpTo, Zenon
<1>2. \A d \in 0..n : d \in Down
  <2>1. 0 \in Down
    <3>1. CASE n = 0  BY <3>1
    <3>2. CASE n # 0
      <4>1. f[n] \in 1..n  BY <3>2
      <4> QED  BY <4>1
    <3> QED  BY <3>1, <3>2
  <2>2. \A d \in 1..n : d - 1 \in Down => d \in Down
    <3> SUFFICES ASSUME NEW d \in 1..n, d - 1 \in Down, d # n PROVE f[n - d] <= n - d  OBVIOUS
    <3>1. PICK k \in 1..n : k = n - d  OBVIOUS
    <3>2. k + 1 \in 1..n /\ n - (d - 1) = k + 1 /\ d - 1 # n  BY <3>1
    <3>3. f[k + 1] <= k + 1  BY <3>2, Zenon
    <3>4. f[k] < f[k + 1] /\ f[k] \in 1..n /\ f[k + 1] \in 1..n  BY <3>2
    <3> QED  BY <3>1, <3>3, <3>4
  <2> HIDE DEF Down
  <2> QED  BY <2>1, <2>2, UpTo, Zenon
<1> SUFFICES ASSUME NEW k \in 1..n PROVE f[k] = k  OBVIOUS
<1>3. f[k] >= k  BY <1>1
<1>4. f[k] <= k
  <2>1. n - k \in 0..n /\ n - k # n /\ n - (n - k) = k  OBVIOUS
  <2>2. n - k \in Down  BY <1>2, <2>1, Zenon
  <2> QED  BY <2>1, <2>2
<1>5. f[k] \in 1..n  OBVIOUS
<1> QED  BY <1>3, <1>4, <1>5

(* A token that is not banned repeats no n-gram. *)
LEMMA NotBanned ==
    ASSUME NEW S, NEW s \in Seq(S), NEW c \in S, NEW n \in Int, n >= 2,
           c \notin BannedIn(s, n),
           NEW e \in n..Len(s)
    PROVE  GramIn(Append(s, c), e, n) # GramIn(Append(s, c), Len(s) + 1, n)
<1> SUFFICES ASSUME GramIn(Append(s, c), e, n) = GramIn(Append(s, c), Len(s) + 1, n) PROVE FALSE
  OBVIOUS
<1>1. PICK w : w = Append(s, c)  BY Zenon
<1>2. PICK L \in Nat : L = Len(s) /\ e <= L /\ n <= e  OBVIOUS
<1>3. /\ w \in Seq(S) /\ Len(w) = L + 1 /\ w[L + 1] = c
      /\ \A i \in 1..L : w[i] = s[i]
  BY <1>1, <1>2
<1>4. \A j \in 1..n : SubSeq(w, e - n + 1, e)[j] = w[e - n + j]  BY <1>2, <1>3
<1>5. \A j \in 1..n : SubSeq(w, L + 1 - n + 1, L + 1)[j] = w[L + 1 - n + j]  BY <1>2, <1>3
<1>6. \A j \in 1..n : w[e - n + j] = w[L + 1 - n + j]
  <2>1. SubSeq(w, e - n + 1, e) = SubSeq(w, L + 1 - n + 1, L + 1)  BY <1>1, <1>2 DEF GramIn
  <2> QED  BY <1>4, <1>5, <2>1
<1>7. \A j \in 1..(n - 1) : s[e - n + j] = s[L + 1 - n + j]
  <2> SUFFICES ASSUME NEW j \in 1..(n - 1) PROVE s[e - n + j] = s[L + 1 - n + j]  BY Zenon
  <2>1. e - n + j \in 1..L /\ L + 1 - n + j \in 1..L /\ j \in 1..n  BY <1>2
  <2> QED  BY <1>3, <1>6, <2>1, Zenon
<1>8. s[e] = c
  <2>1. n \in 1..n /\ e - n + n = e /\ L + 1 - n + n = L + 1 /\ e \in 1..L  BY <1>2
  <2> QED  BY <1>3, <1>6, <2>1, Zenon
<1>9. PICK k \in 1..(L - n + 1) : k = e - n + 1  BY <1>2
<1>10. SubSeq(s, k, k + n - 2) = SubSeq(s, L - n + 2, L)
  <2>1. PICK p : p = SubSeq(s, k, k + n - 2)  BY Zenon
  <2>2. PICK q : q = SubSeq(s, L - n + 2, L)  BY Zenon
  <2>3. p \in Seq(S) /\ Len(p) = n - 1 /\ \A j \in 1..(n - 1) : p[j] = s[k - 1 + j]
    BY <1>2, <1>9, <2>1
  <2>4. q \in Seq(S) /\ Len(q) = n - 1 /\ \A j \in 1..(n - 1) : q[j] = s[L - n + 1 + j]
    BY <1>2, <2>2
  <2>5. \A j \in 1..(n - 1) : p[j] = q[j]
    <3> SUFFICES ASSUME NEW j \in 1..(n - 1) PROVE p[j] = q[j]  OBVIOUS
    <3>1. k - 1 + j = e - n + j /\ L - n + 1 + j = L + 1 - n + j  BY <1>2, <1>9
    <3> QED  BY <1>7, <2>3, <2>4, <3>1, Zenon
  <2> QED  BY <2>1, <2>2, <2>3, <2>4, <2>5, SeqEqual, Zenon
<1>11. s[k + n - 1] = c
  <2>1. k + n - 1 = e  BY <1>2, <1>9
  <2> QED  BY <1>8, <2>1
<1>12. c \in BannedIn(s, n)
  <2> DEFINE K == {i \in 1..(Len(s) - n + 1) :
                     SubSeq(s, i, i + n - 2) = SubSeq(s, Len(s) - n + 2, Len(s))}
  <2>1. BannedIn(s, n) = {s[i + n - 1] : i \in K}
    <3>1. ~(n < 2 \/ Len(s) < n)  BY <1>2
    <3> QED  BY <3>1, Zenon DEF BannedIn
  <2>2. k \in K  BY <1>2, <1>9, <1>10
  <2> HIDE DEF K
  <2> QED  BY <1>11, <2>1, <2>2
<1> QED  BY <1>12

LEMMA GramsGrow ==
    ASSUME NEW S, NEW s \in Seq(S), NEW c \in S, NEW n \in Int, NEW l \in Nat, l <= Len(s),
           NoRepeats(s, l, n),
           GenTokens \subseteq BannedIn(s, n) \/ c \notin BannedIn(s, n)
    PROVE  NoRepeats(Append(s, c), l, n)
<1>1. PICK w : w = Append(s, c)  BY Zenon
<1>2. w \in Seq(S) /\ Len(w) = Len(s) + 1 /\ Len(s) \in Nat  BY <1>1
<1> SUFFICES ASSUME n >= 2, NEW k \in (l + 1)..Len(w), NEW e \in n..(k - 1),
                    GramIn(w, e, n) = GramIn(w, k, n)
             PROVE  GenTokens \subseteq BannedIn(SubSeq(w, 1, k - 1), n)
  BY <1>1 DEF NoRepeats
<1>3. 1 \in 1..(Len(s) + 1)  BY <1>2
<1>4. SubSeq(w, 1, k - 1) = SubSeq(s, 1, k - 1)
  <2>1. k - 1 \in 0..Len(s)  BY <1>2
  <2> QED  BY <1>1, <1>3, <2>1, SubAppend
<1>5. CASE k <= Len(s)
  <2>1. \A m \in n..Len(s) : GramIn(w, m, n) = GramIn(s, m, n)
    <3> SUFFICES ASSUME NEW m \in n..Len(s) PROVE SubSeq(w, m - n + 1, m) = SubSeq(s, m - n + 1, m)
      BY DEF GramIn
    <3>1. m - n + 1 \in 1..(Len(s) + 1) /\ m \in 0..Len(s)  BY <1>2
    <3> QED  BY <1>1, <3>1, SubAppend
  <2>2. e \in n..Len(s) /\ k \in n..Len(s) /\ k \in (l + 1)..Len(s)  BY <1>2, <1>5
  <2>3. GramIn(s, e, n) = GramIn(s, k, n)  BY <2>1, <2>2
  <2> QED  BY <1>4, <2>2, <2>3, Zenon DEF NoRepeats
<1>6. CASE k > Len(s)
  <2>1. k = Len(s) + 1 /\ e \in n..Len(s)  BY <1>2, <1>6
  <2>2. SubSeq(s, 1, k - 1) = s
    <3>1. k - 1 = Len(s)  BY <1>2, <2>1
    <3> QED  BY <3>1
  <2>3. c \in BannedIn(s, n)  BY <1>1, <2>1, NotBanned
  <2> QED  BY <1>4, <2>2, <2>3, Zenon
<1> QED  BY <1>2, <1>5, <1>6

LEMMA NatTexts == \A s \in Seq(Nat) : s \in Seq(GenText)
<1>1. Nat \subseteq GenText  BY DEF GenText
<1> QED  BY <1>1, SeqMonotonic

(* Prompts of one length are not padded. *)
LEMMA NotPadded ==
    ASSUME NEW list \in Seq(Seq(Nat)), \A i, j \in DOMAIN list : Len(list[i]) = Len(list[j]),
           NEW m \in DOMAIN list
    PROVE  Gen!Padded(list)[m] = list[m]
<1>1. PICK L \in Nat : L = Len(list[m])
  <2>1. list[m] \in Seq(Nat)  OBVIOUS
  <2> QED  BY <2>1
<1>2. PICK lengths : lengths = {Len(list[i]) : i \in DOMAIN list}  BY Zenon
<1>3. lengths = {L}  BY <1>1, <1>2
<1>4. Gen!Max(lengths) = L
  <2>1. \A x : x \in {L} /\ (\A y \in {L} : x >= y) <=> x = L  OBVIOUS
  <2>2. Gen!Max({L}) = CHOOSE x \in {L} : \A y \in {L} : x >= y  BY DEF Gen!Max
  <2> QED  BY <1>3, <2>1, <2>2
<1>5. PICK z : z = [k \in 1..(L - L) |-> 0]  OBVIOUS
<1>6. z = <<>>
  <2>1. 1..(L - L) = {}  BY <1>1
  <2>2. z \in Seq(Nat) /\ Len(z) = 0
    <3>1. 0 \in Nat /\ L - L = 0  OBVIOUS
    <3>2. z = [k \in 1..0 |-> 0]  BY <1>5, <3>1
    <3> QED  BY <3>1, <3>2, IsASeq
  <2> QED  BY <2>2
<1>7. Gen!Padded(list)[m] = list[m] \o [k \in 1..(Gen!Max(lengths) - Len(list[m])) |-> 0]
  BY <1>2, Zenon DEF Gen!Padded
<1>8. Gen!Padded(list)[m] = list[m] \o <<>>  BY <1>1, <1>4, <1>5, <1>6, <1>7
<1>9. list[m] \in Seq(Nat)  OBVIOUS
<1> QED  BY <1>8, <1>9, ConcatEmptySeq

(* What a call starts with. *)
LEMMA NewTexts ==
    ASSUME NEW list \in Seq(Seq(Nat)), prompts' = list, current' = list,
           active' \subseteq DOMAIN list, ConfigIs'
    PROVE  TextsAre' /\ GramsNew'
<1>1. \A i \in DOMAIN list : list[i] \in Seq(Nat)  OBVIOUS
<1>2. \A i \in DOMAIN list : list[i] \in Seq(GenText) /\ Len(list[i]) <= Len(list[i])
  <2> SUFFICES ASSUME NEW i \in DOMAIN list PROVE list[i] \in Seq(GenText) /\ Len(list[i]) <= Len(list[i])
    OBVIOUS
  <2>1. Len(list[i]) \in Nat  BY <1>1
  <2> QED  BY <1>1, <2>1, NatTexts
<1>3. TextsAre'  BY <1>2 DEF TextsAre
<1>4. \A i \in DOMAIN list : \A n : NoRepeats(list[i], Len(list[i]), n)
  <2> SUFFICES ASSUME NEW i \in DOMAIN list, NEW n PROVE NoRepeats(list[i], Len(list[i]), n)
    OBVIOUS
  <2>1. (Len(list[i]) + 1)..Len(list[i]) = {}
    <3>1. Len(list[i]) \in Nat  BY <1>1
    <3> QED  BY <3>1
  <2> QED  BY <2>1 DEF NoRepeats
<1> QED  BY <1>3, <1>4 DEF GramsNew

LEMMA OverKeeps ==
    ASSUME NEW list \in Seq(Seq(Nat)), NEW out, Gen!Over(list, out), ConfigIs'
    PROVE  GenInv'
<1>1. prompts' = list /\ current' = list /\ active' = {}  BY DEF Gen!Over
<1>2. RowsMatch'  BY <1>1 DEF RowsMatch
<1> QED  BY <1>1, <1>2, NewTexts DEF GenInv

LEMMA BeginKeeps ==
    ASSUME NEW list \in Seq(Seq(Nat)), NEW isArray, NEW n, Gen!Begin(list, isArray, n), ConfigIs'
    PROVE  GenInv'
<1>1. CASE \E out : Gen!Over(list, out)  BY <1>1, OverKeeps
<1>2. CASE /\ prompts' = list /\ current' = list /\ active' = DOMAIN list
           /\ rows' = Gen!Padded(list)
  <2>1. RowsMatch'
    <3> SUFFICES ASSUME \A i, j \in DOMAIN list : Len(list[i]) = Len(list[j]), NEW i \in DOMAIN list
                 PROVE  Gen!Last(Gen!Padded(list)[i]) = Gen!Last(list[i])
      BY <1>2 DEF RowsMatch
    <3> QED  BY NotPadded, Zenon
  <2> QED  BY <1>2, <2>1, NewTexts DEF GenInv
<1> QED  BY <1>1, <1>2 DEF Gen!Begin

(* The rows of a full list are in the order of its sequences. *)
LEMMA FullOrder ==
    ASSUME NEW l \in Nat, active = 1..l
    PROVE  /\ Gen!Cardinality(active) = l
           /\ \A k \in 1..l : Gen!RowOrder[k] = k
<1>1. \A T : Gen!Cardinality(T) = Cardinality(T)  BY DEF Gen!Cardinality, Cardinality
<1>2. Gen!Cardinality(active) = l
  <2>1. Cardinality(1..l) = IF 1 > l THEN 0 ELSE l - 1 + 1  BY FS_Interval
  <2> QED  BY <1>1, <2>1
<1>3. PICK orders : orders = {order \in [1..l -> 1..l] : \A k, j \in DOMAIN order : k < j => order[k] < order[j]}
  BY Zenon
<1>4. Gen!RowOrder = CHOOSE order : order \in orders
  <2>1. Gen!RowOrder = CHOOSE order \in [1..l -> 1..l] : \A k, j \in DOMAIN order : k < j => order[k] < order[j]
    BY <1>2, Zenon DEF Gen!RowOrder
  <2> QED  BY <1>3, <2>1, Zenon
<1>5. [k \in 1..l |-> k] \in orders  BY <1>3
<1>6. Gen!RowOrder \in orders  BY <1>4, <1>5, Zenon
<1>7. PICK f \in [1..l -> 1..l] : f = Gen!RowOrder /\ \A k, j \in 1..l : k < j => f[k] < f[j]
  BY <1>3, <1>6, Zenon
<1>8. \A k \in 1..l : f[k] = k  BY <1>7, RisingIsIdentity, Zenon
<1> QED  BY <1>2, <1>7, <1>8

(* A token is appended to each active sequence it does not end. *)
LEMMA IterateKeeps == ASSUME GenInv, Gen!Iterate PROVE GenInv'
<1>1. ConfigIs /\ TextsAre /\ RowsMatch /\ GramsNew  BY DEF GenInv
<1>2. PICK chosen \in [active -> GenTokens] :
        /\ \A i \in active : chosen[i] \in Gen!Predictable(current[i])
        /\ current' = [i \in DOMAIN current |->
             IF i \notin active \/ i \in Gen!Ending(chosen) THEN current[i] ELSE Append(current[i], chosen[i])]
        /\ active' = active \ Gen!Ending(chosen)
        /\ rows' = [k \in 1..Gen!Cardinality(active) |-> <<chosen[Gen!RowOrder[k]]>>]
  BY Zenon DEF Gen!Iterate
<1>3. UNCHANGED <<config, prompts>>  BY DEF Gen!Iterate
<1>4. ConfigIs'  BY <1>1, <1>3 DEF ConfigIs
<1>5. \A i \in DOMAIN prompts :
        \/ current'[i] = current[i] /\ i \notin active'
        \/ /\ i \in active /\ chosen[i] \in GenText /\ current'[i] = Append(current[i], chosen[i])
           /\ GenTokens \subseteq BannedIn(current[i], config.ngram)
                \/ chosen[i] \notin BannedIn(current[i], config.ngram)
  <2> SUFFICES ASSUME NEW i \in DOMAIN prompts, i \in active, i \notin Gen!Ending(chosen)
               PROVE  /\ chosen[i] \in GenText /\ current'[i] = Append(current[i], chosen[i])
                      /\ GenTokens \subseteq BannedIn(current[i], config.ngram)
                           \/ chosen[i] \notin BannedIn(current[i], config.ngram)
    BY <1>1, <1>2 DEF TextsAre
  <2>1. chosen[i] \in GenText  BY <1>2 DEF GenText
  <2>2. current'[i] = Append(current[i], chosen[i])  BY <1>1, <1>2 DEF TextsAre
  <2>3. Gen!Banned(current[i]) = BannedIn(current[i], config.ngram)
    BY Zenon DEF Gen!Banned, BannedIn
  <2>4. chosen[i] \in Gen!Predictable(current[i])  BY <1>2
  <2>5. GenTokens \subseteq Gen!Banned(current[i]) \/ chosen[i] \notin Gen!Banned(current[i])
    BY <2>4 DEF Gen!Predictable
  <2> QED  BY <2>1, <2>2, <2>3, <2>5
<1>6. TextsAre'
  <2> SUFFICES ASSUME NEW i \in DOMAIN prompts
               PROVE  current'[i] \in Seq(GenText) /\ Len(prompts[i]) <= Len(current'[i])
    BY <1>1, <1>2, <1>3 DEF TextsAre
  <2>1. current[i] \in Seq(GenText) /\ Len(prompts[i]) <= Len(current[i])  BY <1>1 DEF TextsAre
  <2>2. Len(prompts[i]) \in Nat
    <3>1. prompts[i] \in Seq(Nat)  BY <1>1 DEF TextsAre
    <3> QED  BY <3>1
  <2>3. CASE current'[i] = current[i]  BY <2>1, <2>3
  <2>4. CASE chosen[i] \in GenText /\ current'[i] = Append(current[i], chosen[i])
    <3>1. Append(current[i], chosen[i]) \in Seq(GenText) /\ Len(Append(current[i], chosen[i])) = Len(current[i]) + 1
      BY <2>1, <2>4
    <3>2. Len(current[i]) \in Nat  BY <2>1
    <3> QED  BY <2>1, <2>2, <2>4, <3>1, <3>2
  <2> QED  BY <1>5, <2>3, <2>4
<1>7. GramsNew'
  <2> SUFFICES ASSUME NEW i \in DOMAIN prompts
               PROVE  NoRepeats(current'[i], Len(prompts[i]), config.ngram)
    BY <1>3 DEF GramsNew
  <2>1. /\ current[i] \in Seq(GenText) /\ Len(prompts[i]) <= Len(current[i])
        /\ NoRepeats(current[i], Len(prompts[i]), config.ngram)
    BY <1>1 DEF TextsAre, GramsNew
  <2>2. Len(prompts[i]) \in Nat
    <3>1. prompts[i] \in Seq(Nat)  BY <1>1 DEF TextsAre
    <3> QED  BY <3>1
  <2>3. config.ngram \in Int  BY <1>1 DEF ConfigIs
  <2>4. CASE current'[i] = current[i]  BY <2>1, <2>4
  <2>5. CASE /\ chosen[i] \in GenText /\ current'[i] = Append(current[i], chosen[i])
             /\ GenTokens \subseteq BannedIn(current[i], config.ngram)
                  \/ chosen[i] \notin BannedIn(current[i], config.ngram)
    <3>1. NoRepeats(Append(current[i], chosen[i]), Len(prompts[i]), config.ngram)
      BY <2>1, <2>2, <2>3, <2>5, GramsGrow
    <3> QED  BY <2>5, <3>1
  <2> QED  BY <1>5, <2>4, <2>5
<1>8. RowsMatch'
  <2> SUFFICES ASSUME Len(rows') = Len(prompts), NEW i \in active'
               PROVE  Gen!Last(rows'[i]) = Gen!Last(current'[i])
    BY <1>3 DEF RowsMatch
  <2>1. PICK l \in Nat : l = Len(prompts) /\ DOMAIN prompts = 1..l  BY <1>1 DEF TextsAre
  <2>2. active \subseteq 1..l  BY <1>1, <2>1 DEF TextsAre
  <2>3. \A T : Gen!Cardinality(T) = Cardinality(T)  BY DEF Gen!Cardinality, Cardinality
  <2>4. IsFiniteSet(1..l) /\ Cardinality(1..l) = l
    <3>1. IsFiniteSet(1..l) /\ Cardinality(1..l) = IF 1 > l THEN 0 ELSE l - 1 + 1  BY FS_Interval
    <3> QED  BY <3>1
  <2>5. IsFiniteSet(active) /\ Cardinality(active) \in Nat
    BY <2>2, <2>4, FS_Subset, FS_CardinalityType, Zenon
  <2>6. Len(rows') = Cardinality(active)
    <3>1. PICK c \in Nat : c = Gen!Cardinality(active)  BY <2>3, <2>5
    <3>2. rows' = [k \in 1..c |-> <<chosen[Gen!RowOrder[k]]>>]  BY <1>2, <3>1
    <3>3. Len(rows') = c  BY <3>2
    <3> QED  BY <2>3, <3>1, <3>3
  <2>7. active = 1..l
    <3>1. Cardinality(active) = Cardinality(1..l)  BY <2>1, <2>4, <2>6
    <3> QED  BY <2>2, <2>4, <3>1, FS_Subset
  <2>8. i \in 1..l /\ i \in active /\ i \in DOMAIN prompts  BY <1>2, <2>1, <2>7
  <2>9. /\ Gen!Cardinality(active) = l
        /\ Gen!RowOrder[i] = i
    BY <2>7, <2>8, FullOrder
  <2>10. rows'[i] = <<chosen[i]>>  BY <1>2, <2>8, <2>9
  <2>11. current'[i] = Append(current[i], chosen[i]) /\ current[i] \in Seq(GenText) /\ chosen[i] \in GenText
    BY <1>1, <1>5, <2>8 DEF TextsAre
  <2>12. Gen!Last(current'[i]) = chosen[i]
    <3>1. PICK s \in Seq(GenText) : s = current[i]  BY <2>11
    <3>2. PICK c \in GenText : c = chosen[i]  BY <2>11
    <3>3. Append(s, c)[Len(Append(s, c))] = c  OBVIOUS
    <3> QED  BY <2>11, <3>1, <3>2, <3>3 DEF Gen!Last
  <2>13. Gen!Last(rows'[i]) = chosen[i]
    <3>1. PICK r : r = <<chosen[i]>>  BY Zenon
    <3>2. Len(r) = 1 /\ r[1] = chosen[i]  BY <3>1
    <3> QED  BY <2>10, <3>1, <3>2 DEF Gen!Last
  <2> QED  BY <2>12, <2>13
<1> QED  BY <1>4, <1>6, <1>7, <1>8 DEF GenInv

LEMMA GenNext == GenInv /\ [Gen!Next]_(Gen!vars) => GenInv'
<1> SUFFICES ASSUME GenInv, [Gen!Next]_(Gen!vars) PROVE GenInv'  OBVIOUS
<1>1. ConfigIs /\ TextsAre /\ RowsMatch /\ GramsNew  BY DEF GenInv
<1>2. \A list \in GenBatches : list \in Seq(Seq(Nat))  BY GenerationAssumption
<1>3. UNCHANGED config => ConfigIs'  BY <1>1 DEF ConfigIs
<1>4. CASE Gen!Sample  BY <1>2, <1>3, <1>4, BeginKeeps DEF Gen!Sample
<1>5. CASE Gen!GenerateText  BY <1>2, <1>3, <1>5, BeginKeeps, OverKeeps, Zenon DEF Gen!GenerateText
<1>6. CASE Gen!Speculate
  <2>1. config' = [config EXCEPT !.method = "greedy"]  BY <1>6 DEF Gen!Speculate
  <2>2. DOMAIN config' = DOMAIN config /\ config'.ngram = config.ngram  BY <1>1, <2>1 DEF ConfigIs
  <2>3. ConfigIs'  BY <1>1, <2>2 DEF ConfigIs
  <2> QED  BY <1>2, <1>6, <2>3, BeginKeeps DEF Gen!Speculate
<1>7. CASE Gen!BeamSearch \/ Gen!ContrastiveSearch \/ Gen!MirostatSampling
  <2>1. PICK list \in GenBatches, beam \in BOOLEAN : \E out : Gen!Over(list, out)
    BY <1>7, Zenon DEF Gen!BeamSearch, Gen!ContrastiveSearch, Gen!MirostatSampling, Gen!Search
  <2>2. UNCHANGED config
    BY <1>7 DEF Gen!BeamSearch, Gen!ContrastiveSearch, Gen!MirostatSampling, Gen!Search
  <2> QED  BY <1>2, <1>3, <2>1, <2>2, OverKeeps
<1>8. CASE Gen!SampleWithContext
  <2>1. <<>> \in Seq(Seq(Nat))  OBVIOUS
  <2>2. Gen!Over(<<>>, "raised") /\ UNCHANGED config  BY <1>8 DEF Gen!SampleWithContext
  <2> QED  BY <1>3, <2>1, <2>2, OverKeeps, Zenon
<1>9. CASE Gen!Iterate  BY <1>9, IterateKeeps
<1>10. CASE UNCHANGED <<config, prompts, current, active, rows>>
  BY <1>1, <1>10 DEF GenInv, ConfigIs, TextsAre, RowsMatch, GramsNew
<1> QED
  BY <1>4, <1>5, <1>6, <1>7, <1>8, <1>9, <1>10 DEF Gen!Next, Gen!Raise, Gen!Return, Gen!vars

LEMMA GenHolds ==
    Gen!Init /\ [][Gen!Next]_(Gen!vars) => [](Gen!RowsAreTheirOwn /\ Gen!NgramsDoNotRepeat)
<1>1. Gen!Init => GenInv
  <2> SUFFICES ASSUME Gen!Init PROVE GenInv  OBVIOUS
  <2>1. /\ config \in Configs /\ prompts = <<>> /\ current = <<>> /\ active = {} /\ rows = <<>>
    BY DEF Gen!Init
  <2>2. ConfigIs  BY <2>1, GenerationAssumption DEF ConfigIs
  <2>3. PICK e \in Seq(Seq(Nat)) : e = <<>>  BY EmptySeq, Zenon
  <2>4. DOMAIN e = {}  BY <2>3
  <2>5. prompts = e /\ current = e  BY <2>1, <2>3
  <2>6. TextsAre /\ RowsMatch /\ GramsNew  BY <2>1, <2>4, <2>5 DEF TextsAre, RowsMatch, GramsNew
  <2> QED  BY <2>2, <2>6 DEF GenInv
<1>2. GenInv => Gen!RowsAreTheirOwn /\ Gen!NgramsDoNotRepeat
  <2> SUFFICES ASSUME GenInv PROVE Gen!RowsAreTheirOwn /\ Gen!NgramsDoNotRepeat  OBVIOUS
  <2>1. Gen!RowsAreTheirOwn
    BY DEF GenInv, RowsMatch, Gen!RowsAreTheirOwn, Gen!Sampling, Gen!MaskFits
  <2>2. Gen!NgramsDoNotRepeat
    <3> SUFFICES ASSUME config.ngram >= 2, NEW i \in DOMAIN current,
                        NEW k \in (Len(prompts[i]) + 1)..Len(current[i]), NEW e \in config.ngram..(k - 1),
                        Gen!Gram(current[i], e) = Gen!Gram(current[i], k)
                 PROVE  GenTokens \subseteq Gen!Banned(SubSeq(current[i], 1, k - 1))
      BY Zenon DEF Gen!NgramsDoNotRepeat
    <3>1. NoRepeats(current[i], Len(prompts[i]), config.ngram)  BY DEF GenInv, GramsNew, TextsAre
    <3>2. GramIn(current[i], e, config.ngram) = GramIn(current[i], k, config.ngram)
      BY Zenon DEF Gen!Gram, GramIn
    <3>3. GenTokens \subseteq BannedIn(SubSeq(current[i], 1, k - 1), config.ngram)
      BY <3>1, <3>2, Zenon DEF NoRepeats
    <3>4. Gen!Banned(SubSeq(current[i], 1, k - 1)) = BannedIn(SubSeq(current[i], 1, k - 1), config.ngram)
      BY Zenon DEF Gen!Banned, BannedIn
    <3> QED  BY <3>3, <3>4
  <2> QED  BY <2>1, <2>2
<1> QED  BY GenNext, <1>1, <1>2, PTL

-----------------------------------------------------------------------------
(*****************************************************************************)
(* The run of all parts.                                                     *)
(*****************************************************************************)
LEMMA ModelRunComponents ==
    Spec => /\ Work!Init /\ [][Work!Next]_(Work!vars)
            /\ Nexus!Init /\ [][Nexus!Next]_(Nexus!vars)
            /\ Base!Init /\ [][Base!Next]_(Base!vars)
            /\ Migration!Init /\ [][Migration!Next]_(Migration!vars)
            /\ Alg!Init /\ [][Alg!Next]_(Alg!vars)
            /\ Gen!Init /\ [][Gen!Next]_(Gen!vars)
<1>1. Init => Work!Init /\ Nexus!Init /\ Base!Init /\ Migration!Init /\ Alg!Init /\ Gen!Init
  BY DEF Init
<1>2. [Next]_vars => [Work!Next]_(Work!vars)
  <2>1. workVars' = workVars => UNCHANGED Work!vars
    BY DEF workVars, Work!vars, Work!files, Work!external
  <2>2. Next => Work!Next \/ workVars' = workVars  BY DEF Next
  <2>3. UNCHANGED vars => workVars' = workVars  BY DEF vars
  <2> QED  BY <2>1, <2>2, <2>3
<1>3. [Next]_vars => [Nexus!Next]_(Nexus!vars)
  BY DEF Next, vars, nexusVars, Nexus!vars
<1>4. [Next]_vars => [Base!Next]_(Base!vars)
  BY DEF Next, vars, baseVars, Base!vars
<1>5. [Next]_vars => [Migration!Next]_(Migration!vars)
  BY DEF Next, vars, migrationVars, Migration!vars
<1>6. [Next]_vars => [Alg!Next]_(Alg!vars)
  BY DEF Next, vars, algVars, Alg!vars
<1>7. [Next]_vars => [Gen!Next]_(Gen!vars)
  BY DEF Next, vars, genVars, Gen!vars
<1> QED  BY <1>1, <1>2, <1>3, <1>4, <1>5, <1>6, <1>7, PTL DEF Spec

(* full_fledged_workout04.py: for any number of cases, tokens and outages, after     *)
(* suite 3b the word list is what it was, however its cases ended; a RAG scenario's  *)
(* database is gone before the next one; saved results are of all combinations.      *)
THEOREM WorkoutStaysClean == Spec => []WorkoutCleansUp
<1>1. Work!WordlistRestored /\ Work!NoDatabaseLeft /\ Work!SavedIsWhole => WorkoutCleansUp
  BY DEF WorkoutCleansUp
<1> QED  BY ModelRunComponents, WorkoutHolds, <1>1, PTL

(* importer_exporter.py, tissdb_migration_tool.py: for any documents, keys and       *)
(* values, and any way a text is read that settles, whatever fails on the way: the   *)
(* number an import reports is what it stored, in the file's order and nothing       *)
(* twice; a round trip through one tool without a failure keeps every plain value,   *)
(* and a second one through CSV or SQL changes nothing more.                         *)
THEOREM MigrationKeepsDocuments == Spec => []ImportsKeepDocuments
<1>1. /\ Migration!CountIsStored /\ Migration!NoneTwice
      /\ Migration!TripKeepsValues /\ Migration!TripSettles
      => ImportsKeepDocuments
  BY DEF ImportsKeepDocuments
<1> QED  BY ModelRunComponents, MigrationHolds, <1>1, PTL

(* knowledge_base.py, knowledge_updater.py: for any texts, queries and scores,       *)
(* whichever thread adds and whatever fails half way, what is in the database is     *)
(* cached as often; a remembered answer was the best of the texts of its time; and   *)
(* start and stop leave one updater thread at most.                                  *)
THEOREM KnowledgeStays ==
    Spec => [](part = "base" => /\ Base!StoredIsCached /\ Base!AnswersWereRight
                                /\ Base!OneUpdaterThread)
<1>1. Base!StoredIsCached /\ Base!AnswersWereRight /\ Base!OneUpdaterThread
      => (part = "base" => /\ Base!StoredIsCached /\ Base!AnswersWereRight
                           /\ Base!OneUpdaterThread)
  OBVIOUS
<1> QED  BY ModelRunComponents, BaseHolds, <1>1, PTL

(* nexus_flow/graph_logic.py: for any list of graphs and any number of retries,      *)
(* nothing is put into a database or a collection that was not made before, and the  *)
(* prompt's graphs are ones the server gave, in the order they are listed.           *)
THEOREM NexusStaysInOrder ==
    Spec => [](part = "nexus" => Nexus!StoreIsBuiltInOrder /\ Nexus!ContextIsRead)
<1>1. Nexus!StoreIsBuiltInOrder /\ Nexus!ContextIsRead
      => (part = "nexus" => Nexus!StoreIsBuiltInOrder /\ Nexus!ContextIsRead)
  OBVIOUS
<1> QED  BY ModelRunComponents, NexusHolds, <1>1, PTL

(* core/generation/generator.py: for any batches of prompts, tokens and              *)
(* configurations, whichever sequences have ended, the logits that decide a          *)
(* sequence's next token come from its own last token when the prompts are of one    *)
(* length; and no n-gram of two or more tokens is generated twice while another      *)
(* token is left.                                                                    *)
THEOREM RowsStayTheirOwn == Spec => []RowsAreTheirOwn
<1>1. Gen!RowsAreTheirOwn /\ Gen!NgramsDoNotRepeat => RowsAreTheirOwn  BY DEF RowsAreTheirOwn
<1> QED  BY ModelRunComponents, GenHolds, <1>1, PTL

(* core/generation/alg_generator.py: for any tokens, prompts, words and intervals,   *)
(* and any number of calls, new generators and failed writes, the repetition penalty *)
(* sees the newest token; while no write has failed, a word enters the word list     *)
(* once, and a dynamic revision returns with every token since its last save but one *)
(* in the file.                                                                      *)
THEOREM SessionStaysKept == Spec => []SessionIsKept
<1>1. Alg!PenaltySeesAll /\ Alg!NoWordTwice /\ Alg!TempHoldsTheTail => SessionIsKept
  BY DEF SessionIsKept
<1> QED  BY ModelRunComponents, AlgHolds, <1>1, PTL
================================================================================
