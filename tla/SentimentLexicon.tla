---------------------------- MODULE SentimentLexicon ----------------------------
(* Where the evaluation's sentiments come from: the base lexicon                 *)
(* (sentiments.cat) and the corpus give a corpus lexicon                         *)
(* (evaluation/create_corpus_sentiments.py, whose distance between words is      *)
(* generate_similar.py's), and core/sentiment.py's analyzer reads a lexicon.     *)
(* A word is a sequence of letters; a line of a file is a record of its kind.    *)
EXTENDS Integers, Sequences, SequencesExt, FiniteSets, FiniteSetsExt, Functions

CONSTANTS BaseLines,   \* the lines sentiments.cat may have: headings, entries, other
          Texts,       \* the corpora: sequences of words
          MaxBase,     \* bound: lines of sentiments.cat
          Threshold, CorpusLimit, BaseLimit, \* the arguments of create_corpus_sentiments
          Stems        \* the words that an entry's word stands for without its * and @

Unset == "none"

VARIABLES base,      \* the lines of sentiments.cat
          corpus,    \* the words of the corpus, in the order they are scanned
          lexicon,   \* the lines of corpus_sentiments.cat
          dictionary,\* the words of corpus_dict.json
          analyzer,  \* sentiment_scores of an analyzer, its bias, and the file it was read from
          failed     \* whether a write of the corpus lexicon failed

vars == <<base, corpus, lexicon, dictionary, analyzer, failed>>

Init ==
  /\ base \in SeqOf(BaseLines, MaxBase) /\ corpus \in Texts
  /\ lexicon = <<>> /\ dictionary = <<>> /\ failed = FALSE
  /\ analyzer = [scores |-> <<>>, bias |-> {}, from |-> Unset]

-----------------------------------------------------------------------------
\* A plausible bug: a letter that differs costs nothing.
NextRowFree(row, letter, t) ==
  LET f[j \in 0..Len(t)] ==
        IF j = 0 THEN row[0] + 1
        ELSE Min({row[j] + 1, f[j - 1] + 1, row[j - 1]}) IN
  f

\* Row by row: a row gives the distances of a prefix of `s` from the prefixes of `t`.
NextRow(row, letter, t) ==
  LET f[j \in 0..Len(t)] ==
        IF j = 0 THEN row[0] + 1
        ELSE Min({row[j] + 1, f[j - 1] + 1,
                  row[j - 1] + (IF letter = t[j] THEN 0 ELSE 1)}) IN
  f

LevenshteinDistance(s1, s2) ==
  LET s == IF Len(s1) < Len(s2) THEN s2 ELSE s1
      t == IF Len(s1) < Len(s2) THEN s1 ELSE s2 IN
  IF t = <<>> THEN Len(s)
  ELSE FoldLeft(LAMBDA row, letter : NextRow(row, letter, t), [j \in 0..Len(t) |-> j], s)[Len(t)]

\* The words of a sequence, without repetitions, in the order they first come.
InOrder(words) == FoldLeft(LAMBDA seen, w : IF Contains(seen, w) THEN seen ELSE Append(seen, w),
                           <<>>, words)

\* analyze_similarity, for one word: the dictionary's words by distance.
TopMatches(word, words, n) ==
  LET nearest == SetToSortSeq(DOMAIN words,
        LAMBDA i, j : \/ LevenshteinDistance(word, words[i]) < LevenshteinDistance(word, words[j])
                      \/ /\ LevenshteinDistance(word, words[i]) = LevenshteinDistance(word, words[j])
                         /\ i < j) IN
  [k \in 1..Min({n, Len(words)}) |-> words[nearest[k]]]

\* analyze_sentiment_similarity, for one word: the first of the nearest.
Closest(word, words) ==
  words[CHOOSE i \in DOMAIN words :
          /\ \A j \in DOMAIN words : LevenshteinDistance(word, words[i]) <= LevenshteinDistance(word, words[j])
          /\ \A j \in 1..(i - 1) : LevenshteinDistance(word, words[i]) < LevenshteinDistance(word, words[j])]

-----------------------------------------------------------------------------
Score(category) == CASE category = "NEGATIVE" -> -1 [] category = "POSITIVE" -> 1 [] OTHER -> 0

\* load_base_sentiment_lexicon: an entry has the score of the heading above it; an entry
\* seen again replaces the score and keeps its place.
LoadBase(lines) ==
  FoldLeft(LAMBDA acc, line :
             IF line.kind = "heading" THEN [acc EXCEPT !.category = line.category]
             ELSE IF line.kind = "entry"
             THEN LET word == Stems[line.word] IN
                  [acc EXCEPT !.order = InOrder(Append(@, word)),
                              !.score = (word :> Score(acc.category)) @@ @]
             ELSE acc,
           [category |-> Unset, order |-> <<>>, score |-> <<>>], lines)

\* scan_corpus_words and Counter.most_common: by count, then by first occurrence.
MostCommon(words, limit) ==
  LET distinct == InOrder(words)
      Count(w) == Cardinality({i \in DOMAIN words : words[i] = w})
      order == SetToSortSeq(DOMAIN distinct,
        LAMBDA i, j : \/ Count(distinct[i]) > Count(distinct[j])
                      \/ Count(distinct[i]) = Count(distinct[j]) /\ i < j) IN
  [k \in 1..Min({limit, Len(distinct)}) |-> distinct[order[k]]]

\* infer_corpus_sentiments, for one of the most common words.
Inferred(word, lexiconOfBase) ==
  LET known == SubSeq(lexiconOfBase.order, 1, Min({BaseLimit, Len(lexiconOfBase.order)}))
      near == Closest(word, known) IN
  IF word \in DOMAIN lexiconOfBase.score THEN lexiconOfBase.score[word]
  ELSE IF known # <<>> /\ LevenshteinDistance(word, near) <= Threshold
  THEN lexiconOfBase.score[near] ELSE 0

\* The script: with no base lexicon or no words it exits.  A file that cannot be opened is
\* left as it is, one that cannot be written to its end keeps some of the lines.
CreateCorpusSentiments ==
  /\ LoadBase(base).order # <<>> /\ corpus # <<>>
  /\ LET words == MostCommon(corpus, CorpusLimit)
         lines == [k \in DOMAIN words |-> [kind |-> "score", word |-> words[k],
                                           score |-> Inferred(words[k], LoadBase(base))]] IN
     \/ lexicon' = lines /\ failed' = FALSE
     \/ /\ lexicon' \in {lexicon} \cup {SubSeq(lines, 1, n) : n \in 0..(Len(lines) - 1)}
        /\ failed' = TRUE
  /\ UNCHANGED <<base, corpus, dictionary, analyzer>>

\* create_dict: the corpus's words, the most common first.
CreateDict ==
  /\ corpus # <<>>
  /\ dictionary' = MostCommon(corpus, CorpusLimit)
  /\ UNCHANGED <<base, corpus, lexicon, analyzer, failed>>

\* SentimentAnalyzer: only lines of a word, a comma and a number are read.
LoadLexicon(lines) ==
  LET scores == SelectSeq(lines, LAMBDA line : line.kind = "score")
      LastOf(w) == Max({i \in DOMAIN scores : scores[i].word = w}) IN
  [w \in {scores[i].word : i \in DOMAIN scores} |-> scores[LastOf(w)].score]

\* The words that a bias for a sentiment favours, all with the same strength.
GetSentimentBias(scores, sentiment) ==
  {w \in DOMAIN scores : \/ sentiment = "positive" /\ scores[w] > 0
                         \/ sentiment = "negative" /\ scores[w] < 0}

Analyze(lines, from) ==
  \E sentiment \in {"positive", "negative", "neutral"} :
    analyzer' = [scores |-> LoadLexicon(lines), from |-> from,
                 bias |-> GetSentimentBias(LoadLexicon(lines), sentiment)]

\* The heat map and the workout's third suite read the corpus lexicon, ...
AnalyzeCorpusLexicon ==
  /\ Analyze(lexicon, "lexicon")
  /\ UNCHANGED <<base, corpus, lexicon, dictionary, failed>>

\* ... generation with sentiment and the refinement the base lexicon.
AnalyzeBaseLexicon ==
  /\ Analyze(base, "base")
  /\ UNCHANGED <<base, corpus, lexicon, dictionary, failed>>

Next == CreateCorpusSentiments \/ CreateDict \/ AnalyzeCorpusLexicon \/ AnalyzeBaseLexicon

Spec == Init /\ [][Next]_vars

-----------------------------------------------------------------------------
TypeOK ==
  /\ \A i \in DOMAIN lexicon : lexicon[i].score \in -1..1
  /\ failed \in BOOLEAN /\ analyzer.from \in {Unset, "base", "lexicon"}

\* The edit distance by its definition, on suffixes.
EditDistance(s, t) ==
  LET d[i \in 1..(Len(s) + 1), j \in 1..(Len(t) + 1)] ==
        IF i > Len(s) THEN Len(t) - j + 1
        ELSE IF j > Len(t) THEN Len(s) - i + 1
        ELSE IF s[i] = t[j] THEN d[i + 1, j + 1]
        ELSE 1 + Min({d[i + 1, j], d[i, j + 1], d[i + 1, j + 1]}) IN
  d[1, 1]

\* create_corpus_sentiments.py:94-131: a word of the corpus that the base lexicon lacks has
\* the score of a word of it no further away than the threshold and than any other of the
\* words that are looked at, and 0 when there is none.
ScoresComeFromTheNearest ==
  failed = FALSE => LET known == LoadBase(base)
                        looked == {known.order[i] : i \in 1..Min({BaseLimit, Len(known.order)})} IN
    \A i \in DOMAIN lexicon :
      LET w == lexicon[i].word
          near == {v \in looked : /\ EditDistance(w, v) <= Threshold
                                  /\ \A u \in looked : EditDistance(w, v) <= EditDistance(w, u)} IN
      IF w \in Range(known.order) THEN lexicon[i].score = known.score[w]
      ELSE IF near = {} THEN lexicon[i].score = 0
      ELSE lexicon[i].score \in {known.score[v] : v \in near}

\* generate_similar.py:58-101, refine_sentiments.py:30-71: both scripts name the same word of
\* a dictionary as the nearest.
NearestAgree ==
  dictionary # <<>> => \A w \in Range(corpus) \cup Range(LoadBase(base).order) :
    TopMatches(w, dictionary, 2)[1] = Closest(w, dictionary)

\* create_corpus_sentiments.py:133-143, sentiment.py:16-36: an analyzer of the lexicon that
\* was written has a score for each of the most common words, and only for them.
AnalyzerReadsWhatWasWritten ==
  [][ analyzer'.from = "lexicon" /\ lexicon # <<>> /\ ~failed /\ analyzer # analyzer'
        => DOMAIN analyzer'.scores = Range(MostCommon(corpus, CorpusLimit)) ]_vars

\* generate_with_sentiment.py:23, 85: the analyzer of the base lexicon has scores for the
\* words of the base lexicon.
BaseLexiconIsRead ==
  analyzer.from = "base" => Range(LoadBase(base).order) \subseteq DOMAIN analyzer.scores
=============================================================================
