----------------------------- MODULE RuleEnforcer -----------------------------
(* The suite of rules that cleans up generated text (core/rules/enforcer.py).  *)
(* A text is a sequence of tokens: spaces, punctuation marks, and words, which *)
(* are a lexicon entry and whether they are capitalised.  Each rule is a step; *)
(* most only report what they find, and the report is kept by rule.            *)
EXTENDS Naturals, Sequences, SequencesExt

CONSTANTS Words,        \* the lexicon: word |-> the lists and suffixes it is in
          Begins(_, _), \* whether a word is how another one begins
          Strictness,   \* strictness levels tried, in tenths
          MaxTokens     \* bound: tokens of a generated text

Letterless(c) == [word |-> c, capital |-> FALSE]
Space == Letterless(" ")
Ends == {Letterless("."), Letterless("?")}
Marks == Ends \cup {Letterless(",")}
Tokens == {Space} \cup Marks \cup [word : DOMAIN Words, capital : {FALSE}]
IsWord(token) == token.word \in DOMAIN Words

VARIABLES given,      \* the text as it was generated
          text,       \* the text so far
          strictness,
          next,       \* index of the rule to apply; 0 while the text is generated
          reports     \* the rules that reported something

vars == <<given, text, strictness, next, reports>>

Init ==
  /\ given = <<>> /\ text = <<>> /\ next = 0 /\ reports = {}
  /\ strictness \in Strictness

\* Two words in a row would be one.
Generate ==
  /\ next = 0 /\ Len(given) < MaxTokens
  /\ \E t \in Tokens :
       /\ ~(IsWord(t) /\ given # <<>> /\ IsWord(Last(given)))
       /\ given' = Append(given, t)
  /\ UNCHANGED <<text, strictness, next, reports>>

Start ==
  /\ next = 0 /\ next' = 1 /\ text' = given
  /\ UNCHANGED <<given, strictness, reports>>

(* the rules that change the text ----------------------------------------------------*)

Strip(t) == LET words == {i \in DOMAIN t : t[i] # Space} IN
            IF words = {} THEN <<>>
            ELSE SubSeq(t, CHOOSE i \in words : \A j \in words : i <= j,
                           CHOOSE i \in words : \A j \in words : j <= i)
Blank(t) == Strip(t) = <<>>
WordsOf(t) == LET ws == SelectSeq(t, IsWord) IN [i \in DOMAIN ws |-> ws[i].word]

\* The end of the run that begins with the word at i: the words after it, spaces
\* between, that are the same.  The pattern has no word boundary at its end, so a
\* longer word that begins with it ends the run, and is counted.
RunFrom(t, i) ==
  LET Follows(j) == /\ j > i /\ IsWord(t[j]) /\ Begins(t[i].word, t[j].word)
                    /\ \A k \in i..j : IsWord(t[k]) => k = i \/ Begins(t[i].word, t[k].word)
                    /\ \A k \in (i + 1)..(j - 1) : t[k] = Space \/ (IsWord(t[k]) /\ t[k].word = t[i].word)
  IN {i} \cup {j \in DOMAIN t : Follows(j)}
LastOf(run) == CHOOSE j \in run : \A k \in run : k <= j

\* ceil(4 - 2 * strictness) repetitions are replaced by the first, which the rest
\* of a longer word stays glued to.
Repetitions == 4 - (2 * strictness) \div 10
Starts(t, i) == IsWord(t[i]) /\ Len(SetToSeq(RunFrom(t, i))) >= Repetitions
Replaced(t, i) == LET run == RunFrom(t, i) IN
                  [word |-> t[LastOf(run)].word, capital |-> t[i].capital]
RepeatedWord(t) ==
  LET Scan(acc, i) ==
        IF i <= acc.seen THEN acc
        ELSE IF Starts(t, i)
             THEN [out |-> Append(acc.out, Replaced(t, i)), seen |-> LastOf(RunFrom(t, i))]
             ELSE [acc EXCEPT !.out = Append(@, t[i])] IN
  FoldLeft(Scan, [out |-> <<>>, seen |-> 0], [i \in DOMAIN t |-> i]).out

\* \s+ before a mark goes; a mark before a non-blank gets a space, but a mark that
\* was that non-blank is not looked at again.
NoSpaceBefore(t) ==
  LET Dropped(i) == t[i] = Space /\ \E j \in (i + 1)..Len(t) :
                      t[j] \in Marks /\ \A k \in i..(j - 1) : t[k] = Space
      keep == SelectSeq([i \in DOMAIN t |-> i], LAMBDA i : ~Dropped(i)) IN
  [n \in DOMAIN keep |-> t[keep[n]]]
SpaceAfter(t) ==
  FoldLeft(LAMBDA acc, token :
             IF acc.mark /\ token # Space
             THEN [out |-> acc.out \o <<Space, token>>, mark |-> FALSE]
             ELSE [out |-> Append(acc.out, token), mark |-> token \in Marks],
           [out |-> <<>>, mark |-> FALSE], t).out

PunctuationSpacing(t) == IF strictness >= 5 THEN SpaceAfter(NoSpaceBefore(t)) ELSE t

\* A plausible bug: a sentence ends with a period only.
CapitalizationAfterPeriod(t) ==
  LET AfterEnd(i) == \E j \in 1..(i - 1) :
        t[j] = Letterless(".") /\ \A k \in (j + 1)..(i - 1) : t[k] = Space IN
  [i \in DOMAIN t |-> IF IsWord(t[i]) /\ strictness > 2 /\ (i = 1 \/ AfterEnd(i))
                      THEN [t[i] EXCEPT !.capital = TRUE] ELSE t[i]]

\* The first letter, and the letter after the end of a sentence.
Capitalization(t) ==
  LET First(i) == i = 1 /\ strictness > 0
      AfterEnd(i) == /\ strictness > 2
                     /\ \E j \in 1..(i - 1) : t[j] \in Ends /\ \A k \in (j + 1)..(i - 1) : t[k] = Space IN
  [i \in DOMAIN t |-> IF IsWord(t[i]) /\ (First(i) \/ AfterEnd(i)) THEN [t[i] EXCEPT !.capital = TRUE]
                      ELSE t[i]]

\* A text that ends in a word gets a period, if it is long enough.
MinWords == 5 - (4 * strictness) \div 10
Pieces(t) == LET spaced == {i \in DOMAIN t : t[i] # Space /\ (i = 1 \/ t[i - 1] = Space)} IN
             Len(SetToSeq(spaced))
SentenceTermination(t) ==
  IF ~Blank(t) /\ IsWord(Last(Strip(t))) /\ Pieces(t) >= MinWords
  THEN Append(t, Letterless(".")) ELSE t

\* The text cut at the ends of sentences; the last part has none, and gets a period.
Sentences(t) ==
  LET acc == FoldLeft(LAMBDA a, token :
                        IF token \in Ends
                        THEN [done |-> Append(a.done, [body |-> a.body, end |-> token]), body |-> <<>>]
                        ELSE [a EXCEPT !.body = Append(@, token)],
                      [done |-> <<>>, body |-> <<>>], t) IN
  SelectSeq(Append(acc.done, [body |-> acc.body, end |-> Letterless(".")]), LAMBDA s : ~Blank(s.body))

\* Sentences are joined again with one space, and the last gets its period.
SentenceLength(t) ==
  IF strictness = 0 THEN t
  ELSE LET s == Sentences(t)
           Whole(n) == Append(Strip(s[n].body), s[n].end) IN
       FlattenSeq([n \in DOMAIN s |-> IF n = 1 THEN Whole(n) ELSE <<Space>> \o Whole(n)])

PunctuationConsistency(t) ==
  LET single == LET keep == SelectSeq([i \in DOMAIN t |-> i],
                              LAMBDA i : ~(i > 1 /\ t[i] \in Marks /\ t[i - 1] \in Marks)) IN
                [n \in DOMAIN keep |-> t[keep[n]]] IN
  IF strictness = 0 THEN t
  ELSE SpaceAfter(NoSpaceBefore(IF strictness >= 5 THEN single ELSE t))

(* the rules that only report -----------------------------------------------------------*)

In(w, list) == list \in Words[w]
AnyIn(ws, list) == \E i \in DOMAIN ws : In(ws[i], list)
Pair(ws, P(_, _)) == \E i \in 1..(Len(ws) - 1) : P(ws[i], ws[i + 1])
SomeSentence(t, P(_)) == \E n \in DOMAIN Sentences(t) : P(Sentences(t)[n])
Above(n) == strictness > n
\* A sentence that opens with a word, and the word.
Opens(s) == IsWord(Strip(s.body)[1])
Opening(s) == Strip(s.body)[1].word

\* The rules that look for one kind of word, and the list or suffixes they use.
WordRules == [Pronoun |-> "pronoun", VerbForm |-> "verb", Adjective |-> "adjective",
              Article |-> "article", QuestionWord |-> "question",
              DeterminerQuantifier |-> "determiner"]

Noun(t) ==
  Above(8) /\ \E i \in DOMAIN t :
    IsWord(t[i]) /\ ((t[i].capital /\ ~In(t[i].word, "one letter")) \/ In(t[i].word, "noun"))
Question(t) ==
  Above(8) /\ SomeSentence(t, LAMBDA s : s.end = Letterless("?") \/ (Opens(s) /\ In(Opening(s), "question")))
CommonWordMisuse(t) == Above(5) /\ AnyIn(WordsOf(t), "confused")

SentenceStartVariety(t) ==
  LET opened == SelectSeq(Sentences(t), Opens) IN
  Above(7) /\ \E i \in 1..(Len(opened) - 2) :
                \A n \in 1..2 : Opening(opened[i + n]) = Opening(opened[i])

SubjectVerbAgreement(t) ==
  Above(7) /\ SomeSentence(t, LAMBDA s : Pair(WordsOf(s.body), LAMBDA a, b :
                \/ In(a, "singular") /\ ~In(b, "s")
                \/ In(a, "plural") /\ In(b, "s")))
NounOfAddress(t) ==
  Above(8) /\ SomeSentence(t, LAMBDA s : LET b == Strip(s.body) IN
                Len(b) > 1 /\ IsWord(b[1]) /\ b[1].capital /\ b[2] = Letterless(","))
ConjunctionUsage(t) ==
  SomeSentence(t, LAMBDA s : LET ws == WordsOf(s.body) IN
    \/ Above(7) /\ ws # <<>> /\ In(ws[1], "conjunction")
    \/ Above(9) /\ Pair(ws, LAMBDA a, b : In(a, "conjunction") /\ In(b, "conjunction")))
DoubleNegative(t) ==
  Above(7) /\ SomeSentence(t, LAMBDA s : Len(SelectSeq(WordsOf(s.body), LAMBDA w : In(w, "negation"))) > 1)
ProperNoun(t) ==
  Above(8) /\ SomeSentence(t, LAMBDA s : LET ws == SelectSeq(s.body, IsWord) IN
                \E j \in 2..Len(ws) : ws[j].capital /\ In(ws[j].word, "mixed case"))
VerbArgument(t) ==
  Above(8) /\ SomeSentence(t, LAMBDA s : LET ws == WordsOf(s.body) IN
                ws # <<>> /\ In(Last(ws), "transitive"))
WordOrder(t) ==
  Above(8) /\ SomeSentence(t, LAMBDA s : Pair(WordsOf(s.body), LAMBDA a, b :
                In(a, "be") /\ In(b, "pronoun")))

Reports(rule, t) ==
  IF rule \in DOMAIN WordRules
  THEN Above(8) /\ AnyIn(WordsOf(t), WordRules[rule])
  ELSE CASE rule = "Noun" -> Noun(t) [] rule = "Question" -> Question(t)
         [] rule = "CommonWordMisuse" -> CommonWordMisuse(t)
         [] rule = "SentenceStartVariety" -> SentenceStartVariety(t)
         [] rule = "SubjectVerbAgreement" -> SubjectVerbAgreement(t)
         [] rule = "NounOfAddress" -> NounOfAddress(t)
         [] rule = "ConjunctionUsage" -> ConjunctionUsage(t)
         [] rule = "DoubleNegative" -> DoubleNegative(t)
         [] rule = "ProperNoun" -> ProperNoun(t) [] rule = "VerbArgument" -> VerbArgument(t)
         [] rule = "WordOrder" -> WordOrder(t)
         [] OTHER -> FALSE

Changed(rule, t) ==
  CASE rule = "RepeatedWord" -> RepeatedWord(t)
    [] rule = "PunctuationSpacing" -> PunctuationSpacing(t)
    [] rule = "Capitalization" -> Capitalization(t)
    [] rule = "SentenceTermination" -> SentenceTermination(t)
    [] rule = "SentenceLength" -> SentenceLength(t)
    [] rule = "PunctuationConsistency" -> PunctuationConsistency(t)
    [] OTHER -> t

\* The default suite; order matters.
Rules == <<"RepeatedWord", "PunctuationSpacing", "Capitalization", "SentenceTermination",
           "SentenceLength", "Pronoun", "VerbForm", "Adjective", "Noun", "Article", "Question",
           "QuestionWord", "PunctuationConsistency", "CommonWordMisuse", "SentenceStartVariety",
           "SubjectVerbAgreement", "DeterminerQuantifier", "NounOfAddress", "ConjunctionUsage",
           "DoubleNegative", "ProperNoun", "VerbArgument", "WordOrder">>

ApplyRule ==
  /\ next \in 1..Len(Rules)
  /\ text' = Changed(Rules[next], text)
  /\ reports' = IF Reports(Rules[next], text) THEN reports \cup {Rules[next]} ELSE reports
  /\ next' = next + 1
  /\ UNCHANGED <<given, strictness>>

Next == Generate \/ Start \/ ApplyRule

Spec == Init /\ [][Next]_vars

Finished == next > Len(Rules)

\* Rules repair, they do not rewrite: a word of the text is lost only in front of
\* an equal word or one that begins with it, and none is added or moved.
Collapsed(ws) ==
  FoldRight(LAMBDA w, acc : IF acc # <<>> /\ Begins(w, acc[1]) THEN acc ELSE <<w>> \o acc, ws, <<>>)
WordsSurvive == Finished => Collapsed(WordsOf(text)) = Collapsed(WordsOf(given))

\* When the suite is strict enough to capitalise, a word that follows the end of
\* a sentence is capitalised in the result, though later rules cut sentences
\* apart, join them and drop marks between them.
SentencesCapitalised ==
  (Finished /\ strictness > 2)
    => \A i \in DOMAIN text :
         (IsWord(text[i]) /\ \E j \in 1..(i - 1) :
            text[j] \in Ends /\ \A k \in (j + 1)..(i - 1) : text[k] = Space)
            => text[i].capital

\* "Ensures consistent use of punctuation (e.g., no multiple punctuation marks,
\* correct spacing)" (enforcer.py:260): no space is left before a mark.
PunctuationConsistent ==
  (Finished /\ strictness > 0)
    => \A i \in 2..Len(text) : text[i] \in Marks => text[i - 1] # Space
================================================================================
