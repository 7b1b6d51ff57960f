----------------------------- MODULE AlgGeneration -----------------------------
(* The experimental sampling methods (core/generation/alg_generator.py) and the  *)
(* sentiment analyzer they consult (core/sentiment.py).  One generator object    *)
(* keeps the words it knows and the token counts of its session between calls,  *)
(* and two files outlive it: wordlist.txt and temp_list.txt.                     *)
EXTENDS Integers, Sequences, SequencesExt, FiniteSets, FiniteSetsExt, Bags

CONSTANTS Tokens,      \* token ids
          Begins,      \* the tokens whose text begins with a space
          Letters,     \* the number of letters in a token's text
          Words,       \* the words wordlist.txt may hold at first
          Intervals,   \* save_interval and evaluation_interval
          Prompts, MaxNew, MaxCalls, MaxFailures   \* bounds

VARIABLES known,       \* known_words
          wordlist,    \* the lines of wordlist.txt, none when there is no file
          counts,      \* session_token_counts, a bag
          temp,        \* the counts in temp_list.txt, none when there is no file
          call,        \* the call's arguments and locals
          failures,    \* writes that raised IOError
          calls

vars == <<known, wordlist, counts, temp, call, failures, calls>>

Methods == {"iterative", "dynamic", "bayesian", "adaptive"}
Targets == {"positive", "negative", "neutral"}

Idle == [state |-> "idle", method |-> "iterative", prompt |-> <<>>, current |-> <<>>, past |-> {},
         n |-> 0, interval |-> 1, target |-> "neutral", strength |-> 5, chunk |-> 0,
         saved |-> 0]

LoadKnownWords == Range(wordlist)

Init ==
  /\ wordlist \in {<<w>> : w \in Words} \cup {<<>>}
  /\ known = LoadKnownWords
  /\ counts = EmptyBag /\ temp = EmptyBag /\ call = Idle
  /\ failures = 0 /\ calls = 0

\* A new generator reads the word list again.
NewGenerator ==
  /\ call.state # "sampling" /\ known # LoadKnownWords
  /\ known' = LoadKnownWords /\ counts' = EmptyBag /\ call' = Idle
  /\ UNCHANGED <<wordlist, temp, failures, calls>>

-----------------------------------------------------------------------------
\* AlgorithmicGenerator.sample: the method's function up to its loop.  Explicit
\* underlying sampling is iterative sampling with the method named by an argument.
Sample ==
  /\ call.state # "sampling" /\ calls < MaxCalls /\ calls' = calls + 1
  /\ \E method \in Methods, prompt \in Prompts, n \in 0..MaxNew, interval \in Intervals,
        target \in Targets :
       /\ method # "adaptive" => target = "neutral"
       /\ method \in {"iterative", "bayesian"} => interval = 1
       /\ call' = [Idle EXCEPT !.state = "sampling", !.method = method, !.prompt = prompt,
                     !.current = prompt, !.n = n, !.interval = interval, !.target = target]
       /\ counts' = IF method = "dynamic" THEN EmptyBag ELSE counts
  /\ UNCHANGED <<known, wordlist, temp, failures>>

\* A method that lacks its tokenizer, analyzer, query embedding or Hessian, or that
\* _predict_from_logits does not know, raises before a token is chosen.
SampleRaises ==
  /\ call.state # "sampling" /\ calls < MaxCalls /\ calls' = calls + 1
  /\ \E method \in Methods :
       /\ call' = [Idle EXCEPT !.state = "raised", !.method = method]
       /\ counts' = IF method = "dynamic" THEN EmptyBag ELSE counts
  /\ UNCHANGED <<known, wordlist, temp, failures>>

Generated == SubSeq(call.current, Len(call.prompt) + 1, Len(call.current))
Sampling(method) ==
  call.state = "sampling" /\ call.method = method /\ Len(Generated) < call.n

\* The token is appended to the list that `past_tokens` names: the next prediction
\* penalises it with all the others, the first prediction penalises none.
Extended(token) ==
  LET tokens == Append(call.current, token) IN
  [call EXCEPT !.current = tokens, !.past = Range(tokens)]

IterativeStep ==
  /\ Sampling("iterative")
  /\ \E token \in Tokens : call' = Extended(token)
  /\ UNCHANGED <<known, wordlist, counts, temp, failures, calls>>

CanFail == failures < MaxFailures /\ failures' = failures + 1

\* A plausible bug: the counts are cleared before they are written.
SaveSessionTokensCleared(session) ==
  IF session = EmptyBag THEN UNCHANGED <<temp, counts, failures>>
  ELSE counts' = EmptyBag /\ temp' = EmptyBag /\ UNCHANGED failures

\* _save_session_tokens_to_temp_file: nothing for no counts; the counts are cleared
\* whether or not the file could be written.
SaveSessionTokens(session) ==
  IF session = EmptyBag THEN UNCHANGED <<temp, counts, failures>>
  ELSE /\ counts' = EmptyBag
       /\ \/ temp' = session /\ UNCHANGED failures
          \/ CanFail /\ temp' \in {temp, EmptyBag}

\* The counts with one more of a token.
WithOneMore(token) ==
  [t \in DOMAIN counts \cup {token} |->
     (IF t \in DOMAIN counts THEN counts[t] ELSE 0) + (IF t = token THEN 1 ELSE 0)]

DynamicTokenRevisionStep ==
  /\ Sampling("dynamic")
  /\ \E token \in Tokens :
       LET session == WithOneMore(token)
           due == (Len(Generated) + 1) % call.interval = 0 IN
       /\ call' = [Extended(token) EXCEPT !.saved = IF due THEN Len(Generated) + 1 ELSE @]
       /\ IF due THEN SaveSessionTokens(session)
          ELSE counts' = session /\ UNCHANGED <<temp, failures>>
  /\ UNCHANGED <<known, wordlist, calls>>

\* The last word of the detokenized text: the tokens from the last that begins a word.
LastWord(tokens) ==
  LET begins == {i \in DOMAIN tokens : tokens[i] \in Begins} IN
  SubSeq(tokens, Max(begins \cup {1}), Len(tokens))

Width(word) == FoldLeft(LAMBDA n, token : n + Letters[token], 0, word)

\* A word longer than two letters that is not known is learned when the model was sure
\* of its token: in memory first, then at the end of the file.
BayesianWordExpansionStep ==
  /\ Sampling("bayesian")
  /\ \E token \in Tokens, sure \in BOOLEAN :
       LET word == LastWord(Append(call.current, token))
           learn == sure /\ Width(word) > 2 /\ word \notin known IN
       /\ call' = Extended(token)
       /\ IF learn
          THEN /\ known' = known \cup {word}
               /\ \/ wordlist' = Append(wordlist, word) /\ UNCHANGED failures
                  \/ CanFail /\ UNCHANGED wordlist
          ELSE UNCHANGED <<known, wordlist, failures>>
  /\ UNCHANGED <<counts, temp, calls>>

Clamp(n) == Max({0, Min({10, n})})

\* The strength, in tenths, after a chunk whose average sentiment, in tenths, is `average`.
Adapted(strength, target, average) ==
  LET score == IF target = "positive" THEN 10 ELSE IF target = "negative" THEN -10 ELSE 0
      deviation == score - average IN
  Clamp(strength + (IF deviation > 1 THEN 1 ELSE IF deviation < -1 THEN -1 ELSE 0))

\* The bias is added to rows of a one-row matrix: no token id but 0 is below its
\* length, and row 0 is every token, so the choice is as without a bias.
AdaptiveSentimentStep ==
  /\ Sampling("adaptive")
  /\ \E token \in Tokens, average \in {-10, 0, 10} :
       LET due == (Len(Generated) + 1) % call.interval = 0 IN
       /\ ~due => average = 0
       /\ call' = [Extended(token) EXCEPT
            !.strength = IF due THEN Adapted(@, call.target, average) ELSE @,
            !.chunk = IF due THEN average ELSE @]
  /\ UNCHANGED <<known, wordlist, counts, temp, failures, calls>>

\* The loop is over.  Dynamic token revision saves what is left of its counts.
Return ==
  /\ call.state = "sampling" /\ Len(Generated) = call.n
  /\ call' = [call EXCEPT !.state = "returned"]
  /\ IF call.method = "dynamic" THEN SaveSessionTokens(counts)
     ELSE UNCHANGED <<counts, temp, failures>>
  /\ UNCHANGED <<known, wordlist, calls>>

Next == NewGenerator \/ Sample \/ SampleRaises \/ IterativeStep \/ DynamicTokenRevisionStep
        \/ BayesianWordExpansionStep \/ AdaptiveSentimentStep \/ Return

Spec == Init /\ [][Next]_vars

-----------------------------------------------------------------------------
TypeOK ==
  /\ call.state \in {"idle", "sampling", "returned", "raised"} /\ call.method \in Methods
  /\ call.strength \in 0..10 /\ IsABag(counts)
  /\ failures \in 0..MaxFailures /\ calls \in 0..MaxCalls

\* alg_generator.py:72-75: from a call's second prediction on, the repetition penalty
\* sees every token of the sequence, the newest included.
PenaltySeesAll ==
  call.state = "sampling" /\ Generated # <<>> => call.past = Range(call.current)

\* alg_generator.py:141-147: a word is appended to the word list once, however many
\* calls and generators meet it, as long as every append succeeded.
NoWordTwice ==
  failures = 0 => IsInjective(wordlist)

\* alg_generator.py:141-147: a word of the list is known to the generator, so that a
\* failed append loses words from the file only.
ListedIsKnown == LoadKnownWords \subseteq known

\* The bag of the tokens of a sequence.
Counted(tokens) == [t \in Range(tokens) |-> Cardinality({i \in DOMAIN tokens : tokens[i] = t})]

\* alg_generator.py:100-104: when a dynamic revision that asked for tokens returns and no
\* write failed, every token generated since the last save but one is in the file.
TempHoldsTheTail ==
  call.state = "returned" /\ call.method = "dynamic" /\ call.n > 0 /\ failures = 0
    => \E k \in 0..(call.n - 1) : /\ call.n - k <= call.interval
                                  /\ temp = Counted(SubSeq(Generated, k + 1, call.n))

\* alg_generator.py:113: the file holds the "Token counts from last generation session".
TempHoldsTheSession ==
  call.state = "returned" /\ call.method = "dynamic" /\ call.n > 0 /\ failures = 0
    => temp = Counted(Generated)

\* alg_generator.py:212: the strength does not go down while a chunk deviates from a
\* target sentiment.
StrengthRisesWhenDeviating ==
  [][ (call'.strength < call.strength) /\ call'.state = "sampling" /\ call.state = "sampling"
        => \/ call.target = "neutral" \/ (call.target = "positive" /\ call'.chunk = 10)
           \/ (call.target = "negative" /\ call'.chunk = -10) ]_vars
=============================================================================
