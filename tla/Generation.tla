------------------------------ MODULE Generation ------------------------------
(* Batched text generation (core/generation/generator.py), with the facade that *)
(* callers use (core/model.py, core/generate_text.py).  The numbers a forward   *)
(* pass computes are external: any token the sampling rules leave is possible.  *)
(* What is kept is what each row of logits was computed from, which rows there  *)
(* are, and the caller's configuration, which calls share and change.           *)
EXTENDS Naturals, Sequences, SequencesExt, FiniteSets, FiniteSetsExt

CONSTANTS Tokens,    \* token ids, 0 among them
          Batches,   \* the lists of prompts asked for
          Configs,   \* records: method, parameter ("missing", "given"), eos, suppress, ngram
          MaxNew, MaxCalls \* bounds: n_new_tokens; calls that share a configuration

VARIABLES config,    \* the caller's GenerationConfig
          prompts,   \* the prompts of the call
          current,   \* current_tokens_list
          generated, \* generated_tokens_list
          active,    \* the indices of active_seqs
          rows,      \* for each row of logits, the tokens its forward pass was given
          left,      \* iterations of the loop left
          state,     \* "idle", "sampling", "returned", "raised"
          calls

vars == <<config, prompts, current, generated, active, rows, left, state, calls>>

Init ==
  /\ config \in Configs
  /\ prompts = <<>> /\ current = <<>> /\ generated = <<>> /\ active = {}
  /\ rows = <<>> /\ left = 0 /\ state = "idle" /\ calls = 0

\* Prompts are padded with zeros on the right to the longest of them.
Padded(batch) ==
  LET longest == Max({Len(batch[i]) : i \in DOMAIN batch}) IN
  [i \in DOMAIN batch |-> batch[i] \o [k \in 1..(longest - Len(batch[i])) |-> 0]]

\* The locals of a call that returns or raises before its loop.
Over(batch, outcome) ==
  /\ prompts' = batch /\ current' = batch /\ generated' = [i \in DOMAIN batch |-> <<>>]
  /\ active' = {} /\ rows' = <<>> /\ left' = 0
  /\ state' = outcome

\* The call's start, up to its loop.  Prompts given as lists have no `size`.
Begin(batch, isArray, n) ==
  IF batch # <<>> /\ ~isArray THEN Over(batch, "raised")
  ELSE IF \A i \in DOMAIN batch : batch[i] = <<>> THEN Over(batch, "returned")
  ELSE /\ prompts' = batch /\ current' = batch /\ generated' = [i \in DOMAIN batch |-> <<>>]
       /\ active' = DOMAIN batch /\ rows' = Padded(batch) /\ left' = n
       /\ state' = "sampling"

Callable == state # "sampling" /\ calls < MaxCalls /\ calls' = calls + 1

\* QuantaTissu.sample and Generator.sample.
Sample ==
  /\ Callable
  /\ \E batch \in Batches, isArray \in BOOLEAN, n \in 0..MaxNew : Begin(batch, isArray, n)
  /\ UNCHANGED config

\* generate_text returns at once for a prompt whose ids are all 0.
GenerateText ==
  /\ Callable
  /\ \E batch \in Batches, n \in 0..MaxNew :
       /\ Len(batch) = 1
       /\ IF \A k \in DOMAIN batch[1] : batch[1][k] = 0
          THEN Over(batch, "returned")
          ELSE Begin(batch, TRUE, n)
  /\ UNCHANGED config

\* Speculative sampling makes the caller's configuration greedy and samples.
Speculate ==
  /\ Callable
  /\ \E batch \in Batches, isArray \in BOOLEAN, n \in 0..MaxNew :
       Len(batch) = 1 /\ Begin(batch, isArray, n)
  /\ config' = [config EXCEPT !.method = "greedy"]

\* Beam, contrastive and mirostat search unpack two of the three results of a
\* forward pass.  Only a search that makes none returns: no new token is asked for,
\* or, for a beam, the prompt ends with the end of sequence.
Search(beam) ==
  /\ Callable
  /\ \E batch \in Batches, n \in 0..MaxNew :
       /\ Len(batch) = 1 /\ batch[1] # <<>>
       /\ Over(batch, IF n = 0 \/ (beam /\ Last(batch[1]) \in config.eos) THEN "returned"
                     ELSE "raised")
  /\ UNCHANGED config
BeamSearch == Search(TRUE)
ContrastiveSearch == Search(FALSE)
MirostatSampling == Search(FALSE)

\* The project's tokenizer has no `encode`.
SampleWithContext ==
  /\ Callable /\ Over(<<>>, "raised")
  /\ UNCHANGED config

\* Tokens that would complete a second occurrence of an n-gram.  The prefix of a
\* 1-gram is taken as the whole past (past[-0:]), which no slice of length 0 equals.
Banned(past) ==
  LET n == config.ngram
      prefix == SubSeq(past, Len(past) - n + 2, Len(past)) IN
  IF n < 2 \/ Len(past) < n THEN {}
  ELSE {past[k + n - 1] : k \in {k \in 1..(Len(past) - n + 1) :
                                   SubSeq(past, k, k + n - 2) = prefix}}

Needy == {"top_k", "nucleus", "top_a"}
Known == Needy \cup {"greedy", "random", "sampling", "adaptive_sentiment"}

\* What _predict_from_logits may return.  Nothing: it raises.  With every token
\* banned the probabilities are not numbers: argmax takes the first, choice raises.
Predictable(past) ==
  IF config.method \notin Known \/ (config.method \in Needy /\ config.parameter = "missing") THEN {}
  ELSE IF Tokens \subseteq Banned(past)
  THEN IF config.method \in {"greedy", "adaptive_sentiment"} THEN {0} ELSE {}
  ELSE Tokens \ Banned(past)

\* The mask active_seqs must be as long as the batch of the last forward pass.
MaskFits == Len(rows) = Len(prompts)

Ending(chosen) == {i \in active : chosen[i] \in config.eos}

\* A plausible bug: the rows of the next forward pass in the wrong order.
RowOrderReversed ==
  CHOOSE order \in [1..Cardinality(active) -> active] : \A k, l \in DOMAIN order : k < l => order[k] > order[l]

\* The sequences a forward pass is made for, one row each: those active before it.
RowOrder ==
  CHOOSE order \in [1..Cardinality(active) -> active] : \A k, l \in DOMAIN order : k < l => order[k] < order[l]

\* One iteration.  The next forward pass gets the new tokens alone, those that end
\* their sequence included, and no cache of what came before.
Iterate ==
  /\ state = "sampling" /\ left > 0 /\ active # {}
  /\ MaskFits
  /\ \E chosen \in [active -> Tokens] :
       /\ \A i \in active : chosen[i] \in Predictable(current[i])
       /\ LET Ends(i) == i \in Ending(chosen)
              order == RowOrder IN
          /\ generated' = [i \in DOMAIN generated |->
               IF i \notin active \/ (Ends(i) /\ config.suppress) THEN generated[i]
               ELSE Append(generated[i], chosen[i])]
          /\ current' = [i \in DOMAIN current |->
               IF i \notin active \/ Ends(i) THEN current[i] ELSE Append(current[i], chosen[i])]
          /\ active' = active \ Ending(chosen)
          /\ rows' = [k \in 1..Cardinality(active) |-> <<chosen[order[k]]>>]
  /\ left' = left - 1
  /\ UNCHANGED <<config, prompts, state, calls>>

\* A mask of the wrong length, a method that is not known or lacks its parameter.
Raise ==
  /\ state = "sampling" /\ left > 0 /\ active # {}
  /\ ~MaskFits \/ \E i \in active : Predictable(current[i]) = {}
  /\ state' = "raised"
  /\ UNCHANGED <<config, prompts, current, generated, active, rows, left, calls>>

Return ==
  /\ state = "sampling" /\ (left = 0 \/ active = {})
  /\ state' = "returned"
  /\ UNCHANGED <<config, prompts, current, generated, active, rows, left, calls>>

Next == Sample \/ GenerateText \/ Speculate \/ BeamSearch \/ ContrastiveSearch
        \/ MirostatSampling \/ SampleWithContext \/ Iterate \/ Raise \/ Return

Spec == Init /\ [][Next]_vars

-----------------------------------------------------------------------------
TypeOK ==
  /\ config \in Configs \cup {[c EXCEPT !.method = "greedy"] : c \in Configs}
  /\ state \in {"idle", "sampling", "returned", "raised"}
  /\ active \subseteq DOMAIN prompts /\ left \in 0..MaxNew /\ calls \in 0..MaxCalls

Sampling == state = "sampling" /\ left > 0 /\ active # {} /\ MaskFits

\* generator.py:66-98: with prompts of one length, the row of logits that decides a
\* sequence's next token was computed from that sequence's own last token, whichever
\* sequences have ended.
RowsAreTheirOwn ==
  Sampling /\ (\A i, j \in DOMAIN prompts : Len(prompts[i]) = Len(prompts[j]))
    => \A i \in active : Last(rows[i]) = Last(current[i])

\* The n-gram of sequence s that ends at position k.
Gram(s, k) == SubSeq(s, k - config.ngram + 1, k)

\* generator.py:118-125: for n-grams of two and more, no generated token repeats an
\* n-gram unless every token would have.
NgramsDoNotRepeat ==
  config.ngram >= 2 =>
    \A i \in DOMAIN current :
      \A k \in (Len(prompts[i]) + 1)..Len(current[i]) : \A e \in config.ngram..(k - 1) :
        Gram(current[i], e) = Gram(current[i], k)
          => Tokens \subseteq Banned(SubSeq(current[i], 1, k - 1))

\* generator.py:118: the same for every size, as the option's name has it.
NoRepeatedNgram ==
  config.ngram >= 1 =>
    \A i \in DOMAIN current :
      \A k \in (Len(prompts[i]) + 1)..Len(current[i]) : \A e \in config.ngram..(k - 1) :
        Gram(current[i], e) # Gram(current[i], k)

\* tests/model/bdd/features/steps/test_language_model_steps.py:141 says that sample uses
\* the cache by default: a prediction for a prompt of its own depends on all of it.
SeesItsContext == Sampling /\ Len(prompts) = 1 => \A i \in active : rows[i] = current[i]
=============================================================================
