------------------------------ MODULE BpeTokenizer ------------------------------
(* The byte-pair tokenizer: training, encoding, decoding, saving and loading     *)
(* (core/bpe_trainer.py), the facade that loads it (core/tokenizer.py) and the   *)
(* script that trains it (core/train_bpe.py).  A character is the sequence of    *)
(* its UTF-8 bytes; a text is a sequence of characters.                          *)
EXTENDS Integers, Sequences, SequencesExt, FiniteSets, FiniteSetsExt, Functions

CONSTANTS Space, Letters,  \* characters
          Corpora,         \* the texts a tokenizer is trained on
          Probes,          \* the texts that are encoded
          MaxMerges, MaxTrainings, MaxCrashes   \* bounds

VARIABLES merges,     \* merges: pairs of ids to ids
          vocab,      \* vocab: ids to byte sequences; <<>> stands for None
          words,      \* word_byte_sequences of the training
          text,       \* the text trained on
          state,      \* "empty", "training", "ready", "saving"
          left,       \* merges still asked for
          vocabFile, mergesFile,
          trainings,  \* calls of train
          clean,      \* whether the merges are all from the training of the vocabulary
          fileClean,  \* the same of the two files
          crashes

vars == <<merges, vocab, words, text, state, left, vocabFile, mergesFile, trainings, clean,
          fileClean, crashes>>

Initial == 256
Bytes == UNION {Range(c) : c \in Letters \cup {Space}}

Init ==
  /\ merges = <<>> /\ vocab = <<>> /\ words = <<>> /\ text = <<>> /\ state = "empty" /\ left = 0
  /\ vocabFile = <<>> /\ mergesFile = <<>> /\ trainings = 0 /\ crashes = 0
  /\ clean = TRUE /\ fileClean = TRUE

-----------------------------------------------------------------------------
\* The pre-tokenizer's pattern: letters with at most one space before them; of a longer
\* run of spaces all but the one before a letter, or all at the end.
EndOfPiece(t, i) ==
  LET Run(k, S) == CHOOSE e \in k..(Len(t) + 1) :
                     (\A m \in k..(e - 1) : t[m] \in S) /\ (e = Len(t) + 1 \/ t[e] \notin S)
      spaces == Run(i, {Space}) IN
  IF spaces - i = 0 THEN Run(i, Letters)
  ELSE IF spaces = Len(t) + 1 THEN spaces
  ELSE IF spaces - i = 1 THEN Run(spaces, Letters)
  ELSE spaces - 1

Split(t) ==
  LET from[i \in 1..(Len(t) + 1)] ==
        IF i > Len(t) THEN <<>>
        ELSE <<FlattenSeq(SubSeq(t, i, EndOfPiece(t, i) - 1))>> \o from[EndOfPiece(t, i)] IN
  from[1]

\* get_pairs
Pairs(ids) == {<<ids[i], ids[i + 1]>> : i \in 1..(Len(ids) - 1)}

\* The merge of a pair, from left to right, in training and in encoding.
Merged(ids, pair, id) ==
  FoldLeft(LAMBDA out, x : IF out # <<>> /\ <<Last(out), x>> = pair
                           THEN Append(Front(out), id) ELSE Append(out, x), <<>>, ids)

\* A plausible bug: the pair that was learned last is merged first.
EncodeChunkNewest(bytes) ==
  LET Learned(ids) == Pairs(ids) \cap DOMAIN merges
      Best(ids) == CHOOSE p \in Learned(ids) : \A q \in Learned(ids) : merges[p] >= merges[q]
      Step(ids) == IF Learned(ids) = {} THEN ids ELSE Merged(ids, Best(ids), merges[Best(ids)]) IN
  FoldLeft(LAMBDA ids, b : Step(ids), bytes, bytes)

\* _encode_chunk: the pair that was learned first is merged, until none was learned.
EncodeChunk(bytes) ==
  LET Learned(ids) == Pairs(ids) \cap DOMAIN merges
      Best(ids) == CHOOSE p \in Learned(ids) : \A q \in Learned(ids) : merges[p] <= merges[q]
      Step(ids) == IF Learned(ids) = {} THEN ids ELSE Merged(ids, Best(ids), merges[Best(ids)]) IN
  FoldLeft(LAMBDA ids, b : Step(ids), bytes, bytes)

Encode(t) == FlattenSeq([i \in DOMAIN Split(t) |-> EncodeChunk(Split(t)[i])])

\* An id that the vocabulary lacks has no bytes.
BytesOf(ids) == FlattenSeq([i \in DOMAIN ids |-> IF ids[i] \in DOMAIN vocab THEN vocab[ids[i]] ELSE <<>>])

\* The number of bytes a first byte announces; 0 for a byte that cannot be first.
Announced(b) == CASE b < 128 -> 1 [] b \in 192..223 -> 2 [] b \in 224..239 -> 3
                  [] b \in 240..247 -> 4 [] OTHER -> 0

\* decode: a byte that cannot begin a character, or whose character is cut off by the end,
\* is skipped.
Decode(ids) ==
  LET all == BytesOf(ids)
      from[i \in 1..(Len(all) + 4)] ==
        IF i > Len(all) THEN <<>>
        ELSE LET n == Announced(all[i]) IN
             IF n = 0 \/ i + n - 1 > Len(all) THEN from[i + 1]
             ELSE <<SubSeq(all, i, i + n - 1)>> \o from[i + n] IN
  from[1]

\* Tokenizer.detokenize: every token on its own; one leading space is dropped.
Detokenize(ids) ==
  LET t == FlattenSeq([i \in DOMAIN ids |-> Decode(<<ids[i]>>)]) IN
  IF t # <<>> /\ Head(t) = Space THEN Tail(t) ELSE t

-----------------------------------------------------------------------------
\* train: the vocabulary starts again with the bytes; the merges are kept.
StartTraining ==
  /\ state \in {"empty", "ready"} /\ trainings < MaxTrainings
  /\ \E t \in Corpora, n \in 0..MaxMerges :
       /\ text' = t /\ words' = Split(t) /\ left' = n
  /\ vocab' = [b \in Bytes |-> <<b>>]
  /\ state' = "training" /\ trainings' = trainings + 1 /\ clean' = (merges = <<>>)
  /\ UNCHANGED <<merges, vocabFile, mergesFile, fileClean, crashes>>

\* A pair counts once for each word it is in.
Count(pair) == Cardinality({i \in DOMAIN words : pair \in Pairs(words[i])})
AllPairs == UNION {Pairs(words[i]) : i \in DOMAIN words}

\* One merge; which of the most frequent pairs is taken depends on the order of a set.
LearnMerge ==
  /\ state = "training" /\ left > 0 /\ AllPairs # {}
  /\ \E best \in AllPairs :
       /\ \A p \in AllPairs : Count(p) <= Count(best)
       /\ LET id == Initial + Cardinality(DOMAIN vocab \ Bytes) IN
          /\ merges' = (best :> id) @@ merges
          /\ vocab' = vocab @@ (id :> vocab[best[1]] \o vocab[best[2]])
          /\ words' = [i \in DOMAIN words |-> Merged(words[i], best, id)]
  /\ left' = left - 1
  /\ UNCHANGED <<text, state, vocabFile, mergesFile, trainings, clean, fileClean, crashes>>

EndTraining ==
  /\ state = "training" /\ (left = 0 \/ AllPairs = {})
  /\ state' = "ready" /\ left' = 0
  /\ UNCHANGED <<merges, vocab, words, text, vocabFile, mergesFile, trainings, clean,
                 fileClean, crashes>>

\* save: the vocabulary's file, then the merges'.
SaveVocab ==
  /\ state = "ready" /\ vocab # <<>>
  /\ vocabFile' = vocab /\ state' = "saving" /\ fileClean' = FALSE
  /\ UNCHANGED <<merges, vocab, words, text, left, mergesFile, trainings, clean, crashes>>
SaveMerges ==
  /\ state = "saving"
  /\ mergesFile' = merges /\ state' = "ready" /\ fileClean' = clean
  /\ UNCHANGED <<merges, vocab, words, text, left, vocabFile, trainings, clean, crashes>>

\* The process ends, perhaps between the two files.
Crash ==
  /\ crashes < MaxCrashes /\ crashes' = crashes + 1
  /\ merges' = <<>> /\ vocab' = <<>> /\ words' = <<>> /\ text' = <<>> /\ state' = "empty"
  /\ left' = 0 /\ clean' = TRUE
  /\ UNCHANGED <<vocabFile, mergesFile, fileClean, trainings>>

\* Tokenizer.__init__ and load: without the vocabulary's file there is no vocabulary.
\* A missing merges file also leaves none; an empty one is a tokenizer of bytes.
Load ==
  /\ state = "empty"
  /\ merges' = IF vocabFile = <<>> THEN merges ELSE mergesFile
  /\ vocab' = vocabFile /\ words' = <<>> /\ text' = <<>>
  /\ state' = IF vocabFile = <<>> THEN "empty" ELSE "ready"
  /\ clean' = (vocabFile = <<>> \/ fileClean)
  /\ UNCHANGED <<left, vocabFile, mergesFile, trainings, fileClean, crashes>>

Next == StartTraining \/ LearnMerge \/ EndTraining \/ SaveVocab \/ SaveMerges \/ Crash \/ Load

Spec == Init /\ [][Next]_vars

-----------------------------------------------------------------------------
TypeOK ==
  /\ state \in {"empty", "training", "ready", "saving"} /\ left \in 0..MaxMerges
  /\ \A p \in DOMAIN merges : merges[p] >= Initial
  /\ trainings \in 0..MaxTrainings /\ crashes \in 0..MaxCrashes

Ready == state = "ready"

\* bpe_trainer.py:116-169: with a tokenizer trained once, or loaded from the files of one
\* save, decoding the encoding of a text gives the text.
RoundTrip == Ready /\ clean => \A t \in Probes : Decode(Encode(t)) = t

\* bpe_trainer.py:54-86, 91-114: encoding the text a tokenizer was trained on, once, gives
\* the tokens that its training ended with.
EncodesAsItTrained ==
  Ready /\ clean /\ text # <<>> => Encode(text) = FlattenSeq(words)

\* The same after any history: a second training, or a save cut in two.
AlwaysRoundTrip == Ready => \A t \in Probes : Decode(Encode(t)) = t

\* tokenizer.py:73-82: "Convert an array of token IDs back to text": a text without a
\* leading space is reconstructed from its tokens.
TextIsReconstructed ==
  Ready /\ clean =>
    \A t \in Probes : t # <<>> /\ Head(t) # Space => Detokenize(Encode(t)) = t
=============================================================================
