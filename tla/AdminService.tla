----------------------------- MODULE AdminService -----------------------------
(* The shared state behind the admin and model endpoints (admin_handler.py,    *)
(* model_handler.py): the configuration in memory and its file, the flag and   *)
(* the counter of the simulated training, and the model that is loaded on the  *)
(* first generate request.  Requests run in threads of their own; no access is *)
(* locked.  Requests that only read (configuration, training status, the       *)
(* mocked tests and migration) change nothing and are left out.                *)
EXTENDS Naturals, FiniteSets

CONSTANTS Threads,         \* request threads of the server
          Vocabs,          \* values a client may post for vocab_size
          TokenizerVocab,  \* the size of the tokenizer's vocabulary
          Trainings,       \* bound: training threads ever started
          MaxProgress,     \* last value of the progress counter (100 in the code)
          None

VARIABLES config,     \* model_config['vocab_size'], updated in place
          file,       \* the configuration file: absent, empty or written
          active,     \* _training_active
          progress,   \* _training_progress
          trainer,    \* the run_mock_training threads: their step and iteration
          tokenizer,  \* _tokenizer: whether it is set
          model,      \* _model: the vocab_size it was built with, or None
          request,    \* what each request thread is doing
          clients     \* how many clients send requests at the same time

vars == <<config, file, active, progress, trainer, tokenizer, model, request, clients>>
trainingVars == <<active, progress, trainer>>
modelVars == <<tokenizer, model>>

Idle == [pc |-> "idle", value |-> None]

Init ==
  /\ config \in Vocabs
  /\ file = [state |-> "absent", vocab |-> 0]
  /\ active = FALSE /\ progress = 0
  /\ trainer = [n \in Trainings |-> [pc |-> "none", epoch |-> 0]]
  /\ tokenizer = FALSE /\ model = None
  /\ request = [t \in Threads |-> Idle]
  /\ clients \in 1..Cardinality(Threads)

Busy == {t \in Threads : request[t].pc # "idle"}

Receive(t, pc, value) ==
  /\ request[t].pc = "idle" /\ Cardinality(Busy) < clients
  /\ request' = [request EXCEPT ![t] = [pc |-> pc, value |-> value]]

Step(t, from, to) == request[t].pc = from /\ request' = [request EXCEPT ![t].pc = to]
Reply(t) == request' = [request EXCEPT ![t] = Idle]

(* handle_post_config -------------------------------------------------------------*)

UpdateConfig(t, vocab) ==
  /\ Receive(t, "open", None)
  /\ config' = vocab
  /\ UNCHANGED <<file, trainingVars, modelVars, clients>>

\* open(path, 'w') empties the file before anything is written to it.
OpenFile(t) ==
  /\ Step(t, "open", "dump")
  /\ file' = [file EXCEPT !.state = "empty"]
  /\ UNCHANGED <<config, trainingVars, modelVars, clients>>

\* json.dump fills the buffer from the configuration of this moment...
DumpConfig(t) ==
  /\ request[t].pc = "dump"
  /\ request' = [request EXCEPT ![t] = [pc |-> "close", value |-> config]]
  /\ UNCHANGED <<config, file, trainingVars, modelVars, clients>>

\* ...and closing the file writes it out.
CloseFile(t) ==
  /\ request[t].pc = "close"
  /\ file' = [state |-> "written", vocab |-> request[t].value]
  /\ Reply(t)
  /\ UNCHANGED <<config, trainingVars, modelVars, clients>>

PostConfig(t) == (\E v \in Vocabs : UpdateConfig(t, v)) \/ OpenFile(t) \/ DumpConfig(t)
                 \/ CloseFile(t)

(* handle_training_start ------------------------------------------------------------*)

\* The flag is read here and set by the new thread: requests in between pass too.
StartTraining(t) ==
  /\ ~active
  /\ request[t].pc = "idle" /\ Cardinality(Busy) < clients
  /\ \E n \in Trainings : trainer[n].pc = "none" /\ trainer' = [trainer EXCEPT ![n].pc = "begin"]
  /\ UNCHANGED <<config, file, active, progress, modelVars, request, clients>>

BeginTraining(n) ==
  /\ trainer[n].pc = "begin"
  /\ active' = TRUE
  /\ trainer' = [trainer EXCEPT ![n].pc = "train"]
  /\ UNCHANGED <<config, file, progress, modelVars, request, clients>>

TrainEpoch(n) ==
  /\ trainer[n].pc = "train"
  /\ progress' = trainer[n].epoch
  /\ IF trainer[n].epoch = MaxProgress
     THEN trainer' = [trainer EXCEPT ![n].pc = "clear"]
     ELSE trainer' = [trainer EXCEPT ![n].epoch = @ + 1]
  /\ UNCHANGED <<config, file, active, modelVars, request, clients>>

EndTraining(n) ==
  /\ trainer[n].pc = "clear"
  /\ active' = FALSE
  /\ trainer' = [trainer EXCEPT ![n].pc = "end"]
  /\ UNCHANGED <<config, file, progress, modelVars, request, clients>>

Training(n) == BeginTraining(n) \/ TrainEpoch(n) \/ EndTraining(n)

(* get_model_and_tokenizer and handle_generate ---------------------------------------*)

LoadTokenizer(t) ==
  /\ Receive(t, "vocab", None)
  /\ model = None
  /\ tokenizer' = TRUE
  /\ UNCHANGED <<config, file, trainingVars, model, clients>>

\* A plausible bug: the tokenizer's size is not put into the configuration.
SetVocabNot(t) ==
  /\ Step(t, "vocab", "build")
  /\ UNCHANGED <<config, file, trainingVars, modelVars, clients>>

SetVocab(t) ==
  /\ Step(t, "vocab", "build")
  /\ config' = TokenizerVocab
  /\ UNCHANGED <<file, trainingVars, modelVars, clients>>

\* The constructor reads the configuration again; it may raise on posted values.
BuildModel(t) ==
  /\ request[t].pc = "build"
  /\ \/ /\ model' = config
        /\ request' = [request EXCEPT ![t].pc = "sample"]
     \/ Reply(t) /\ UNCHANGED model
  /\ UNCHANGED <<config, file, trainingVars, tokenizer, clients>>

Loaded(t) ==
  /\ Receive(t, "sample", None)
  /\ model # None
  /\ UNCHANGED <<config, file, trainingVars, modelVars, clients>>

\* The prompt, augmented or not, is tokenized, sampled from and detokenized.
Sample(t) ==
  /\ request[t].pc = "sample"
  /\ Reply(t)
  /\ UNCHANGED <<config, file, trainingVars, modelVars, clients>>

Generate(t) == LoadTokenizer(t) \/ SetVocab(t) \/ BuildModel(t) \/ Loaded(t) \/ Sample(t)

Next == \/ \E t \in Threads : PostConfig(t) \/ StartTraining(t) \/ Generate(t)
        \/ \E n \in Trainings : Training(n)

Spec == Init /\ [][Next]_vars /\ \A n \in Trainings : WF_vars(Training(n))

\* Whoever gets as far as sampling has a model and its tokenizer: no request
\* sees a half-loaded pair.
SampleHasBoth == \A t \in Threads : request[t].pc = "sample" => model # None /\ tokenizer

\* With one request at a time the model's vocabulary is the tokenizer's, whatever
\* was posted before; two requests at a time can build it from a posted size.
SerialVocabAgrees == (clients = 1 /\ model # None) => model = TokenizerVocab

\* When every training thread has ended the flag is down and the counter full,
\* though several threads may have written both.
TrainingAtRest ==
  (/\ \A n \in Trainings : trainer[n].pc \in {"none", "end"}
   /\ \E n \in Trainings : trainer[n].pc = "end")
  => ~active /\ progress = MaxProgress

\* With one request at a time an idle server's file is whole, and holds the
\* configuration until a model is loaded (which changes the configuration only).
SerialFileWhole ==
  (clients = 1 /\ Busy = {} /\ file.state # "absent")
     => file.state = "written" /\ (~tokenizer => file.vocab = config)
================================================================================
