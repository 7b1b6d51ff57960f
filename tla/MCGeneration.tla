----------------------------- MODULE MCGeneration -----------------------------
(* Batched generation alone, for the statement of the tests that it contradicts. *)
EXTENDS Generation

SomeBatches == {<<>>, <<<<1>>>>, <<<<1, 2>>>>, <<<<1>>, <<2>>>>}
Config(method, parameter, eos, suppress, ngram) ==
  [method |-> method, parameter |-> parameter, eos |-> eos, suppress |-> suppress, ngram |-> ngram]
SomeConfigs == {Config("greedy", "given", {}, FALSE, 2), Config("random", "given", {2}, TRUE, 0)}
================================================================================
