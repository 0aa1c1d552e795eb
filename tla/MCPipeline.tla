----------------------------- MODULE MCPipeline -----------------------------
(* Instances of Pipeline for TLC. *)
EXTENDS Pipeline, TLC

(* One image that passes every check and one the service refuses.          *)
MCFiles ==
  {[size |-> 1000, declared |-> "image/png", sniffed |-> "image/png",
    hasLength |-> TRUE],
   [size |-> 1000, declared |-> "image/png", sniffed |-> "text/plain",
    hasLength |-> TRUE]}

(* Jobs and workers are interchangeable in every safety property.          *)
Sym == Permutations(Jobs) \cup Permutations(Workers)
=============================================================================
