------------------------------- MODULE MCAuth -------------------------------
(* Instances of Auth for TLC. *)
EXTENDS Auth, TLC

(* Tokens are drawn at random and calls are anonymous: both are symmetric. *)
Sym == Permutations(Tokens) \cup Permutations(Calls)
=============================================================================
