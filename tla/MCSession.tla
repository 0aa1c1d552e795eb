----------------------------- MODULE MCSession ------------------------------
(* Instances of Session for TLC. *)
EXTENDS Session, TLC

(* Tokens are drawn at random and calls are anonymous: both are symmetric. *)
Sym == Permutations(Tokens) \cup Permutations(Calls)
=============================================================================
