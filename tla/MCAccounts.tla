----------------------------- MODULE MCAccounts -----------------------------
(* Instances of Accounts for TLC. *)
EXTENDS Accounts, TLC

CONSTANTS a1, a2, k1, k2

Email(a, n) == [address |-> a, bytes |-> n, parses |-> TRUE]
Password(k, n) == [key |-> k, bytes |-> n, mixed |-> TRUE]

(* One address with two passwords that can be registered and a third that  *)
(* bcrypt refuses to hash and does not tell from the second when comparing;*)
(* another address, too long to be registered.                             *)
MCForms ==
  {[email |-> Email(a1, 255), password |-> Password(k1, 8)],
   [email |-> Email(a1, 255), password |-> Password(k2, 72)],
   [email |-> Email(a1, 255), password |-> Password(k2, 73)],
   [email |-> Email(a2, 256), password |-> Password(k1, 8)]}

(* Tokens are drawn at random and calls are anonymous: both are symmetric. *)
Sym == Permutations(Tokens) \cup Permutations(Calls)
=============================================================================
