----------------------------- MODULE MCStartup ------------------------------
(* Instances of Startup for TLC.  Liveness is checked, so no symmetry.     *)
EXTENDS Startup

CONSTANTS a1, a2, w1, w2
=============================================================================
