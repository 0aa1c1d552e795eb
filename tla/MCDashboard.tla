---------------------------- MODULE MCDashboard -----------------------------
(* Instances of Dashboard for TLC.  Liveness is checked, so no symmetry.   *)
EXTENDS Dashboard

CONSTANTS i1, i2, p1, p2
=============================================================================
