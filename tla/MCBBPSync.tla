----------------------------- MODULE MCBBPSync -----------------------------
(* BBPSync for TLC: the constants are given in the configurations.         *)
EXTENDS BBPSync
=============================================================================
