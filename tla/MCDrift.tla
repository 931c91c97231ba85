------------------------------ MODULE MCDrift ------------------------------
(* Instances of Drift for TLC, with the constants of MCWebapp.              *)
EXTENDS MCWebapp, Drift
=============================================================================
