----------------------------- MODULE MCManagers -----------------------------
(* Instances of Managers for TLC, with the constants of MCWebapp.           *)
EXTENDS MCWebapp, Managers
=============================================================================
