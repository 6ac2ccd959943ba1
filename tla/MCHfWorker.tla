----------------------------- MODULE MCHfWorker -----------------------------
(* Instances of HfWorker for TLC; the constants are in the .cfg.            *)
EXTENDS HfWorker
=============================================================================
