--------------------------- MODULE MCServiceQueue ---------------------------
(* Instances of ServiceQueue for TLC; the constants are in the .cfg.       *)
EXTENDS ServiceQueue
=============================================================================
