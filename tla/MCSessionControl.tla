-------------------------- MODULE MCSessionControl --------------------------
(* Instances of SessionControl for TLC; the constants are in the .cfg.     *)
EXTENDS SessionControl
=============================================================================
