------------------------- MODULE MCTrainingControl --------------------------
(* Instances of TrainingControl for TLC; the constants are in the .cfg.    *)
EXTENDS TrainingControl
=============================================================================
