------------------------- MODULE MCRecordingSession -------------------------
(* Instances of RecordingSession for TLC; the constants are in the .cfg.    *)
EXTENDS RecordingSession
=============================================================================
