--------------------------- MODULE MCDataManager ---------------------------
(* Instances of DataManager for TLC; every constant is given in the .cfg.  *)
EXTENDS DataManagerProps
=============================================================================
