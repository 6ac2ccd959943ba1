---------------------------- MODULE MCDatasetEdit ----------------------------
(* Instances of DatasetEdit for TLC; the constants are in the .cfg.        *)
EXTENDS DatasetEdit, TLC

CONSTANTS a, b, out

\* Two recorded datasets, and a new directory.
TwoDatasets == a :> 5 @@ b :> 1 @@ out :> 0
Cameras == <<"camera1", "camera2">>
Folders == <<"images1">>
\* The encoder failed for a video of the second and of the third episode.
TwoVideos == {<<"camera1", <<a, 2>>>>, <<"camera2", <<a, 3>>>>}
=============================================================================
