--------------------------- MODULE MCBehaviorTree ---------------------------
(* Instances of BehaviorTree for TLC; the constants are in the .cfg.       *)
EXTENDS BehaviorTree

\* The tree of trees/ffw_sg2_rev1.xml: arms, lift, head and base.
RobotControlSequence == <<"move", "move", "move", "rotate">>
=============================================================================
