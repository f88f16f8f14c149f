--------------------- MODULE MCTargetPosScheduler ---------------------
(* Instances of TargetPosScheduler for TLC.                                *)
EXTENDS TargetPosScheduler

TwoTargets == <<2, None, 0>>
OneSetup == {[position |-> NoPosition, shfe |-> TRUE, priority |-> "OpenOnly",
              splitMin |-> 0, splitMax |-> 0, targets |-> {}]}
=============================================================================
