---------------------------- MODULE MCTargetPos ----------------------------
(* Instances of TargetPos for TLC.                                         *)
EXTENDS TargetPos

Flat == NoPosition
ShortTwo == [NoPosition EXCEPT !.shortToday = 1, !.shortHis = 1]

OpenSetup == [position |-> Flat, shfe |-> TRUE, priority |-> "OpenOnly",
              splitMin |-> 0, splitMax |-> 0, targets |-> {0, 2}]
ReverseSetup == [OpenSetup EXCEPT !.position = ShortTwo, !.targets = {1},
                                  !.priority = "TodayYesterdayThenOpenWait"]
SplitSetup == [OpenSetup EXCEPT !.position = ShortTwo, !.targets = {0}, !.shfe = FALSE,
                                !.priority = "TodayYesterdayThenOpen", !.splitMin = 1,
                                !.splitMax = 1]
OpenOnlySetups == {[OpenSetup EXCEPT !.targets = {0, 1}]}
AllSetups == {OpenSetup, ReverseSetup, SplitSetup}

(* Prices are only compared for equality.                                  *)
PriceSymmetry == Permutations(Prices \ {None})
=============================================================================
