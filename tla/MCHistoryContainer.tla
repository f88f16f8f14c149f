------------------------ MODULE MCHistoryContainer ------------------------
(* Small instances of HistoryContainer for TLC.                            *)
EXTENDS HistoryContainer

ThreeRanges == 1..3
FiveInodes  == 1..5
=============================================================================
