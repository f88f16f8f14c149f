------------------------------ MODULE MCRelay ------------------------------
(* Small instances of Relay for TLC.                                       *)
EXTENDS Relay

CONSTANTS au

(* Tick charts of one symbol, one narrower than the ring of the cache and  *)
(* one wider, and a Kline chart.                                           *)
TicksAndKline == {[symbols |-> {au}, kline |-> FALSE, width |-> 1],
                  [symbols |-> {au}, kline |-> FALSE, width |-> 3],
                  [symbols |-> {au}, kline |-> TRUE, width |-> 1]}

ClientsAndCharts == Permutations(Clients) \cup Permutations(ChartIds)
=============================================================================
