----------------------------- MODULE MCHardRisk -----------------------------
(***************************************************************************)
(* Instances of HardRisk for TLC.  Requests and policies are written out   *)
(* here because a configuration file cannot hold records.                  *)
(***************************************************************************)
EXTENDS HardRisk, TLC

CONSTANTS p1, p2, k1, k2, a1, d1, d2

Request(k, d, open, volume) ==
    [key |-> k, account |-> a1, day |-> d, open |-> open, volume |-> volume]

Policy(name, attempts, volume) ==
    [name |-> name, limit |-> [rule \in Rules |->
        IF rule = "order_attempt" THEN attempts ELSE volume]]

(* One opening order, and a closing one competing for the same key.        *)
OneKeyRequests == {Request(k1, d1, TRUE, 1), Request(k1, d2, FALSE, 2)}

OneDayRequests == {Request(k1, d1, TRUE, 1)}

(* Two orders of one day that together exceed a volume limit of 3.         *)
TwoKeyRequests == {Request(k1, d1, TRUE, 2), Request(k2, d1, TRUE, 2)}

OnePolicy == {Policy("v1", 2, 3)}
(* A policy without an attempt limit, one with, and a second definition of *)
(* the latter's version.                                                   *)
TwoPolicies == {Policy("v1", 0, 3), Policy("v2", 1, 4)}
ClashingPolicies == TwoPolicies \cup {Policy("v2", 2, 2)}

PermuteProcs == Permutations(Procs)
=============================================================================
