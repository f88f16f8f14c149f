--------------------------- MODULE MCSessionLink ---------------------------
(***************************************************************************)
(* The session link with one market and one trade route.  A poll has 250   *)
(* ms, three ticks.                                                        *)
(***************************************************************************)
EXTENDS SessionLink

CONSTANTS md, td, s1

MCRoutes  == {md, td}
MCOrder   == <<md, td>>
MCSymbols == {s1}

(* Backoffs of one tick with and without a limit, recovery disabled, and   *)
(* the default policy: one second, no limit.                               *)
MCPolicies == [backoff : {1}, attempts : {0, 1, NoLimit}]
                \cup {[backoff |-> 12, attempts |-> NoLimit]}
=============================================================================
