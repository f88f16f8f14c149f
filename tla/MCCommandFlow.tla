---------------------------- MODULE MCCommandFlow ----------------------------
(* Instances of CommandFlow for TLC; the configuration bounds the number of  *)
(* commands, order updates and lost connections.                             *)
EXTENDS CommandFlow
=============================================================================
