----------------------------- MODULE MCCommitLog -----------------------------
(***************************************************************************)
(* Small instances of CommitLog for TLC.                                   *)
(***************************************************************************)
EXTENDS CommitLog
=============================================================================
