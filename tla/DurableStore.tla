---------------------------- MODULE DurableStore ----------------------------
(***************************************************************************)
(* What a history partition promises its users, without files, slots or    *)
(* directories: the content is replaced as a whole, a reader sees the      *)
(* newest content, a store that returned success survives every crash, and *)
(* a crash may only drop contents nobody was told about, the newest first. *)
(***************************************************************************)
EXTENDS Naturals, Sequences

CONSTANTS Contents, Empty

VARIABLES log,       \* the contents committed so far, the newest last
          acked,     \* how many of them a caller was told are stored
          visible    \* what a reader that opens the partition now finds

storeVars == <<log, acked, visible>>

Init == log = <<Empty>> /\ acked = 1 /\ visible = Empty

(* The content is replaced as a whole.                                     *)
Commit == \E c \in Contents :
    /\ log' = Append(log, c)
    /\ visible' = c
    /\ UNCHANGED acked

(* A caller is told that everything committed so far is stored.            *)
Acknowledge == /\ acked' = Len(log)
               /\ UNCHANGED <<log, visible>>

(* The machine stops: contents that were not acknowledged may be gone.     *)
Crash == \E n \in acked..Len(log) :
    /\ log' = SubSeq(log, 1, n)
    /\ visible' = log[n]
    /\ UNCHANGED acked

Next == Commit \/ Acknowledge \/ Crash

Spec == Init /\ [][Next]_storeVars
=============================================================================
