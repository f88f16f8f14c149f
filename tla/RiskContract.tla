---------------------------- MODULE RiskContract ----------------------------
(***************************************************************************)
(* What the hard-risk authority promises its callers, without processes,   *)
(* clocks, leases or tables: an order is admitted once, charged once and   *)
(* for good, dispatched at most once and only after its admission, and     *)
(* leaves the in-flight states only with evidence.                         *)
(***************************************************************************)
EXTENDS Integers

CONSTANTS Keys, Scopes, Rules

VARIABLES
    status,   \* the life of each order
    sends,    \* dispatches of each order
    used      \* capacity consumed in each scope, per rule

contractVars == <<status, sends, used>>

ContractInit ==
    /\ status = [k \in Keys |-> "Absent"]
    /\ sends = [k \in Keys |-> 0]
    /\ used = [s \in Scopes |-> [r \in Rules |-> 0]]

(* Admission charges one scope and never refunds.                          *)
Admit(k) ==
    /\ status[k] = "Absent"
    /\ status' = [status EXCEPT ![k] = "Prepared"]
    /\ \E s \in Scopes : \A t \in Scopes, r \in Rules :
          used'[t][r] = used[t][r] \/ (t = s /\ used'[t][r] > used[t][r])
    /\ UNCHANGED sends

(* One authority to send, ever.                                            *)
Authorise(k) ==
    /\ status[k] = "Prepared"
    /\ status' = [status EXCEPT ![k] = "Submitting"]
    /\ UNCHANGED <<sends, used>>

Dispatch(k) ==
    /\ status[k] \notin {"Absent", "Prepared"}
    /\ sends[k] = 0
    /\ sends' = [sends EXCEPT ![k] = 1]
    /\ UNCHANGED <<status, used>>

Acknowledge(k) ==
    /\ status[k] = "Submitting"
    /\ sends[k] = 1
    /\ status' = [status EXCEPT ![k] = "Submitted"]
    /\ UNCHANGED <<sends, used>>

Doubt(ks) ==
    /\ \A k \in ks : status[k] = "Submitting"
    /\ status' = [k \in Keys |-> IF k \in ks THEN "Indeterminate" ELSE status[k]]
    /\ UNCHANGED <<sends, used>>

Settle(k) ==
    /\ status[k] \in {"Submitting", "Submitted", "Indeterminate"}
    /\ status' = [status EXCEPT ![k] = "Terminal"]
    /\ UNCHANGED <<sends, used>>

ContractNext ==
    \/ \E k \in Keys :
          Admit(k) \/ Authorise(k) \/ Dispatch(k) \/ Acknowledge(k) \/ Settle(k)
    \/ \E ks \in SUBSET Keys : Doubt(ks)

ContractSpec == ContractInit /\ [][ContractNext]_contractVars
=============================================================================
